------------------------- MODULE Credentials_proofs -------------------------
(***************************************************************************)
(* What Credentials promises, for any numbers of accounts, links, sessions, *)
(* passwords and requests under way: an administrator who can sign in stays,*)
(* setup ends once, a link that works was made for the password the account *)
(* has, and nobody takes an account over; and what RateLimit does: attempts *)
(* and changes stay within their limits.                                    *)
(***************************************************************************)
EXTENDS Credentials, RateLimit, FiniteSetTheorems, WellFoundedInduction, TLAPS

-----------------------------------------------------------------------------
(* The inductive invariant                                                  *)

\* Request r waits with an account's row, and may be about to take an
\* administrator away.
Loses(r) == job[r].op \in Losing

\* The other administrators it has found are there.
CountsRight(r) == job[r].who \in admins /\ job[r].others => OtherAdmins(job[r].who)

\* What such a request has read stays true until it ends: the account is still
\* there, nobody else waits with the same one, and of several requests at most
\* one is about an administrator, so that the others it counted on remain.
LossesInv ==
    /\ \A r \in Requests : Loses(r) => account[job[r].who] # "none" /\ CountsRight(r)
    /\ \A r, q \in Requests : Loses(r) /\ Loses(q) /\ r # q =>
          /\ job[r].who # job[q].who
          /\ ~ (job[r].who \in admins /\ job[q].who \in admins)

\* The default login is itself the administrator who can sign in, and where
\* there is an account there is a workspace or an administrator.
SetupInv ==
    /\ default # Nobody => default \in admins /\ account[default] = "active"
    /\ (\E a \in Accounts : account[a] # "none") => workspace \/ admins # {}

\* An open link belongs to an account that is there, and a form that was opened
\* with a link is about that link's account, as long as the link works.
LinksInv ==
    /\ \A t \in Tokens : link[t].state = "open" => account[link[t].of] # "none"
    /\ \A r \in Requests : job[r].op = "redeem" =>
          /\ link[job[r].token] # NoLink
          /\ link[job[r].token].state = "open" => link[job[r].token].of = job[r].who

-----------------------------------------------------------------------------
(* Types                                                                    *)

\* What requests read is of their kinds' records.
LEMMA JobShape ==
    ASSUME TypeOK, NEW r \in Requests
    PROVE  /\ job[r] = Idle \/ job[r] \in Job
           /\ job[r].op \in {"sign-in", "change", "redeem", "issue"} \cup Losing
                => job[r].who \in Accounts
           /\ job[r].op \in {"sign-in", "change"} => job[r].with \in Passwords
           /\ job[r].op = "redeem" => job[r].token \in Tokens
           /\ job[r].op = "change" => job[r].from \in Sessions
BY DEF TypeOK, Job, Idle, Losing

\* Closing an account's links leaves links.
LEMMA CloseLinksTyped ==
    ASSUME TypeOK, NEW a \in Accounts
    PROVE  CloseLinks(a) \in [Tokens -> Link]
BY DEF TypeOK, CloseLinks, Link

\* Ending an account's sessions leaves sessions.
LEMMA EndSessionsTyped ==
    ASSUME TypeOK, NEW a, NEW s
    PROVE  EndSessions(a, s) \in [Sessions -> Session \cup {NoSession}]
BY DEF TypeOK, EndSessions

\* Rows and requests keep their fields.
LEMMA TypingKept ==
    ASSUME TypeOK, [Next]_vars
    PROVE  TypeOK'
<1> USE CredentialsAssumption
<1>1. CASE Setup
  <2>1. ASSUME NEW a \in Accounts, CreateDefaultLogin(a) PROVE TypeOK'
    BY <2>1 DEF CreateDefaultLogin, TypeOK
  <2>2. ASSUME NEW s \in Sessions, NEW p \in Passwords, FinishSetup(s, p) PROVE TypeOK'
    <3>1. /\ default \in Accounts
          /\ session[s] \in Session
      BY <2>2 DEF FinishSetup, SignedIn, TypeOK, Session, NoSession
    <3>2. CloseLinks(default) \in [Tokens -> Link]
      BY <3>1, CloseLinksTyped
    <3>3. EndSessions(default, s) \in [Sessions -> Session \cup {NoSession}]
      BY EndSessionsTyped
    <3>4. EndSessions(default, s)[s] = session[s]
      BY DEF EndSessions
    <3>5. session' \in [Sessions -> Session \cup {NoSession}]
      <4> HIDE DEF EndSessions
      <4>1. [session[s] EXCEPT !.with = p] \in Session
        BY <3>1 DEF Session
      <4> QED
        BY <2>2, <3>3, <3>4, <4>1 DEF FinishSetup
    <3> QED
      BY <2>2, <3>1, <3>2, <3>5 DEF FinishSetup, TypeOK
  <2>3. CASE Remember \/ WebRestarts
    BY <2>3 DEF Remember, WebRestarts, TypeOK
  <2> QED
    BY <1>1, <2>1, <2>2, <2>3 DEF Setup
<1>2. CASE People
  BY <1>2 DEF People, SignUp, MarkEmailVerified, Reactivate, OperatorGrants, TypeOK
<1>3. CASE SigningIn
  <2>1. ASSUME NEW r \in Requests, NEW a \in Accounts, CheckPassword(r, a) PROVE TypeOK'
    <3>1. [op |-> "sign-in", who |-> a, with |-> password[a]] \in Job
      BY DEF Job, TypeOK
    <3> QED
      BY <2>1, <3>1 DEF CheckPassword, Becomes, TypeOK
  <2>2. ASSUME NEW r \in Requests, NEW s \in Sessions, CreateSession(r, s) PROVE TypeOK'
    <3>1. [of |-> job[r].who, with |-> job[r].with] \in Session
      BY <2>2, JobShape DEF CreateSession, Session
    <3> QED
      BY <2>2, <3>1 DEF CreateSession, Becomes, TypeOK
  <2>3. ASSUME NEW s \in Sessions, SignOut(s) PROVE TypeOK'
    BY <2>3 DEF SignOut, TypeOK
  <2> QED
    BY <1>3, <2>1, <2>2, <2>3 DEF SigningIn
<1>4. CASE OwnPassword
  <2>1. ASSUME NEW r \in Requests, NEW s \in Sessions, CheckCurrent(r, s) PROVE TypeOK'
    <3>1. session[s].of \in Accounts
      BY <2>1 DEF CheckCurrent, SignedIn, TypeOK, Session, NoSession
    <3>2. [op |-> "change", who |-> session[s].of, with |-> password[session[s].of], from |-> s] \in Job
      BY <3>1 DEF Job, TypeOK
    <3> QED
      BY <2>1, <3>2 DEF CheckCurrent, Becomes, TypeOK
  <2>2. ASSUME NEW r \in Requests, NEW p \in Passwords, ChangeOwnPassword(r, p) PROVE TypeOK'
    <3>1. job[r].who \in Accounts
      BY <2>2, JobShape DEF ChangeOwnPassword
    <3>2. CloseLinks(job[r].who) \in [Tokens -> Link]
      BY <3>1, CloseLinksTyped
    <3>3. session' \in [Sessions -> Session \cup {NoSession}]
      <4>1. \A s \in Sessions : session[s].of = job[r].who => [session[s] EXCEPT !.with = p] \in Session
        BY <3>1 DEF TypeOK, Session, NoSession
      <4> QED
        BY <2>2, <4>1 DEF ChangeOwnPassword, TypeOK
    <3> QED
      BY <2>2, <3>1, <3>2, <3>3 DEF ChangeOwnPassword, Becomes, TypeOK
  <2> QED
    BY <1>4, <2>1, <2>2 DEF OwnPassword
<1>5. CASE Links
  <2>0. ASSUME NEW t \in Tokens, NEW a \in Accounts, NEW via \in {"operator", "administrator"},
               NewLink(t, a, via)
        PROVE  link' \in [Tokens -> Link]
    <3>1. [state |-> "open", of |-> a, via |-> via, replaces |-> password[a]] \in Link
      BY DEF Link, TypeOK
    <3> QED
      BY <2>0, <3>1, CloseLinksTyped DEF NewLink
  <2>1. ASSUME NEW t \in Tokens, NEW a \in Accounts, OperatorIssues(t, a) PROVE TypeOK'
    BY <2>0, <2>1 DEF OperatorIssues, TypeOK
  <2>2. ASSUME NEW r \in Requests, NEW by \in Accounts, NEW a \in Accounts, AskIssue(r, by, a)
        PROVE  TypeOK'
    <3>1. [op |-> "issue", who |-> a] \in Job
      BY DEF Job
    <3> QED
      BY <2>2, <3>1 DEF AskIssue, Becomes, TypeOK
  <2>3. ASSUME NEW r \in Requests, NEW t \in Tokens, AdministratorIssues(r, t) PROVE TypeOK'
    BY <2>0, <2>3, JobShape DEF AdministratorIssues, Becomes, TypeOK
  <2>4. ASSUME NEW r \in Requests, NEW t \in Tokens, DescribeLink(r, t) PROVE TypeOK'
    <3>1. link[t].of \in Accounts
      BY <2>4 DEF DescribeLink, TypeOK, Link
    <3>2. [op |-> "redeem", who |-> link[t].of, token |-> t] \in Job
      BY <3>1 DEF Job
    <3> QED
      BY <2>4, <3>2 DEF DescribeLink, Becomes, TypeOK
  <2>5. ASSUME NEW by \in Accounts, NEW a \in Accounts, AdministratorCancels(by, a) PROVE TypeOK'
    BY <2>5, CloseLinksTyped DEF AdministratorCancels, TypeOK
  <2>6. ASSUME NEW r \in Requests, NEW p \in Passwords, RedeemLink(r, p) PROVE TypeOK'
    <3>1. job[r].who \in Accounts /\ job[r].token \in Tokens
      BY <2>6, JobShape DEF RedeemLink
    <3>2. [state |-> "used"] \in Link
      BY DEF Link
    <3> QED
      BY <2>6, <3>1, <3>2, EndSessionsTyped DEF RedeemLink, Becomes, TypeOK
  <2>7. ASSUME NEW t \in Tokens, Expire(t) PROVE TypeOK'
    <3>1. [link[t] EXCEPT !.state = "expired"] \in Link
      BY <2>7 DEF Expire, TypeOK, Link
    <3> QED
      BY <2>7, <3>1 DEF Expire, TypeOK
  <2> QED
    BY <1>5, <2>1, <2>2, <2>3, <2>4, <2>5, <2>6, <2>7 DEF Links
<1>6. CASE Losses
  <2>1. ASSUME NEW r \in Requests, NEW how \in Losing, NEW a \in Accounts, StartLosing(r, how, a)
        PROVE  TypeOK'
    <3>1. \A b \in BOOLEAN : [op |-> how, who |-> a, others |-> b] \in Job
      BY DEF Job
    <3>2. PICK b \in BOOLEAN : Becomes(r, [op |-> how, who |-> a, others |-> b])
      <4>1. OtherAdmins(a) \in BOOLEAN
        BY DEF OtherAdmins
      <4> QED
        BY <2>1, <4>1, Zenon DEF StartLosing
    <3> DEFINE j == [op |-> how, who |-> a, others |-> b]
    <3>3. job' \in [Requests -> Job \cup {Idle}]
      <4>1. j \in Job /\ job' = [job EXCEPT ![r] = j]
        BY <3>1, <3>2 DEF Becomes
      <4> HIDE DEF j
      <4> QED
        BY <4>1 DEF TypeOK
    <3> QED
      BY <2>1, <3>3 DEF StartLosing, TypeOK
  <2>2. ASSUME NEW r \in Requests,
               RefuseLast(r) \/ RevokeAdministrator(r) \/ Suspend(r) \/ Abandon(r)
        PROVE  TypeOK'
    BY <2>2, JobShape
       DEF RefuseLast, RevokeAdministrator, Suspend, Abandon, Becomes, TypeOK
  <2>3. ASSUME NEW r \in Requests, DeleteAccount(r) PROVE TypeOK'
    <3>1. job[r].who \in Accounts
      BY <2>3, JobShape DEF DeleteAccount, Losing
    <3>2. link' \in [Tokens -> Link] /\ session' \in [Sessions -> Session \cup {NoSession}]
      BY <2>3, <3>1, CloseLinksTyped, EndSessionsTyped DEF DeleteAccount
    <3>3. default' \in Accounts \cup {Nobody} /\ admins' \subseteq Accounts
      BY <2>3 DEF DeleteAccount, TypeOK
    <3>4. job' \in [Requests -> Job \cup {Idle}]
      BY <2>3 DEF DeleteAccount, Becomes, TypeOK
    <3>5. account' \in [Accounts -> {"none", "unverified", "active", "suspended"}]
          /\ password' \in [Accounts -> Passwords]
      BY <2>3, <3>1 DEF DeleteAccount, TypeOK
    <3> QED
      BY <2>3, <3>2, <3>3, <3>4, <3>5 DEF DeleteAccount, TypeOK
  <2> QED
    BY <1>6, <2>1, <2>2, <2>3 DEF Losses
<1>7. CASE UNCHANGED vars
  BY <1>7 DEF vars, TypeOK
<1> QED
  BY <1>1, <1>2, <1>3, <1>4, <1>5, <1>6, <1>7 DEF Next

\* What the first start finds is typed.
LEMMA InitTyped == Init => TypeOK
<1>1. NoLink \in Link
  BY DEF NoLink, Link
<1> QED
  BY <1>1, CredentialsAssumption DEF Init, TypeOK

\* Rows and requests keep their fields, whatever requests run at once.
THEOREM CredentialsTyped == Spec => []TypeOK
<1>1. TypeOK /\ [Next]_vars => TypeOK'
  BY TypingKept
<1> QED
  BY <1>1, InitTyped, PTL DEF Spec

-----------------------------------------------------------------------------
(* What a step can do                                                       *)

\* The steps that touch accounts, passwords, administrators, links, the default
\* login or the workspace; every other one only reads, or moves sessions.
LEMMA StepKinds ==
    ASSUME Next
    PROVE  \/ UNCHANGED <<account, password, admins, default, workspace, link>>
           \/ \E a \in Accounts :
                 \/ CreateDefaultLogin(a) \/ (\E p \in Passwords : SignUp(a, p))
                 \/ MarkEmailVerified(a) \/ Reactivate(a) \/ OperatorGrants(a)
           \/ \E s \in Sessions, p \in Passwords : FinishSetup(s, p)
           \/ \E r \in Requests, p \in Passwords : ChangeOwnPassword(r, p) \/ RedeemLink(r, p)
           \/ \E t \in Tokens, a \in Accounts : OperatorIssues(t, a)
           \/ \E r \in Requests, t \in Tokens : AdministratorIssues(r, t)
           \/ \E by, a \in Accounts : AdministratorCancels(by, a)
           \/ \E t \in Tokens : Expire(t)
           \/ \E r \in Requests : RevokeAdministrator(r) \/ Suspend(r) \/ DeleteAccount(r)
<1>1. CASE Setup
  BY <1>1 DEF Setup, Remember, WebRestarts
<1>2. CASE People
  BY <1>2 DEF People
<1>3. CASE SigningIn
  BY <1>3 DEF SigningIn, CheckPassword, CreateSession, SignOut
<1>4. CASE OwnPassword
  BY <1>4 DEF OwnPassword, CheckCurrent
<1>5. CASE Links
  BY <1>5 DEF Links, AskIssue, DescribeLink
<1>6. CASE Losses
  BY <1>6 DEF Losses, StartLosing, RefuseLast, Abandon
<1> QED
  BY <1>1, <1>2, <1>3, <1>4, <1>5, <1>6 DEF Next

\* A request that is about to redeem a link or to take an administrator away
\* came to that by DescribeLink and StartLosing alone.
LEMMA JobSteps ==
    ASSUME TypeOK, Next, NEW q \in Requests
    PROVE  \/ job'[q] = job[q]
           \/ job'[q].op \notin Losing \cup {"redeem"}
           \/ \E t \in Tokens : DescribeLink(q, t)
           \/ \E how \in Losing, a \in Accounts : StartLosing(q, how, a)
<1> USE DEF Becomes, Losing
<1>0. job \in [Requests -> Job \cup {Idle}]
  BY DEF TypeOK
<1>1. CASE Setup
  BY <1>1 DEF Setup, Remember, WebRestarts, CreateDefaultLogin, FinishSetup
<1>2. CASE People
  BY <1>2 DEF People, SignUp, MarkEmailVerified, Reactivate, OperatorGrants
<1>3. CASE SigningIn
  BY <1>0, <1>3 DEF SigningIn, CheckPassword, CreateSession, SignOut, Idle
<1>4. CASE OwnPassword
  BY <1>0, <1>4 DEF OwnPassword, CheckCurrent, ChangeOwnPassword, Idle
<1>5. CASE Links
  <2>1. CASE \E t \in Tokens, a \in Accounts : OperatorIssues(t, a)
    BY <2>1 DEF OperatorIssues
  <2>2. CASE \E r \in Requests, by, a \in Accounts : AskIssue(r, by, a)
    BY <1>0, <2>2 DEF AskIssue
  <2>3. CASE \E r \in Requests, t \in Tokens : AdministratorIssues(r, t)
    BY <1>0, <2>3 DEF AdministratorIssues, Idle
  <2>4. ASSUME NEW r \in Requests, NEW t \in Tokens, DescribeLink(r, t)
        PROVE  job'[q] = job[q] \/ DescribeLink(q, t)
    <3>1. CASE r = q
      BY <2>4, <3>1
    <3>2. CASE r # q
      BY <1>0, <2>4, <3>2 DEF DescribeLink
    <3> QED
      BY <3>1, <3>2
  <2>5. CASE \E by, a \in Accounts : AdministratorCancels(by, a)
    BY <2>5 DEF AdministratorCancels
  <2>6. CASE \E r \in Requests, p \in Passwords : RedeemLink(r, p)
    BY <1>0, <2>6 DEF RedeemLink, Idle
  <2>7. CASE \E t \in Tokens : Expire(t)
    BY <2>7 DEF Expire
  <2> QED
    BY <1>5, <2>1, <2>2, <2>3, <2>4, <2>5, <2>6, <2>7 DEF Links
<1>6. CASE Losses
  <2>1. ASSUME NEW r \in Requests, NEW how \in Losing, NEW a \in Accounts, StartLosing(r, how, a)
        PROVE  job'[q] = job[q] \/ StartLosing(q, how, a)
    <3>1. CASE r = q
      BY <2>1, <3>1
    <3>2. CASE r # q
      BY <1>0, <2>1, <3>2 DEF StartLosing
    <3> QED
      BY <3>1, <3>2
  <2>2. ASSUME NEW r \in Requests, job' = [job EXCEPT ![r] = Idle]
        PROVE  job'[q] = job[q] \/ job'[q].op \notin Losing \cup {"redeem"}
    BY <1>0, <2>2 DEF Idle
  <2> QED
    BY <1>6, <2>1, <2>2
       DEF Losses, RefuseLast, RevokeAdministrator, Suspend, DeleteAccount, Abandon
<1> QED
  BY <1>1, <1>2, <1>3, <1>4, <1>5, <1>6 DEF Next

\* A link that was ever made is never made again: it stays as it is, or stops
\* working for good.
LEMMA LinkSteps ==
    ASSUME TypeOK, Next, NEW t \in Tokens, link[t] # NoLink
    PROVE  /\ link'[t] # NoLink
           /\ link'[t].state = "open" => link'[t] = link[t]
<1>0. /\ link \in [Tokens -> Link]
      /\ \A a \in Accounts : /\ CloseLinks(a)[t] # NoLink
                             /\ CloseLinks(a)[t].state = "open" => CloseLinks(a)[t] = link[t]
  BY DEF TypeOK, CloseLinks, NoLink
<1>1. CASE link' = link
  BY <1>1
<1>2. ASSUME NEW a \in Accounts, link' = CloseLinks(a)
      PROVE  /\ link'[t] # NoLink
             /\ link'[t].state = "open" => link'[t] = link[t]
  <2>1. link'[t] = CloseLinks(a)[t]
    BY <1>2
  <2> QED
    BY <1>0, <2>1
<1>3. ASSUME NEW u \in Tokens, NEW a \in Accounts, NEW via, NewLink(u, a, via)
      PROVE  /\ link'[t] # NoLink
             /\ link'[t].state = "open" => link'[t] = link[t]
  <2>1. link'[t] = CloseLinks(a)[t]
    BY <1>0, <1>3 DEF NewLink, CloseLinks, NoLink
  <2> QED
    BY <1>0, <2>1
<1>4. ASSUME NEW u \in Tokens, link' = [link EXCEPT ![u] = [state |-> "used"]]
      PROVE  /\ link'[t] # NoLink
             /\ link'[t].state = "open" => link'[t] = link[t]
  BY <1>0, <1>4 DEF NoLink
<1>5. ASSUME NEW u \in Tokens, Expire(u)
      PROVE  /\ link'[t] # NoLink
             /\ link'[t].state = "open" => link'[t] = link[t]
  BY <1>0, <1>5 DEF Expire, NoLink
<1>6. \/ link' = link
      \/ \E a \in Accounts : link' = CloseLinks(a)
      \/ \E u \in Tokens, a \in Accounts : NewLink(u, a, "operator") \/ NewLink(u, a, "administrator")
      \/ \E u \in Tokens : link' = [link EXCEPT ![u] = [state |-> "used"]]
      \/ \E u \in Tokens : Expire(u)
  <2>1. ASSUME NEW s \in Sessions, NEW p \in Passwords, FinishSetup(s, p)
        PROVE  \E a \in Accounts : link' = CloseLinks(a)
    BY <2>1 DEF FinishSetup, SignedIn, TypeOK
  <2>2. ASSUME NEW r \in Requests, NEW p \in Passwords, ChangeOwnPassword(r, p)
        PROVE  \E a \in Accounts : link' = CloseLinks(a)
    BY <2>2, JobShape DEF ChangeOwnPassword
  <2>3. ASSUME NEW r \in Requests, NEW p \in Passwords, RedeemLink(r, p)
        PROVE  \E u \in Tokens : link' = [link EXCEPT ![u] = [state |-> "used"]]
    BY <2>3, JobShape DEF RedeemLink
  <2>4. ASSUME NEW r \in Requests, NEW u \in Tokens, AdministratorIssues(r, u)
        PROVE  \E a \in Accounts : NewLink(u, a, "administrator")
    BY <2>4, JobShape DEF AdministratorIssues
  <2>5. ASSUME NEW r \in Requests, DeleteAccount(r)
        PROVE  \E a \in Accounts : link' = CloseLinks(a)
    BY <2>5, JobShape DEF DeleteAccount, Losing
  <2> QED
    BY StepKinds, <2>1, <2>2, <2>3, <2>4, <2>5
       DEF CreateDefaultLogin, SignUp, MarkEmailVerified, Reactivate, OperatorGrants,
           OperatorIssues, AdministratorCancels, RevokeAdministrator, Suspend
<1> QED
  BY <1>0, <1>1, <1>2, <1>3, <1>4, <1>5, <1>6

\* A step starts to take an administrator away, or takes one away after it has
\* been allowed to, or leaves every account and administrator as active as it was.
LEMMA LossSteps ==
    ASSUME TypeOK, SetupInv, LossesInv, Next
    PROVE  \/ \E r \in Requests, how \in Losing, a \in Accounts : StartLosing(r, how, a)
           \/ \E r \in Requests : RevokeAdministrator(r) \/ Suspend(r) \/ DeleteAccount(r)
           \/ /\ \A r \in Requests : Loses(r)' => job'[r] = job[r]
              /\ admins \subseteq admins'
              /\ \A b \in Accounts : /\ account[b] = "active" => account'[b] = "active"
                                     /\ account[b] # "none" => account'[b] # "none"
              /\ admins' = admins \/ \A r \in Requests : ~ Loses(r)
              /\ workspace' \/ admins' # {} =>
                    workspace \/ admins # {} \/ \E a \in admins' : account'[a] = "active"
<1>1. \A r \in Requests : Loses(r)' => \/ job'[r] = job[r]
                                      \/ \E how \in Losing, a \in Accounts : StartLosing(r, how, a)
  BY JobSteps DEF Loses, DescribeLink, Becomes, TypeOK, Losing
<1> DEFINE Keeps == /\ admins \subseteq admins'
                    /\ \A b \in Accounts : /\ account[b] = "active" => account'[b] = "active"
                                           /\ account[b] # "none" => account'[b] # "none"
                    /\ admins' = admins \/ \A r \in Requests : ~ Loses(r)
                    /\ workspace' \/ admins' # {} =>
                          workspace \/ admins # {} \/ \E a \in admins' : account'[a] = "active"
<1>2. ASSUME NEW a \in Accounts, CreateDefaultLogin(a)
      PROVE  Keeps
  <2>1. \A r \in Requests : ~ Loses(r)
    BY <1>2, JobShape DEF CreateDefaultLogin, LossesInv, Loses
  <2> QED
    BY <1>2, <2>1 DEF CreateDefaultLogin, TypeOK
<1>3. ASSUME NEW a \in Accounts, (\E p \in Passwords : SignUp(a, p)) \/ MarkEmailVerified(a) \/ Reactivate(a)
      PROVE  Keeps
  BY <1>3 DEF SignUp, MarkEmailVerified, Reactivate, TypeOK
<1>4. ASSUME NEW a \in Accounts, OperatorGrants(a)
      PROVE  Keeps
  BY <1>4 DEF OperatorGrants, SetFree, Loses
<1>5. ASSUME NEW s \in Sessions, NEW p \in Passwords, FinishSetup(s, p)
      PROVE  Keeps
  BY <1>5 DEF FinishSetup, SignedIn, SetupInv
<1>6. ASSUME UNCHANGED <<account, admins, workspace>>
      PROVE  Keeps
  BY <1>6
<1>7. \/ Keeps
      \/ \E r \in Requests : RevokeAdministrator(r) \/ Suspend(r) \/ DeleteAccount(r)
  <2> HIDE DEF Keeps
  <2> QED
    BY StepKinds, <1>2, <1>3, <1>4, <1>5, <1>6
       DEF ChangeOwnPassword, RedeemLink, OperatorIssues, AdministratorIssues,
           AdministratorCancels, Expire
<1> QED
  BY <1>1, <1>7

-----------------------------------------------------------------------------
(* Somebody always administers                                              *)

\* Taking an administrator away concerns nobody else.
LEMMA LossEffect ==
    ASSUME TypeOK, NEW r \in Requests,
           RevokeAdministrator(r) \/ Suspend(r) \/ DeleteAccount(r)
    PROVE  /\ Loses(r) /\ ~ Last(r) /\ job[r].who \in Accounts
           /\ job' = [job EXCEPT ![r] = Idle]
           /\ \A b \in Accounts \ {job[r].who} : account'[b] = account[b]
           /\ admins' \subseteq admins /\ admins \ {job[r].who} \subseteq admins'
           /\ workspace' = workspace /\ remembered' = remembered
BY JobShape DEF TypeOK, RevokeAdministrator, Suspend, DeleteAccount, Loses, Losing, Becomes

\* Some other administrator who can sign in is left behind.
LEMMA OthersAreLeft ==
    ASSUME TypeOK, LossesInv, KeepsAnAdministrator, workspace \/ admins # {},
           NEW r \in Requests, RevokeAdministrator(r) \/ Suspend(r) \/ DeleteAccount(r)
    PROVE  \E b \in admins' : b # job[r].who /\ account'[b] = "active"
<1>1. PICK a \in admins : account[a] = "active"
  BY DEF KeepsAnAdministrator
<1>2. \E b \in admins : b # job[r].who /\ account[b] = "active"
  <2>1. CASE a # job[r].who
    BY <1>1, <2>1
  <2>2. CASE a = job[r].who
    <3>1. Loses(r) /\ job[r].others
      BY <1>1, <2>2, LossEffect DEF Last
    <3> QED
      BY <1>1, <2>2, <3>1 DEF LossesInv, CountsRight, OtherAdmins
  <2> QED
    BY <2>1, <2>2
<1> QED
  BY <1>2, LossEffect DEF TypeOK

\* Requests that are about to take administrators away do not undo what the
\* others counted on: the administrator set has a lock of its own.
LEMMA LossesKept ==
    ASSUME TypeOK, SetupInv, LossesInv, [Next]_vars
    PROVE  LossesInv'
<1>1. ASSUME NEW r \in Requests, NEW how \in Losing, NEW a \in Accounts, StartLosing(r, how, a)
      PROVE  LossesInv'
  <2>1. /\ UNCHANGED <<account, admins>> /\ account[a] # "none"
        /\ \A q \in Requests : Loses(q) => job[q].who # a
        /\ a \in admins => \A q \in Requests : ~ Loses(q)
        /\ \A q \in Requests \ {r} : job'[q] = job[q]
        /\ job'[r].who = a
    BY <1>1 DEF StartLosing, RowFree, SetFree, Loses, Becomes, TypeOK
  <2>2. CountsRight(r)'
    <3>1. CASE a \in admins
      <4>1. job'[r].others = OtherAdmins(a)
        <5> HIDE DEF OtherAdmins
        <5> QED
          BY <1>1, <3>1 DEF StartLosing, Becomes, TypeOK
      <4>2. OtherAdmins(a)' = OtherAdmins(a)
        BY <2>1 DEF OtherAdmins
      <4> QED
        BY <2>1, <4>1, <4>2 DEF CountsRight
    <3>2. CASE a \notin admins
      BY <2>1, <3>2 DEF CountsRight
    <3> QED
      BY <3>1, <3>2
  <2>3. ASSUME NEW q \in Requests, Loses(q)'
        PROVE  account'[job'[q].who] # "none" /\ CountsRight(q)'
    <3>1. CASE q = r
      BY <2>1, <2>2, <3>1
    <3>2. CASE q # r
      <4>1. Loses(q) /\ job'[q] = job[q] /\ CountsRight(q) /\ account[job[q].who] # "none"
        BY <2>1, <2>3, <3>2 DEF LossesInv, Loses
      <4>2. CountsRight(q)'
        BY <2>1, <4>1 DEF CountsRight, OtherAdmins
      <4> QED
        BY <2>1, <4>1, <4>2
    <3> QED
      BY <3>1, <3>2
  <2>4. ASSUME NEW q \in Requests, NEW o \in Requests, Loses(q)', Loses(o)', q # o
        PROVE  /\ job'[q].who # job'[o].who
               /\ ~ (job'[q].who \in admins' /\ job'[o].who \in admins')
    BY <2>1, <2>4 DEF LossesInv, Loses
  <2> QED
    BY <2>3, <2>4 DEF LossesInv
<1>2. ASSUME NEW r \in Requests, RevokeAdministrator(r) \/ Suspend(r) \/ DeleteAccount(r)
      PROVE  LossesInv'
  <2>1. \A q \in Requests : Loses(q)' => q # r /\ job'[q] = job[q] /\ Loses(q)
    BY <1>2, LossEffect DEF TypeOK, Loses, Idle, Losing
  <2>2. ASSUME NEW q \in Requests, Loses(q)'
        PROVE  account'[job'[q].who] # "none" /\ CountsRight(q)'
    <3>1. /\ job[q].who \in Accounts /\ job[q].who # job[r].who /\ job'[q] = job[q]
          /\ ~ (job[q].who \in admins /\ job[r].who \in admins)
          /\ CountsRight(q) /\ account[job[q].who] # "none"
      BY <1>2, <2>1, <2>2, LossEffect, JobShape DEF LossesInv, Loses
    <3>2. account'[job'[q].who] # "none"
      BY <1>2, <3>1, LossEffect
    <3>3. CASE job[q].who \notin admins'
      BY <3>1, <3>2, <3>3 DEF CountsRight
    <3>4. CASE job[q].who \in admins'
      <4>1. job[q].who \in admins /\ job[r].who \notin admins
        BY <1>2, <3>1, <3>4, LossEffect
      <4>2. OtherAdmins(job[q].who) => OtherAdmins(job[q].who)'
        BY <1>2, <3>1, <4>1, LossEffect DEF OtherAdmins, TypeOK
      <4> QED
        BY <3>1, <3>2, <4>1, <4>2 DEF CountsRight
    <3> QED
      BY <3>2, <3>3, <3>4
  <2> QED
    BY <1>2, <2>1, <2>2, LossEffect DEF LossesInv
<1>3. ASSUME \A r \in Requests : Loses(r)' => job'[r] = job[r],
             admins \subseteq admins',
             \A b \in Accounts : /\ account[b] = "active" => account'[b] = "active"
                                 /\ account[b] # "none" => account'[b] # "none",
             admins' = admins \/ \A r \in Requests : ~ Loses(r)
      PROVE  LossesInv'
  <2>1. \A r \in Requests : Loses(r)' => /\ Loses(r) /\ job'[r] = job[r] /\ admins' = admins
                                         /\ job[r].who \in Accounts
    BY <1>3, JobShape DEF Loses
  <2>2. \A a \in Accounts : admins' = admins /\ OtherAdmins(a) => OtherAdmins(a)'
    BY <1>3 DEF OtherAdmins, TypeOK
  <2>3. ASSUME NEW r \in Requests, Loses(r)'
        PROVE  account'[job'[r].who] # "none" /\ CountsRight(r)'
    <3>1. CountsRight(r) /\ account[job[r].who] # "none"
      BY <2>1, <2>3 DEF LossesInv
    <3>2. OtherAdmins(job[r].who) => OtherAdmins(job[r].who)'
      BY <2>1, <2>2, <2>3
    <3> QED
      BY <1>3, <2>1, <2>3, <3>1, <3>2 DEF CountsRight
  <2> QED
    BY <1>3, <2>1, <2>3 DEF LossesInv
<1>4. CASE UNCHANGED vars
  BY <1>4 DEF vars, LossesInv, Loses, CountsRight, OtherAdmins
<1> QED
  BY <1>1, <1>2, <1>3, <1>4, LossSteps

\* Once there is a workspace or an administrator, somebody who can sign in administers.
LEMMA SomebodyIsLeft ==
    ASSUME TypeOK, SetupInv, LossesInv, KeepsAnAdministrator, Next, workspace \/ admins # {}
    PROVE  \E a \in admins' : a \in Accounts /\ account'[a] = "active"
<1>1. PICK a \in admins : a \in Accounts /\ account[a] = "active"
  BY DEF KeepsAnAdministrator, TypeOK
<1>2. ASSUME NEW r \in Requests, RevokeAdministrator(r) \/ Suspend(r) \/ DeleteAccount(r)
      PROVE  \E b \in admins' : b \in Accounts /\ account'[b] = "active"
  BY <1>2, LossEffect, OthersAreLeft DEF TypeOK
<1> QED
  BY <1>1, <1>2, LossSteps DEF StartLosing

\* An administrator who can sign in remains.
LEMMA AdministratorKept ==
    ASSUME TypeOK, SetupInv, LossesInv, KeepsAnAdministrator, [Next]_vars
    PROVE  KeepsAnAdministrator'
<1>1. ASSUME NEW r \in Requests, RevokeAdministrator(r) \/ Suspend(r) \/ DeleteAccount(r)
      PROVE  KeepsAnAdministrator'
  BY <1>1, LossEffect, OthersAreLeft DEF KeepsAnAdministrator
<1>2. CASE UNCHANGED vars \/ \E r \in Requests, how \in Losing, a \in Accounts : StartLosing(r, how, a)
  BY <1>2 DEF vars, KeepsAnAdministrator, StartLosing
<1> QED
  BY <1>1, <1>2, LossSteps DEF KeepsAnAdministrator, TypeOK

-----------------------------------------------------------------------------
(* Setup ends once                                                          *)

\* The default login is the last administrator while it exists: it is not revoked,
\* suspended or deleted, and no other account is there to be.
LEMMA NobodyToLose ==
    ASSUME TypeOK, SetupInv, LossesInv, SetupEndsOnce, default # Nobody, NEW r \in Requests
    PROVE  ~ (RevokeAdministrator(r) \/ Suspend(r) \/ DeleteAccount(r))
<1> SUFFICES ASSUME RevokeAdministrator(r) \/ Suspend(r) \/ DeleteAccount(r)
             PROVE  FALSE
  OBVIOUS
<1>1. Loses(r) /\ ~ Last(r) /\ job[r].who = default
  BY LossEffect DEF LossesInv, SetupEndsOnce
<1>2. OtherAdmins(default)
  BY <1>1 DEF SetupInv, Last, LossesInv, CountsRight
<1> QED
  BY <1>2 DEF OtherAdmins, SetupEndsOnce, TypeOK

\* The web process remembers that setup is complete only once it is.
LEMMA RemembersComplete ==
    ASSUME Next, remembered'
    PROVE  remembered \/ (SetupState = "complete" /\ UNCHANGED <<account, default>>)
<1>1. CASE Setup
  BY <1>1 DEF Setup, CreateDefaultLogin, FinishSetup, Remember, WebRestarts
<1>2. CASE People
  BY <1>2 DEF People, SignUp, MarkEmailVerified, Reactivate, OperatorGrants
<1>3. CASE SigningIn
  BY <1>3 DEF SigningIn, CheckPassword, CreateSession, SignOut
<1>4. CASE OwnPassword
  BY <1>4 DEF OwnPassword, CheckCurrent, ChangeOwnPassword
<1>5. CASE Links
  BY <1>5 DEF Links, OperatorIssues, AskIssue, AdministratorIssues, DescribeLink,
              AdministratorCancels, RedeemLink, Expire
<1>6. CASE Losses
  BY <1>6 DEF Losses, StartLosing, RefuseLast, RevokeAdministrator, Suspend, DeleteAccount, Abandon
<1> QED
  BY <1>1, <1>2, <1>3, <1>4, <1>5, <1>6 DEF Next

\* While there is a default login, its end of setup is all that changes it.
LEMMA DefaultSteps ==
    ASSUME TypeOK, SetupInv, LossesInv, SetupEndsOnce, default # Nobody, Next
    PROVE  \/ \E s \in Sessions, p \in Passwords : FinishSetup(s, p)
           \/ /\ UNCHANGED <<account, password, admins, default, workspace>>
              /\ \A t \in Tokens : link'[t].state # "open"
<1>1. /\ default \in Accounts /\ default \in admins /\ account[default] = "active"
      /\ \A a \in Accounts : account[a] # "none" => a = default
      /\ ~ workspace
      /\ \A t \in Tokens : link[t].state # "open"
  BY DEF TypeOK, SetupInv, SetupEndsOnce
<1>2. ASSUME NEW a \in Accounts
      PROVE  ~ (\/ CreateDefaultLogin(a) \/ (\E p \in Passwords : SignUp(a, p))
                \/ MarkEmailVerified(a) \/ Reactivate(a) \/ OperatorGrants(a))
  BY <1>1 DEF CreateDefaultLogin, SignUp, MarkEmailVerified, Reactivate, OperatorGrants
<1>3. ASSUME NEW r \in Requests, NEW p \in Passwords
      PROVE  ~ (ChangeOwnPassword(r, p) \/ RedeemLink(r, p))
  BY <1>1, JobShape DEF ChangeOwnPassword, RedeemLink
<1>4. ASSUME NEW t \in Tokens, NEW a \in Accounts
      PROVE  ~ OperatorIssues(t, a)
  BY <1>1 DEF OperatorIssues
<1>5. ASSUME NEW r \in Requests, NEW t \in Tokens
      PROVE  ~ AdministratorIssues(r, t)
  BY <1>1, JobShape DEF AdministratorIssues
<1>6. ASSUME NEW by \in Accounts, NEW a \in Accounts, AdministratorCancels(by, a)
      PROVE  \A t \in Tokens : link'[t].state # "open"
  BY <1>1, <1>6 DEF AdministratorCancels, CloseLinks
<1>7. ASSUME NEW t \in Tokens
      PROVE  ~ Expire(t)
  BY <1>1 DEF Expire
<1>8. ASSUME link' = link
      PROVE  \A t \in Tokens : link'[t].state # "open"
  BY <1>1, <1>8
<1> QED
  BY StepKinds, NobodyToLose, <1>2, <1>3, <1>4, <1>5, <1>6, <1>7, <1>8 DEF AdministratorCancels

\* A default login comes once, before there is any account.
LEMMA DefaultComes ==
    ASSUME TypeOK, Next, default = Nobody, default' # Nobody
    PROVE  \E a \in Accounts : CreateDefaultLogin(a)
BY StepKinds, JobShape, CredentialsAssumption
   DEF SignUp, MarkEmailVerified, Reactivate, OperatorGrants, FinishSetup, ChangeOwnPassword,
       RedeemLink, OperatorIssues, AdministratorIssues, AdministratorCancels, Expire,
       RevokeAdministrator, Suspend, DeleteAccount, TypeOK

\* The first account comes with a workspace or as an administrator.
LEMMA AccountsComeLate ==
    ASSUME TypeOK, LossesInv, Next, \A a \in Accounts : account[a] = "none",
           \E a \in Accounts : account'[a] # "none"
    PROVE  workspace' \/ admins' # {}
<1>1. ASSUME NEW a \in Accounts, CreateDefaultLogin(a)
      PROVE  workspace' \/ admins' # {}
  BY <1>1 DEF CreateDefaultLogin
<1>2. ASSUME NEW a \in Accounts, NEW p \in Passwords, SignUp(a, p)
      PROVE  workspace'
  BY <1>2 DEF SignUp
<1>3. ASSUME NEW s \in Sessions, NEW p \in Passwords, FinishSetup(s, p)
      PROVE  workspace'
  BY <1>3 DEF FinishSetup
<1>4. ASSUME NEW a \in Accounts
      PROVE  ~ (MarkEmailVerified(a) \/ Reactivate(a) \/ OperatorGrants(a))
  BY DEF MarkEmailVerified, Reactivate, OperatorGrants
<1>5. ASSUME NEW r \in Requests
      PROVE  ~ (RevokeAdministrator(r) \/ Suspend(r) \/ DeleteAccount(r))
  BY LossEffect DEF LossesInv
<1> QED
  BY StepKinds, <1>1, <1>2, <1>3, <1>4, <1>5
     DEF ChangeOwnPassword, RedeemLink, OperatorIssues, AdministratorIssues,
         AdministratorCancels, Expire

\* The default login stays what it was made as until setup is finished.
LEMMA SetupKept ==
    ASSUME TypeOK, SetupInv, LossesInv, LinksInv, KeepsAnAdministrator, SetupEndsOnce, [Next]_vars
    PROVE  SetupInv' /\ SetupEndsOnce'
<1>1. CASE UNCHANGED vars
  BY <1>1 DEF vars, SetupInv, SetupEndsOnce, SetupState
<1>2. CASE Next /\ default # Nobody
  <2>1. ~ remembered
    BY <1>2 DEF SetupEndsOnce, SetupState
  <2>2. ~ remembered'
    BY <1>2, <2>1, RemembersComplete DEF SetupState
  <2>3. ASSUME NEW s \in Sessions, NEW p \in Passwords, FinishSetup(s, p)
        PROVE  default' = Nobody /\ workspace'
    BY <2>3 DEF FinishSetup
  <2>4. CASE /\ UNCHANGED <<account, password, admins, default, workspace>>
             /\ \A t \in Tokens : link'[t].state # "open"
    BY <1>2, <2>2, <2>4 DEF SetupInv, SetupEndsOnce
  <2> QED
    BY <1>2, <2>2, <2>3, <2>4, DefaultSteps DEF SetupInv, SetupEndsOnce
<1>3. CASE Next /\ default = Nobody
  <2>1. ASSUME NEW a \in Accounts, CreateDefaultLogin(a)
        PROVE  SetupInv' /\ SetupEndsOnce'
    <3>1. /\ default' = a /\ a \in admins' /\ account'[a] = "active"
          /\ password'[a] = Published
          /\ \A b \in Accounts \ {a} : account'[b] = "none"
          /\ workspace = FALSE /\ UNCHANGED <<workspace, link, remembered>>
      BY <2>1 DEF CreateDefaultLogin, TypeOK
    <3>2. ~ remembered
      BY <2>1 DEF CreateDefaultLogin, SetupEndsOnce, SetupState
    <3>3. \A t \in Tokens : link[t].state # "open"
      BY <2>1 DEF CreateDefaultLogin, LinksInv, TypeOK, Link
    <3> QED
      BY <3>1, <3>2, <3>3 DEF SetupInv, SetupEndsOnce
  <2>2. CASE default' = Nobody
    <3>1. ASSUME NEW a \in Accounts, account'[a] # "none"
          PROVE  workspace' \/ admins' # {}
      <4>1. CASE \A b \in Accounts : account[b] = "none"
        BY <1>3, <3>1, <4>1, AccountsComeLate
      <4>2. CASE workspace \/ admins # {}
        BY <1>3, <4>2, SomebodyIsLeft
      <4> QED
        BY <4>1, <4>2 DEF SetupInv
    <3>2. ASSUME remembered'
          PROVE  \E a \in Accounts : account'[a] # "none"
      <4>1. PICK a \in Accounts : account[a] # "none"
        BY <1>3, <3>2, RemembersComplete DEF SetupEndsOnce, SetupState
      <4>2. workspace \/ admins # {}
        BY <4>1 DEF SetupInv
      <4> QED
        BY <1>3, <4>2, SomebodyIsLeft
    <3> QED
      BY <2>2, <3>1, <3>2 DEF SetupInv, SetupEndsOnce, SetupState
  <2> QED
    BY <1>3, <2>1, <2>2, DefaultComes
<1> QED
  BY <1>1, <1>2, <1>3

-----------------------------------------------------------------------------
(* Links are current                                                        *)

\* A link is made for an account that can sign in, by an administrator for none
\* of the administrators, and replaces every other link of that account.
LEMMA NewLinks ==
    ASSUME TypeOK, Next, NEW t \in Tokens, link[t] = NoLink, link'[t] # NoLink
    PROVE  \E a \in Accounts, via \in {"operator", "administrator"} :
              /\ NewLink(t, a, via)
              /\ account[a] = "active"
              /\ via = "administrator" => a \notin admins
              /\ UNCHANGED <<account, password>>
<1>1. ASSUME NEW r \in Requests, NEW u \in Tokens, AdministratorIssues(r, u)
      PROVE  \E a \in Accounts :
                /\ NewLink(u, a, "administrator") /\ account[a] = "active"
                /\ a \notin admins /\ UNCHANGED <<account, password>>
  BY <1>1, JobShape DEF AdministratorIssues
<1>2. ASSUME NEW a, link' = CloseLinks(a)
      PROVE  FALSE
  <2>1. CloseLinks(a)[t] = link[t]
    BY DEF CloseLinks, NoLink
  <2> QED
    BY <1>2, <2>1
<1>3. ASSUME NEW u \in Tokens, u # t, NEW a, NEW via, NewLink(u, a, via)
      PROVE  FALSE
  <2>1. link'[t] = link[t]
    BY <1>3 DEF NewLink, CloseLinks, NoLink, TypeOK
  <2> QED
    BY <2>1
<1>4. ASSUME NEW r \in Requests, NEW p \in Passwords, RedeemLink(r, p)
      PROVE  FALSE
  <2>1. job[r].token # t
    BY <1>4 DEF RedeemLink, NoLink
  <2>2. link'[t] = link[t]
    BY <1>4, <2>1 DEF RedeemLink, TypeOK
  <2> QED
    BY <2>2
<1>5. ASSUME NEW u \in Tokens, Expire(u)
      PROVE  FALSE
  <2>1. u # t
    BY <1>5 DEF Expire, NoLink
  <2>2. link'[t] = link[t]
    BY <1>5, <2>1 DEF Expire, TypeOK
  <2> QED
    BY <2>2
<1>6. link' # link
  OBVIOUS
<1>7. \/ \E u \in Tokens, a \in Accounts : OperatorIssues(u, a)
      \/ \E r \in Requests, u \in Tokens : AdministratorIssues(r, u)
  BY StepKinds, <1>2, <1>4, <1>5, <1>6
     DEF CreateDefaultLogin, SignUp, MarkEmailVerified, Reactivate, OperatorGrants, FinishSetup,
         ChangeOwnPassword, AdministratorCancels, RevokeAdministrator, Suspend, DeleteAccount
<1> QED
  BY <1>1, <1>3, <1>7 DEF OperatorIssues

\* An account that goes takes its links along.
LEMMA LinksGoAlong ==
    ASSUME TypeOK, Next, NEW a \in Accounts, account[a] # "none", account'[a] = "none",
           NEW t \in Tokens
    PROVE  ~ (link'[t].state = "open" /\ link'[t].of = a)
<1>1. PICK r \in Requests : DeleteAccount(r) /\ job[r].who = a
  <2>1. ASSUME NEW b \in Accounts, CreateDefaultLogin(b) \/ (\E p \in Passwords : SignUp(b, p))
                                   \/ MarkEmailVerified(b) \/ Reactivate(b)
        PROVE  FALSE
    BY <2>1 DEF CreateDefaultLogin, SignUp, MarkEmailVerified, Reactivate, TypeOK
  <2>2. ASSUME NEW r \in Requests, Suspend(r)
        PROVE  FALSE
    BY <2>2 DEF Suspend, TypeOK
  <2>3. ASSUME NEW r \in Requests, DeleteAccount(r)
        PROVE  job[r].who = a
    BY <2>3, LossEffect
  <2> QED
    BY StepKinds, <2>1, <2>2, <2>3
       DEF OperatorGrants, FinishSetup, ChangeOwnPassword, RedeemLink, OperatorIssues,
           AdministratorIssues, AdministratorCancels, Expire, RevokeAdministrator
<1> QED
  BY <1>1 DEF DeleteAccount, CloseLinks

\* A form that is about to redeem a link is about that link's account, and links
\* that work belong to accounts that are there.
LEMMA LinksKept ==
    ASSUME TypeOK, LinksInv, [Next]_vars
    PROVE  LinksInv'
<1>1. CASE UNCHANGED vars
  BY <1>1 DEF vars, LinksInv
<1>2. CASE Next
  <2>1. ASSUME NEW t \in Tokens, link'[t].state = "open"
        PROVE  account'[link'[t].of] # "none"
    <3>1. CASE link[t] = NoLink
      <4>1. link'[t] # NoLink
        BY <2>1 DEF NoLink
      <4>2. PICK a \in Accounts, via \in {"operator", "administrator"} :
               NewLink(t, a, via) /\ account'[a] = "active"
        BY <1>2, <3>1, <4>1, NewLinks
      <4>3. link'[t].of = a
        BY <4>2 DEF NewLink, CloseLinks
      <4> QED
        BY <4>2, <4>3
    <3>2. CASE link[t] # NoLink
      <4>1. link'[t] = link[t] /\ link[t].of \in Accounts /\ account[link[t].of] # "none"
        BY <1>2, <2>1, <3>2, LinkSteps DEF LinksInv, TypeOK, Link
      <4> QED
        BY <1>2, <2>1, <4>1, LinksGoAlong
    <3> QED
      BY <3>1, <3>2
  <2>2. ASSUME NEW r \in Requests, job'[r].op = "redeem"
        PROVE  /\ link'[job'[r].token] # NoLink
               /\ link'[job'[r].token].state = "open" => link'[job'[r].token].of = job'[r].who
    <3>1. CASE job'[r] = job[r]
      <4>1. /\ job[r].token \in Tokens /\ link[job[r].token] # NoLink
            /\ link[job[r].token].state = "open" => link[job[r].token].of = job[r].who
        BY <2>2, <3>1, JobShape DEF LinksInv
      <4>2. /\ link'[job[r].token] # NoLink
            /\ link'[job[r].token].state = "open" => link'[job[r].token] = link[job[r].token]
        BY <1>2, <4>1, LinkSteps
      <4> QED
        BY <3>1, <4>1, <4>2
    <3>2. ASSUME NEW t \in Tokens, DescribeLink(r, t)
          PROVE  job'[r].token = t /\ job'[r].who = link[t].of /\ link' = link /\ link[t] # NoLink
      BY <3>2 DEF DescribeLink, Becomes, TypeOK, NoLink
    <3>3. ~ \E how \in Losing, a \in Accounts : StartLosing(r, how, a)
      BY <2>2 DEF StartLosing, Becomes, Losing, TypeOK
    <3> QED
      BY <1>2, <2>2, <3>1, <3>2, <3>3, JobSteps
  <2> QED
    BY <2>1, <2>2 DEF LinksInv
<1> QED
  BY <1>1, <1>2

\* Whatever sets an account's password closes its links.
LEMMA PasswordSteps ==
    ASSUME TypeOK, LinksInv, LinksAreCurrent, Next,
           NEW a \in Accounts, password'[a] # password[a], NEW t \in Tokens
    PROVE  ~ (link'[t].state = "open" /\ link'[t].of = a)
<1>1. ASSUME NEW b \in Accounts, CreateDefaultLogin(b) \/ \E p \in Passwords : SignUp(b, p)
      PROVE  a = b /\ account[a] = "none" /\ link' = link
  BY <1>1 DEF CreateDefaultLogin, SignUp, TypeOK
<1>2. ASSUME account[a] = "none", link' = link
      PROVE  ~ (link'[t].state = "open" /\ link'[t].of = a)
  BY <1>2 DEF LinksInv
<1>3. ASSUME NEW s \in Sessions, NEW p \in Passwords, FinishSetup(s, p)
      PROVE  link' = CloseLinks(a)
  BY <1>3 DEF FinishSetup, TypeOK
<1>4. ASSUME NEW r \in Requests, NEW p \in Passwords, ChangeOwnPassword(r, p)
      PROVE  link' = CloseLinks(a)
  BY <1>4 DEF ChangeOwnPassword, TypeOK
<1>5. ASSUME NEW r \in Requests, DeleteAccount(r)
      PROVE  link' = CloseLinks(a)
  BY <1>5 DEF DeleteAccount, TypeOK
<1>6. ASSUME link' = CloseLinks(a)
      PROVE  ~ (link'[t].state = "open" /\ link'[t].of = a)
  BY <1>6 DEF CloseLinks
<1>7. ASSUME NEW r \in Requests, NEW p \in Passwords, RedeemLink(r, p)
      PROVE  ~ (link'[t].state = "open" /\ link'[t].of = a)
  <2>1. /\ job[r].who = a /\ job[r].token \in Tokens /\ link[job[r].token].state = "open"
        /\ link' = [link EXCEPT ![job[r].token] = [state |-> "used"]]
    BY <1>7, JobShape DEF RedeemLink, TypeOK
  <2>2. link[job[r].token].of = a
    BY <1>7, <2>1 DEF RedeemLink, LinksInv
  <2>3. CASE t = job[r].token
    BY <2>1, <2>3 DEF TypeOK
  <2>4. CASE t # job[r].token
    <3>1. link'[t] = link[t]
      BY <2>1, <2>4 DEF TypeOK
    <3> QED
      BY <2>1, <2>2, <2>4, <3>1 DEF LinksAreCurrent
  <2> QED
    BY <2>3, <2>4
<1> QED
  BY StepKinds, <1>1, <1>2, <1>3, <1>4, <1>5, <1>6, <1>7
     DEF MarkEmailVerified, Reactivate, OperatorGrants, OperatorIssues, AdministratorIssues,
         AdministratorCancels, Expire, RevokeAdministrator, Suspend

\* A link that works stays the only one of its account, and made for its password.
LEMMA CurrencyKept ==
    ASSUME TypeOK, LinksInv, LinksAreCurrent, [Next]_vars
    PROVE  LinksAreCurrent'
<1>1. CASE UNCHANGED vars
  BY <1>1 DEF vars, LinksAreCurrent
<1>2. CASE Next
  <2>1. ASSUME NEW t \in Tokens, link'[t].state = "open", link[t] = NoLink
        PROVE  /\ link'[t].replaces = password'[link'[t].of]
               /\ \A u \in Tokens \ {t} : link'[u].state = "open" => link'[u].of # link'[t].of
    <3>1. link'[t] # NoLink
      BY <2>1 DEF NoLink
    <3>2. PICK a \in Accounts, via \in {"operator", "administrator"} :
             NewLink(t, a, via) /\ password' = password
      BY <1>2, <2>1, <3>1, NewLinks
    <3>3. link'[t].of = a /\ link'[t].replaces = password[a]
      BY <3>2 DEF NewLink, CloseLinks
    <3>4. \A u \in Tokens \ {t} : link'[u] = CloseLinks(a)[u]
      BY <3>2 DEF NewLink, CloseLinks
    <3>5. \A u \in Tokens \ {t} : link'[u].state = "open" => link'[u].of # a
      BY <3>4 DEF CloseLinks
    <3> QED
      BY <3>2, <3>3, <3>5
  <2>2. ASSUME NEW t \in Tokens, link'[t].state = "open", link[t] # NoLink
        PROVE  link'[t] = link[t] /\ link'[t].replaces = password'[link'[t].of]
    <3>1. link'[t] = link[t] /\ link[t].of \in Accounts
      BY <1>2, <2>2, LinkSteps DEF TypeOK, Link
    <3> QED
      BY <1>2, <2>2, <3>1, PasswordSteps DEF LinksAreCurrent
  <2>3. ASSUME NEW t \in Tokens, NEW u \in Tokens, t # u,
               link'[t].state = "open", link'[u].state = "open"
        PROVE  link'[t].of # link'[u].of
    <3>1. CASE link[t] = NoLink \/ link[u] = NoLink
      BY <2>1, <2>3, <3>1
    <3>2. CASE link[t] # NoLink /\ link[u] # NoLink
      BY <2>2, <2>3, <3>2 DEF LinksAreCurrent
    <3> QED
      BY <3>1, <3>2
  <2> QED
    BY <2>1, <2>2, <2>3 DEF LinksAreCurrent
<1> QED
  BY <1>1, <1>2

-----------------------------------------------------------------------------
(* Nobody takes over                                                        *)

\* Links are made, and passwords are set, as the database allows at that moment.
LEMMA TakeoverSteps ==
    ASSUME TypeOK, LinksInv, Next
    PROVE  LinksSpareAdministrators /\ PasswordChangesAreProved
<1>1. LinksSpareAdministrators
  <2>1. ASSUME NEW t \in Tokens, link[t] = NoLink, link'[t] # NoLink,
               link'[t].via = "administrator"
        PROVE  link'[t].of \notin admins
    <3>1. PICK a \in Accounts, via \in {"operator", "administrator"} :
             NewLink(t, a, via) /\ (via = "administrator" => a \notin admins)
      BY <2>1, NewLinks
    <3>2. link'[t].of = a /\ link'[t].via = via
      BY <3>1 DEF NewLink, CloseLinks
    <3> QED
      BY <2>1, <3>1, <3>2
  <2> QED
    BY <2>1 DEF LinksSpareAdministrators
<1>2. ASSUME NEW a \in Accounts, password'[a] # password[a]
      PROVE  \/ account[a] = "none" \/ account'[a] = "none"
             \/ default = a /\ default' = Nobody
             \/ \E t \in Tokens : link[t].state = "open" /\ link'[t].state = "used" /\ link[t].of = a
             \/ \E r \in Requests : job[r].op = "change" /\ job[r].who = a
                                    /\ job[r].with = password[a]
  <2>1. ASSUME NEW b \in Accounts, CreateDefaultLogin(b) \/ \E p \in Passwords : SignUp(b, p)
        PROVE  account[a] = "none"
    BY <1>2, <2>1 DEF CreateDefaultLogin, SignUp, TypeOK
  <2>2. ASSUME NEW s \in Sessions, NEW p \in Passwords, FinishSetup(s, p)
        PROVE  default = a /\ default' = Nobody
    BY <1>2, <2>2 DEF FinishSetup, TypeOK
  <2>3. ASSUME NEW r \in Requests, NEW p \in Passwords, ChangeOwnPassword(r, p)
        PROVE  job[r].op = "change" /\ job[r].who = a /\ job[r].with = password[a]
    BY <1>2, <2>3 DEF ChangeOwnPassword, TypeOK
  <2>4. ASSUME NEW r \in Requests, NEW p \in Passwords, RedeemLink(r, p)
        PROVE  \E t \in Tokens : link[t].state = "open" /\ link'[t].state = "used" /\ link[t].of = a
    <3>1. /\ job[r].who = a /\ job[r].token \in Tokens /\ link[job[r].token].state = "open"
          /\ link' = [link EXCEPT ![job[r].token] = [state |-> "used"]]
      BY <1>2, <2>4, JobShape DEF RedeemLink, TypeOK
    <3>2. link[job[r].token].of = a
      BY <2>4, <3>1 DEF RedeemLink, LinksInv
    <3> QED
      BY <3>1, <3>2 DEF TypeOK
  <2>5. ASSUME NEW r \in Requests, DeleteAccount(r)
        PROVE  account'[a] = "none"
    BY <1>2, <2>5 DEF DeleteAccount, TypeOK
  <2> QED
    BY <1>2, StepKinds, <2>1, <2>2, <2>3, <2>4, <2>5
       DEF MarkEmailVerified, Reactivate, OperatorGrants, OperatorIssues, AdministratorIssues,
           AdministratorCancels, Expire, RevokeAdministrator, Suspend
<1> QED
  BY <1>1, <1>2 DEF PasswordChangesAreProved

-----------------------------------------------------------------------------
(* The theorems                                                             *)

CredentialsInv ==
    /\ TypeOK
    /\ SetupInv
    /\ LossesInv
    /\ LinksInv
    /\ KeepsAnAdministrator
    /\ SetupEndsOnce
    /\ LinksAreCurrent

\* What the four promises need, together, from the first step on.
THEOREM CredentialsKept == Spec => []CredentialsInv
<1>1. Init => CredentialsInv
  <2>1. Init => TypeOK
    BY InitTyped
  <2>2. Init => LossesInv /\ LinksInv
    BY DEF Init, LossesInv, LinksInv, Loses, Losing, Idle, NoLink
  <2>3. Init => SetupInv /\ KeepsAnAdministrator /\ SetupEndsOnce /\ LinksAreCurrent
    BY DEF Init, SetupInv, KeepsAnAdministrator, SetupEndsOnce, LinksAreCurrent, NoLink
  <2> QED
    BY <2>1, <2>2, <2>3 DEF CredentialsInv
<1>2. CredentialsInv /\ [Next]_vars => CredentialsInv'
  BY TypingKept, SetupKept, LossesKept, LinksKept, AdministratorKept, CurrencyKept
     DEF CredentialsInv
<1> QED
  BY <1>1, <1>2, PTL DEF Spec

\* Once setup is finished there is an installation administrator who can sign in,
\* however many requests take administrators away at once.
THEOREM SomebodyAlwaysAdministers == Spec => []KeepsAnAdministrator
<1>1. CredentialsInv => KeepsAnAdministrator
  BY DEF CredentialsInv
<1> QED
  BY <1>1, CredentialsKept, PTL

\* Setup never becomes unfinished again, and nothing is made with the default
\* login before it ends.
THEOREM SetupEndsForGood == Spec => []SetupEndsOnce
<1>1. CredentialsInv => SetupEndsOnce
  BY DEF CredentialsInv
<1> QED
  BY <1>1, CredentialsKept, PTL

\* A reset link that works was made for the password its account still has.
THEOREM LinksStayCurrent == Spec => []LinksAreCurrent
<1>1. CredentialsInv => LinksAreCurrent
  BY DEF CredentialsInv
<1> QED
  BY <1>1, CredentialsKept, PTL

\* No step makes an administrator's link for an administrator, or replaces a
\* password without the link or the password that allows it at that moment.
THEOREM NobodyEverTakesOver == Spec => NobodyTakesOver
<1>1. CredentialsInv /\ [Next]_vars => [LinksSpareAdministrators /\ PasswordChangesAreProved]_vars
  BY TakeoverSteps DEF CredentialsInv
<1> QED
  BY <1>1, CredentialsKept, PTL DEF Spec, NobodyTakesOver

-----------------------------------------------------------------------------
(* Rate limits: what is counted *)

\* A set of numbers that has zero and with each number the next has all of them.  The
\* library's induction is over an operator; this is its well-founded order of finite
\* sets, of which 0 .. k, with k a number that is not in the set, would have a least.
LEMMA EveryNumber ==
    ASSUME NEW T, 0 \in T, \A n \in Nat : n \in T => n + 1 \in T
    PROVE  \A n \in Nat : n \in T
<1> SUFFICES ASSUME NEW m \in Nat, m \notin T PROVE FALSE
  OBVIOUS
<1> DEFINE Below == {0 .. k : k \in Nat \ T}
<1>1. Below \subseteq FiniteSubsetsOf(Nat)
  <2>1. \A k \in Nat : IsFiniteSet(0 .. k)  BY FS_Interval
  <2>2. QED  BY <2>1 DEF FiniteSubsetsOf
<1>2. Below # {}
  OBVIOUS
<1>3. PICK least \in Below : \A other \in Below : <<other, least>> \notin StrictSubsetOrdering(Nat)
  <2>1. IsWellFoundedOn(StrictSubsetOrdering(Nat), FiniteSubsetsOf(Nat))
    BY FS_StrictSubsetOrderingWellFounded
  <2> HIDE DEF Below
  <2>2. QED  BY <1>1, <1>2, <2>1, WFMin
<1>4. PICK k \in Nat \ T : least = 0 .. k
  OBVIOUS
<1>5. k - 1 \in Nat \ T
  <2>1. k # 0
    OBVIOUS
  <2>2. k - 1 \in Nat /\ (k - 1) + 1 = k  BY <2>1
  <2>3. QED  BY <2>2
<1>6. <<0 .. (k - 1), 0 .. k>> \in StrictSubsetOrdering(Nat)
  <2>1. k \in 0 .. k /\ k \notin 0 .. (k - 1)  BY <1>5
  <2>2. 0 .. (k - 1) \in SUBSET Nat /\ 0 .. k \in SUBSET Nat /\ 0 .. (k - 1) \subseteq 0 .. k
    BY <1>5
  <2>3. QED  BY <2>1, <2>2 DEF StrictSubsetOrdering
<1>7. QED  BY <1>3, <1>4, <1>5, <1>6

\* A count up to a moment, as a function.
IsTotal(total, at, first, last) ==
    total = [t \in 0 .. last |-> IF t = 0 THEN 0
                                 ELSE IF t < first THEN total[t - 1] ELSE total[t - 1] + at[t]]

\* There is one up to any.
LEMMA TotalExists ==
    ASSUME NEW at, NEW first
    PROVE  \A n \in Nat : \E total : IsTotal(total, at, first, n)
<1> DEFINE T == {n \in Nat : \E total : IsTotal(total, at, first, n)}
           One(sum, t) == IF t < first THEN sum ELSE sum + at[t]
<1>1. 0 \in T
  <2>1. IsTotal([t \in 0 .. 0 |-> 0], at, first, 0)  BY DEF IsTotal
  <2>2. QED  BY <2>1
<1>2. ASSUME NEW n \in Nat, n \in T PROVE n + 1 \in T
  <2>1. PICK total : IsTotal(total, at, first, n)  BY <1>2
  <2> DEFINE longer == [t \in 0 .. n + 1 |-> IF t = n + 1 THEN One(total[n], n + 1) ELSE total[t]]
  <2>2. \A t \in 0 .. n : total[t] = IF t = 0 THEN 0 ELSE One(total[t - 1], t)
    BY <2>1 DEF IsTotal
  <2> HIDE DEF One
  <2>3. \A t \in 0 .. n : longer[t] = total[t]
    OBVIOUS
  <2>4. longer[n + 1] = One(total[n], n + 1)
    OBVIOUS
  <2>5. longer = [t \in 0 .. n + 1 |-> longer[t]]
    OBVIOUS
  <2> HIDE DEF longer
  <2>6. \A t \in 0 .. n + 1 : longer[t] = IF t = 0 THEN 0 ELSE One(longer[t - 1], t)
    <3> SUFFICES ASSUME NEW t \in 0 .. n + 1
                 PROVE  longer[t] = IF t = 0 THEN 0 ELSE One(longer[t - 1], t)
      OBVIOUS
    <3>1. CASE t = n + 1
      <4>1. t # 0 /\ t - 1 = n /\ n \in 0 .. n  BY <3>1
      <4>2. QED  BY <3>1, <4>1, <2>3, <2>4
    <3>2. CASE t # n + 1
      <4>1. t \in 0 .. n /\ (t # 0 => t - 1 \in 0 .. n)  BY <3>2
      <4>2. QED  BY <4>1, <2>2, <2>3
    <3>3. QED  BY <3>1, <3>2
  <2>7. IsTotal(longer, at, first, n + 1)
    BY <2>5, <2>6 DEF IsTotal, One
  <2>8. QED  BY <2>7
<1> HIDE DEF T
<1>3. \A n \in Nat : n \in T  BY <1>1, <1>2, EveryNumber
<1>4. QED  BY <1>3 DEF T

\* There is only one: two agree as far as both go.
LEMMA TotalsAgree ==
    ASSUME NEW at, NEW first, NEW one, NEW other, NEW n \in Nat, NEW m \in Nat,
           IsTotal(one, at, first, n), IsTotal(other, at, first, m)
    PROVE  \A t \in Nat : t <= n /\ t <= m => one[t] = other[t]
<1> DEFINE T == {t \in Nat : t <= n /\ t <= m => one[t] = other[t]}
           One(sum, t) == IF t < first THEN sum ELSE sum + at[t]
<1>1. \A t \in 0 .. n : one[t] = IF t = 0 THEN 0 ELSE One(one[t - 1], t)  BY DEF IsTotal
<1>2. \A t \in 0 .. m : other[t] = IF t = 0 THEN 0 ELSE One(other[t - 1], t)  BY DEF IsTotal
<1> HIDE DEF One
<1>3. 0 \in T
  <2>1. 0 \in 0 .. n /\ 0 \in 0 .. m
    OBVIOUS
  <2>2. QED  BY <1>1, <1>2, <2>1
<1>4. ASSUME NEW t \in Nat, t \in T PROVE t + 1 \in T
  <2> SUFFICES ASSUME t + 1 <= n, t + 1 <= m PROVE one[t + 1] = other[t + 1]
    OBVIOUS
  <2>1. t + 1 \in 0 .. n /\ t + 1 \in 0 .. m /\ t + 1 # 0 /\ (t + 1) - 1 = t
    OBVIOUS
  <2>2. one[t] = other[t]  BY <1>4
  <2>3. QED  BY <1>1, <1>2, <2>1, <2>2
<1> HIDE DEF T
<1>5. \A t \in Nat : t \in T  BY <1>3, <1>4, EveryNumber
<1>6. QED  BY <1>5 DEF T

\* So one more moment counts what was in it.
LEMMA OneMoreMoment ==
    ASSUME NEW at, NEW first, NEW n \in Nat
    PROVE  /\ Counted(at, first, 0) = 0
           /\ Counted(at, first, n + 1) = IF n + 1 < first THEN Counted(at, first, n)
                                          ELSE Counted(at, first, n) + at[n + 1]
<1>1. ASSUME NEW m \in Nat
      PROVE  \E total : IsTotal(total, at, first, m) /\ Counted(at, first, m) = total[m]
  <2> DEFINE total == CHOOSE f : IsTotal(f, at, first, m)
  <2>1. IsTotal(total, at, first, m)  BY TotalExists
  <2>2. Counted(at, first, m) = total[m]  BY DEF Counted, IsTotal
  <2>3. QED  BY <2>1, <2>2
<1>2. Counted(at, first, 0) = 0
  <2>1. PICK total : IsTotal(total, at, first, 0) /\ Counted(at, first, 0) = total[0]  BY <1>1
  <2>2. 0 \in 0 .. 0
    OBVIOUS
  <2>3. QED  BY <2>1, <2>2 DEF IsTotal
<1>3. PICK short : IsTotal(short, at, first, n) /\ Counted(at, first, n) = short[n]  BY <1>1
<1>4. PICK long : IsTotal(long, at, first, n + 1) /\ Counted(at, first, n + 1) = long[n + 1]
  <2>1. n + 1 \in Nat
    OBVIOUS
  <2>2. QED  BY <2>1, <1>1
<1>5. long[n] = short[n]
  <2>1. n + 1 \in Nat /\ n <= n /\ n <= n + 1
    OBVIOUS
  <2>2. QED  BY <2>1, <1>3, <1>4, TotalsAgree
<1>6. long[n + 1] = IF n + 1 < first THEN long[n] ELSE long[n] + at[n + 1]
  <2>1. n + 1 \in 0 .. n + 1 /\ n + 1 # 0 /\ (n + 1) - 1 = n
    OBVIOUS
  <2>2. QED  BY <2>1, <1>4 DEF IsTotal
<1>7. QED  BY <1>2, <1>3, <1>4, <1>5, <1>6

\* What is counted of what is a number is one.
LEMMA CountedType ==
    ASSUME NEW last \in Nat, NEW at \in [1 .. last -> Nat], NEW first \in Nat
    PROVE  \A n \in Nat : n <= last => Counted(at, first, n) \in Nat
<1> DEFINE T == {n \in Nat : n <= last => Counted(at, first, n) \in Nat}
<1>1. 0 \in T  BY OneMoreMoment
<1>2. ASSUME NEW n \in Nat, n \in T PROVE n + 1 \in T
  <2> SUFFICES ASSUME n + 1 <= last PROVE Counted(at, first, n + 1) \in Nat
    OBVIOUS
  <2>1. Counted(at, first, n) \in Nat  BY <1>2
  <2>2. at[n + 1] \in Nat
    OBVIOUS
  <2>3. Counted(at, first, n + 1) = IF n + 1 < first THEN Counted(at, first, n)
                                    ELSE Counted(at, first, n) + at[n + 1]
    BY OneMoreMoment
  <2>4. QED  BY <2>1, <2>2, <2>3
<1> HIDE DEF T
<1>3. \A n \in Nat : n \in T  BY <1>1, <1>2, EveryNumber
<1>4. QED  BY <1>3 DEF T

\* The moments before the first do not count.
LEMMA NoneBefore ==
    ASSUME NEW at, NEW first \in Nat
    PROVE  \A n \in Nat : n < first => Counted(at, first, n) = 0
<1> DEFINE T == {n \in Nat : n < first => Counted(at, first, n) = 0}
<1>1. 0 \in T  BY OneMoreMoment
<1>2. ASSUME NEW n \in Nat, n \in T PROVE n + 1 \in T
  BY <1>2, OneMoreMoment
<1> HIDE DEF T
<1>3. \A n \in Nat : n \in T  BY <1>1, <1>2, EveryNumber
<1>4. QED  BY <1>3 DEF T

\* Nor does it matter what is in those after the last.
LEMMA SameCounted ==
    ASSUME NEW at, NEW other, NEW first, NEW last \in Nat,
           \A t \in 1 .. last : other[t] = at[t]
    PROVE  Counted(other, first, last) = Counted(at, first, last)
<1> DEFINE T == {n \in Nat : n <= last => Counted(other, first, n) = Counted(at, first, n)}
<1>1. 0 \in T  BY OneMoreMoment
<1>2. ASSUME NEW n \in Nat, n \in T PROVE n + 1 \in T
  <2> SUFFICES ASSUME n + 1 <= last PROVE Counted(other, first, n + 1) = Counted(at, first, n + 1)
    OBVIOUS
  <2>1. Counted(other, first, n) = Counted(at, first, n)  BY <1>2
  <2>2. other[n + 1] = at[n + 1]
    OBVIOUS
  <2>3. QED  BY <2>1, <2>2, OneMoreMoment
<1> HIDE DEF T
<1>3. \A n \in Nat : n \in T  BY <1>1, <1>2, EveryNumber
<1>4. QED  BY <1>3 DEF T

\* With nothing in them, nothing is counted.
LEMMA NoneCounted ==
    ASSUME NEW at, NEW first, NEW last \in Nat, \A t \in 1 .. last : at[t] = 0
    PROVE  Counted(at, first, last) = 0
<1> DEFINE T == {n \in Nat : n <= last => Counted(at, first, n) = 0}
<1>1. 0 \in T  BY OneMoreMoment
<1>2. ASSUME NEW n \in Nat, n \in T PROVE n + 1 \in T
  <2> SUFFICES ASSUME n + 1 <= last PROVE Counted(at, first, n + 1) = 0
    OBVIOUS
  <2>1. Counted(at, first, n) = 0 /\ at[n + 1] = 0  BY <1>2
  <2>2. QED  BY <2>1, OneMoreMoment
<1> HIDE DEF T
<1>3. \A n \in Nat : n \in T  BY <1>1, <1>2, EveryNumber
<1>4. QED  BY <1>3 DEF T

-----------------------------------------------------------------------------
(* Rate limits: the requests *)

\* The requests about a key at one place, and how many there are.
Those(stage, key) == {c \in Callers : caller[c].at = stage /\ caller[c].key = key}
Number(stage, key) == Cardinality(Those(stage, key))

\* A number of all of them.
LEMMA NumberType ==
    ASSUME NEW stage, NEW key
    PROVE  /\ IsFiniteSet(Those(stage, key)) /\ Number(stage, key) \in Nat
           /\ Number(stage, key) <= Asking /\ Asking \in Nat
<1>1. IsFiniteSet(Callers)  BY LimitsAssumption
<1>2. Those(stage, key) \subseteq Callers  BY DEF Those
<1>3. QED  BY <1>1, <1>2, FS_Subset, FS_CardinalityType DEF Number, Asking

\* Requests at two places are different ones.
LEMMA TwoPlaces ==
    ASSUME NEW one, NEW other, one # other, NEW key
    PROVE  Number(one, key) + Number(other, key) <= Asking
<1>1. Those(one, key) \cup Those(other, key) \subseteq Callers
      /\ Those(one, key) \cap Those(other, key) = {}
  BY DEF Those
<1>2. IsFiniteSet(Callers) /\ IsFiniteSet(Those(one, key)) /\ IsFiniteSet(Those(other, key))
  BY NumberType, LimitsAssumption
<1>3. Cardinality(Those(one, key) \cup Those(other, key)) <= Asking
  BY <1>1, <1>2, FS_Subset DEF Asking
<1>4. Cardinality(Those(one, key) \cup Those(other, key))
      = Number(one, key) + Number(other, key) - Cardinality(Those(one, key) \cap Those(other, key))
  BY <1>2, FS_Union DEF Number
<1>5. Cardinality(Those(one, key) \cap Those(other, key)) = 0
  BY <1>1, FS_EmptySet
<1>6. Number(one, key) \in Nat /\ Number(other, key) \in Nat  BY NumberType
<1>7. QED  BY <1>3, <1>4, <1>5, <1>6

\* One request moves.
In(here, stage, key) == IF here.at = stage /\ here.key = key THEN 1 ELSE 0

\* Then the numbers move by what it leaves and where it arrives.
LEMMA OneMoves ==
    ASSUME caller = [c \in Callers |-> caller[c]], NEW c \in Callers, NEW now,
           caller' = [caller EXCEPT ![c] = now], NEW stage, NEW key
    PROVE  Number(stage, key)' + In(caller[c], stage, key) = Number(stage, key) + In(now, stage, key)
<1>1. caller'[c] = now /\ \A other \in Callers \ {c} : caller'[other] = caller[other]
  OBVIOUS
<1> DEFINE before == Those(stage, key)
           after == {other \in Callers : caller'[other].at = stage /\ caller'[other].key = key}
<1>2. Those(stage, key)' = after  BY DEF Those
<1>3. IsFiniteSet(before) /\ Cardinality(before) \in Nat  BY NumberType DEF Number
<1>4. CASE now.at = stage /\ now.key = key
  <2>1. after = before \cup {c}  BY <1>1, <1>4 DEF Those
  <2>2. In(now, stage, key) = 1  BY <1>4 DEF In
  <2>3. CASE c \in before
    <3>1. after = before /\ In(caller[c], stage, key) = 1  BY <2>1, <2>3 DEF Those, In
    <3>2. QED  BY <1>2, <1>3, <2>2, <3>1 DEF Number
  <2>4. CASE c \notin before
    <3>1. In(caller[c], stage, key) = 0  BY <2>4 DEF Those, In
    <3>2. Cardinality(after) = Cardinality(before) + 1
      BY <1>3, <2>1, <2>4, FS_AddElement
    <3>3. QED  BY <1>2, <1>3, <2>2, <3>1, <3>2 DEF Number
  <2>5. QED  BY <2>3, <2>4
<1>5. CASE ~(now.at = stage /\ now.key = key)
  <2>1. after = before \ {c}  BY <1>1, <1>5 DEF Those
  <2>2. In(now, stage, key) = 0  BY <1>5 DEF In
  <2>3. CASE c \in before
    <3>1. In(caller[c], stage, key) = 1  BY <2>3 DEF Those, In
    <3>2. Cardinality(after) = Cardinality(before) - 1
      BY <1>3, <2>1, <2>3, FS_RemoveElement
    <3>3. QED  BY <1>2, <1>3, <2>2, <3>1, <3>2 DEF Number
  <2>4. CASE c \notin before
    <3>1. after = before /\ In(caller[c], stage, key) = 0  BY <2>1, <2>4 DEF Those, In
    <3>2. QED  BY <1>2, <1>3, <2>2, <3>1 DEF Number
  <2>5. QED  BY <2>3, <2>4
<1>6. QED  BY <1>4, <1>5

-----------------------------------------------------------------------------
(* Rate limits: types *)

Counter == [count : Nat, expires : Nat]
Call == {Waiting}
        \cup [at : {"own", "password", "charge own", "charge all", "clear"}, key : Addresses]
        \cup [at : {"mutate"}, key : Busy]

\* A counter that counts began no later than now, and has not passed its limit.
Runs(counter, limit) ==
    \/ counter = NoCounter
    \/ /\ counter.count \in 1 .. limit
       /\ Window < counter.expires /\ counter.expires <= tick + Window

\* So does every counter of a table.
AllRun(counters, Keys, limit) ==
    counters \in [Keys -> Counter] /\ \A key \in Keys : Runs(counters[key], limit[key])

FailureLimits ==
    [key \in Addresses \cup {Installation} |->
        IF key = Installation THEN GlobalFailureLimit ELSE FailureLimit]
MutationLimits ==
    [key \in Busy \cup {Installation} |->
        IF key = Installation THEN GlobalLimit ELSE PersonalLimit]

LimitsTyped ==
    /\ tick \in 1 .. MaxTick
    /\ AllRun(failures, Addresses \cup {Installation}, FailureLimits)
    /\ AllRun(mutations, Busy \cup {Installation}, MutationLimits)
    /\ caller \in [Callers -> Call]
    /\ wrong \in [Addresses -> [1 .. MaxTick -> Nat]]
    /\ lost \in Nat /\ spent \in [Busy -> Nat]
    /\ \A address \in Addresses : \A t \in 1 .. MaxTick : tick < t => wrong[address][t] = 0

\* What has expired goes, what counts stays.
LEMMA SweptCounter ==
    ASSUME NEW counters, NEW key \in DOMAIN counters
    PROVE  Swept(counters)[key] = IF Live(counters[key]) THEN counters[key] ELSE NoCounter
BY DEF Swept

\* What a charge makes of a table.
Charges(now, counters, key, limit) ==
    /\ \A other \in DOMAIN counters : other # key => now[other] = Swept(counters)[other]
    /\ ~Live(counters[key]) => now[key] = [count |-> 1, expires |-> tick + Window]
    /\ Live(counters[key]) =>
          now[key] = IF counters[key].count < limit
                     THEN [count |-> counters[key].count + 1, expires |-> counters[key].expires]
                     ELSE counters[key]

\* That is what Charged is.
LEMMA ChargedCounter ==
    ASSUME tick \in Nat, NEW Keys, NEW counters \in [Keys -> Counter], NEW key \in Keys,
           NEW limit
    PROVE  /\ Charged(counters, key, limit) \in [Keys -> Counter]
           /\ Charges(Charged(counters, key, limit), counters, key, limit)
<1> DEFINE kept == Swept(counters)
<1>1. \A k \in Keys : kept[k] = IF Live(counters[k]) THEN counters[k] ELSE NoCounter
  BY DEF Swept
<1>2. NoCounter \in Counter  BY DEF NoCounter, Counter
<1>3. kept \in [Keys -> Counter]
  BY <1>1, <1>2 DEF Swept
<1>4. ~Live(NoCounter)  BY DEF NoCounter, Live
<1>5. kept[key] = NoCounter <=> ~Live(counters[key])
  BY <1>1, <1>4
<1> HIDE DEF kept
<1>6. Window \in Nat  BY LimitsAssumption
<1>7. CASE kept[key] = NoCounter
  <2>1. Charged(counters, key, limit) = [kept EXCEPT ![key] = [count |-> 1, expires |-> tick + Window]]
    BY <1>7 DEF Charged, kept
  <2>2. [count |-> 1, expires |-> tick + Window] \in Counter  BY <1>6 DEF Counter
  <2>3. QED  BY <1>3, <1>5, <1>7, <2>1, <2>2 DEF kept, Charges
<1>8. CASE kept[key] # NoCounter
  <2>1. kept[key] = counters[key] /\ Live(counters[key])  BY <1>1, <1>8
  <2>2. CASE counters[key].count < limit
    <3>1. Charged(counters, key, limit)
          = [kept EXCEPT ![key] = [kept[key] EXCEPT !.count = kept[key].count + 1]]
      BY <1>8, <2>1, <2>2 DEF Charged, kept
    <3>2. Charged(counters, key, limit)
          = [kept EXCEPT ![key] = [count |-> counters[key].count + 1, expires |-> counters[key].expires]]
      <4>1. [kept[key] EXCEPT !.count = kept[key].count + 1]
            = [count |-> counters[key].count + 1, expires |-> counters[key].expires]
        BY <2>1 DEF Counter
      <4>2. QED  BY <3>1, <4>1
    <3>3. [count |-> counters[key].count + 1, expires |-> counters[key].expires] \in Counter
      BY DEF Counter
    <3>4. QED  BY <1>3, <2>1, <2>2, <3>2, <3>3 DEF kept, Charges
  <2>3. CASE ~(counters[key].count < limit)
    <3>1. Charged(counters, key, limit) = kept
      BY <1>8, <2>1, <2>3 DEF Charged, kept
    <3>2. QED  BY <1>3, <2>1, <2>3, <3>1 DEF kept, Charges
  <2>4. QED  BY <2>2, <2>3
<1>9. QED  BY <1>7, <1>8

Signing == {"own", "password", "charge own", "charge all", "clear"}

\* A request that signs in goes on about its address.
LEMMA SignInGoesOn ==
    ASSUME LimitsTyped, NEW c \in Callers, caller[c].at \in Signing, NEW stage \in Signing,
           Goes(c, stage)
    PROVE  /\ caller[c].key \in Addresses
           /\ caller' = [caller EXCEPT ![c] = [at |-> stage, key |-> caller[c].key]]
           /\ caller' \in [Callers -> Call]
<1>1. caller[c] \in Call  BY DEF LimitsTyped
<1>2. caller[c] \in [at : Signing, key : Addresses]
  <2>1. caller[c] # Waiting
    <3>1. Waiting.at = "idle" /\ "idle" \notin Signing  BY DEF Waiting, Signing
    <3>2. QED  BY <3>1
  <2>2. CASE caller[c] \in [at : {"mutate"}, key : Busy]  BY <2>2 DEF Signing
  <2>3. QED  BY <1>1, <2>1, <2>2 DEF Call, Signing
<1>3. [caller[c] EXCEPT !.at = stage] = [at |-> stage, key |-> caller[c].key]
  BY <1>2
<1>4. [at |-> stage, key |-> caller[c].key] \in Call
  BY <1>2 DEF Call, Signing
<1>5. caller' = [caller EXCEPT ![c] = [caller[c] EXCEPT !.at = stage]]
  BY DEF Goes
<1>6. QED  BY <1>2, <1>3, <1>4, <1>5 DEF LimitsTyped

\* A request that ends.
LEMMA CallEnds ==
    ASSUME LimitsTyped, NEW c \in Callers, Ends(c)
    PROVE  caller' = [caller EXCEPT ![c] = Waiting] /\ caller' \in [Callers -> Call]
<1>1. Waiting \in Call  BY DEF Call
<1>2. QED  BY <1>1 DEF LimitsTyped, Ends

\* Each request is where it can be.
LEMMA CallKinds ==
    ASSUME LimitsTyped, NEW c \in Callers
    PROVE  /\ caller[c].at \in Signing => caller[c].key \in Addresses
           /\ caller[c].at = "mutate" => caller[c].key \in Busy
           /\ caller[c] # Waiting => caller[c].at \in Signing \cup {"mutate"}
           /\ Waiting.at = "idle"
<1>1. caller[c] \in Call  BY DEF LimitsTyped
<1>2. CASE caller[c] = Waiting  BY <1>2 DEF Waiting, Signing
<1>3. CASE caller[c] \in [at : Signing, key : Addresses]  BY <1>3 DEF Waiting, Signing
<1>4. CASE caller[c] \in [at : {"mutate"}, key : Busy]  BY <1>4 DEF Waiting, Signing
<1>5. QED  BY <1>1, <1>2, <1>3, <1>4 DEF Call, Signing

\* A counter that is swept or charged still runs.
LEMMA SweptRuns ==
    ASSUME NEW counters, NEW key \in DOMAIN counters, NEW limit, Runs(counters[key], limit)
    PROVE  Runs(Swept(counters)[key], limit)
BY SweptCounter DEF Runs

\* So does one that is charged.
LEMMA ChargedRuns ==
    ASSUME tick \in Nat \ {0}, NEW Keys, NEW counters \in [Keys -> Counter], NEW key \in Keys,
           NEW limit \in Nat \ {0}, Runs(counters[key], limit)
    PROVE  Runs(Charged(counters, key, limit)[key], limit)
<1> DEFINE now == Charged(counters, key, limit)
<1>1. Window \in Nat \ {0}  BY LimitsAssumption
<1>2. counters[key].count \in Nat /\ counters[key].expires \in Nat  BY DEF Counter
<1>3. Charges(now, counters, key, limit)  BY ChargedCounter
<1> SUFFICES Runs(now[key], limit)
  OBVIOUS
<1> HIDE DEF now
<1>4. CASE ~Live(counters[key])
  BY <1>1, <1>3, <1>4 DEF Runs, Charges
<1>5. CASE Live(counters[key])
  <2>1. counters[key] # NoCounter  BY <1>5 DEF Live, NoCounter
  <2>2. /\ counters[key].count \in 1 .. limit
        /\ Window < counters[key].expires /\ counters[key].expires <= tick + Window
    BY <2>1 DEF Runs
  <2>3. CASE counters[key].count < limit
    <3>1. now[key] = [count |-> counters[key].count + 1, expires |-> counters[key].expires]
      BY <1>3, <1>5, <2>3 DEF Charges
    <3>2. QED  BY <2>2, <2>3, <3>1 DEF Runs
  <2>4. CASE ~(counters[key].count < limit)
    <3>1. now[key] = counters[key]
      BY <1>3, <1>5, <2>4 DEF Charges
    <3>2. QED  BY <2>2, <3>1 DEF Runs
  <2>5. QED  BY <2>3, <2>4
<1>6. QED  BY <1>4, <1>5

\* All counters of a table.
LEMMA SweptAllRun ==
    ASSUME NEW Keys, NEW limit, NEW counters, AllRun(counters, Keys, limit)
    PROVE  AllRun(Swept(counters), Keys, limit)
<1>1. NoCounter \in Counter  BY DEF NoCounter, Counter
<1>2. Swept(counters) \in [Keys -> Counter]  BY <1>1 DEF AllRun, Swept
<1>3. \A key \in Keys : Runs(Swept(counters)[key], limit[key])
  BY SweptRuns DEF AllRun
<1>4. QED  BY <1>2, <1>3 DEF AllRun

\* A table that is charged keeps running.
LEMMA ChargedAllRun ==
    ASSUME tick \in Nat \ {0}, NEW Keys, NEW limit \in [Keys -> Nat \ {0}], NEW counters,
           AllRun(counters, Keys, limit), NEW key \in Keys
    PROVE  AllRun(Charged(counters, key, limit[key]), Keys, limit)
<1>1. counters \in [Keys -> Counter]  BY DEF AllRun
<1>2. Charged(counters, key, limit[key]) \in [Keys -> Counter]
  BY <1>1, ChargedCounter
<1>3. ASSUME NEW other \in Keys PROVE Runs(Charged(counters, key, limit[key])[other], limit[other])
  <2>1. CASE other = key
    <3>1. limit[key] \in Nat \ {0} /\ Runs(counters[key], limit[key])  BY DEF AllRun
    <3>2. QED  BY <1>1, <2>1, <3>1, ChargedRuns
  <2>2. CASE other # key
    <3>1. Charged(counters, key, limit[key])[other] = Swept(counters)[other]
      <4>1. Charges(Charged(counters, key, limit[key]), counters, key, limit[key])
        BY <1>1, ChargedCounter
      <4>2. QED  BY <1>1, <2>2, <4>1 DEF Charges
    <3>2. Runs(Swept(counters)[other], limit[other])  BY SweptAllRun DEF AllRun
    <3>3. QED  BY <3>1, <3>2
  <2>3. QED  BY <2>1, <2>2
<1>4. QED  BY <1>2, <1>3 DEF AllRun

\* The limits are positive numbers.
LEMMA LimitsAreNumbers ==
    /\ FailureLimits \in [Addresses \cup {Installation} -> Nat \ {0}]
    /\ MutationLimits \in [Busy \cup {Installation} -> Nat \ {0}]
    /\ \A address \in Addresses : FailureLimits[address] = FailureLimit
    /\ \A who \in Busy : MutationLimits[who] = PersonalLimit
    /\ FailureLimits[Installation] = GlobalFailureLimit
    /\ MutationLimits[Installation] = GlobalLimit
BY LimitsAssumption DEF FailureLimits, MutationLimits

\* The tables after a step keep running.
TablesRun ==
    /\ AllRun(failures, Addresses \cup {Installation}, FailureLimits)
    /\ AllRun(mutations, Busy \cup {Installation}, MutationLimits)

\* When nothing is written in them,
LEMMA UnwrittenRun ==
    ASSUME LimitsTyped, tick' = tick, UNCHANGED <<failures, mutations>>
    PROVE  TablesRun'
BY DEF LimitsTyped, TablesRun, AllRun, Runs

\* when a wrong answer is charged,
LEMMA FailureRuns ==
    ASSUME LimitsTyped, tick' = tick, NEW key \in Addresses \cup {Installation},
           ChargeFailure(key, FailureLimits[key])
    PROVE  TablesRun'
<1>1. tick \in Nat \ {0}  BY DEF LimitsTyped
<1>2. AllRun(Charged(failures, key, FailureLimits[key]), Addresses \cup {Installation}, FailureLimits)
  BY <1>1, ChargedAllRun, LimitsAreNumbers DEF LimitsTyped
<1>3. AllRun(Swept(mutations), Busy \cup {Installation}, MutationLimits)
  BY SweptAllRun DEF LimitsTyped
<1>4. QED  BY <1>2, <1>3 DEF TablesRun, ChargeFailure, AllRun, Runs

\* when a change is,
LEMMA MutationRuns ==
    ASSUME LimitsTyped, tick' = tick, NEW key \in Busy \cup {Installation},
           ChargeMutation(key, MutationLimits[key])
    PROVE  TablesRun'
<1>1. tick \in Nat \ {0}  BY DEF LimitsTyped
<1>2. AllRun(Charged(mutations, key, MutationLimits[key]), Busy \cup {Installation}, MutationLimits)
  BY <1>1, ChargedAllRun, LimitsAreNumbers DEF LimitsTyped
<1>3. AllRun(Swept(failures), Addresses \cup {Installation}, FailureLimits)
  BY SweptAllRun DEF LimitsTyped
<1>4. QED  BY <1>2, <1>3 DEF TablesRun, ChargeMutation, AllRun, Runs

\* and when one is cleared.
LEMMA ClearedRun ==
    ASSUME LimitsTyped, tick' = tick, mutations' = mutations,
           NEW key, failures' = [failures EXCEPT ![key] = NoCounter]
    PROVE  TablesRun'
<1>1. NoCounter \in Counter /\ \A limit : Runs(NoCounter, limit)'
  BY DEF NoCounter, Counter, Runs
<1>2. QED  BY <1>1 DEF TablesRun, LimitsTyped, AllRun, Runs

\* What else is typed.
RestTyped ==
    /\ tick \in 1 .. MaxTick
    /\ caller \in [Callers -> Call]
    /\ wrong \in [Addresses -> [1 .. MaxTick -> Nat]]
    /\ lost \in Nat /\ spent \in [Busy -> Nat]
    /\ \A address \in Addresses : \A t \in 1 .. MaxTick : tick < t => wrong[address][t] = 0

\* All begins typed.
LEMMA LimitsBeginTyped ==
    LimitsInit => LimitsTyped
<1> SUFFICES ASSUME LimitsInit PROVE LimitsTyped
  OBVIOUS
<1>1. NoCounter \in Counter /\ \A limit : Runs(NoCounter, limit)
  BY DEF NoCounter, Counter, Runs
<1>2. AllRun(failures, Addresses \cup {Installation}, FailureLimits)
      /\ AllRun(mutations, Busy \cup {Installation}, MutationLimits)
  BY <1>1 DEF LimitsInit, AllRun
<1>3. caller \in [Callers -> Call]  BY DEF LimitsInit, Call
<1>4. wrong \in [Addresses -> [1 .. MaxTick -> Nat]]
      /\ \A address \in Addresses : \A t \in 1 .. MaxTick : wrong[address][t] = 0
  BY DEF LimitsInit
<1>5. tick \in 1 .. MaxTick /\ lost \in Nat /\ spent \in [Busy -> Nat]
  BY LimitsAssumption DEF LimitsInit
<1>6. QED  BY <1>2, <1>3, <1>4, <1>5 DEF LimitsTyped

\* One step keeps it typed.
LEMMA LimitsStayTyped ==
    LimitsTyped /\ [LimitsNext]_limitVars => LimitsTyped'
<1> SUFFICES ASSUME LimitsTyped, [LimitsNext]_limitVars PROVE LimitsTyped'
  OBVIOUS
<1>0. SUFFICES TablesRun' /\ RestTyped'
  BY DEF TablesRun, RestTyped, LimitsTyped
<1>1. CASE UNCHANGED limitVars
  BY <1>1 DEF limitVars, LimitsTyped, TablesRun, RestTyped, AllRun, Runs, Counter, Call, Waiting
<1>2. CASE Tick
  <2>1. tick \in Nat /\ tick' = tick + 1 /\ tick' \in 1 .. MaxTick
    BY <1>2, LimitsAssumption DEF Tick, LimitsTyped
  <2>2. Window \in Nat  BY LimitsAssumption
  <2>3. ASSUME NEW counter \in Counter, NEW limit, Runs(counter, limit)
        PROVE  Runs(counter, limit)'
    BY <2>1, <2>2, <2>3 DEF Runs, Counter
  <2>4. TablesRun'  BY <1>2, <2>3 DEF Tick, LimitsTyped, TablesRun, AllRun
  <2>5. RestTyped'  BY <1>2, <2>1 DEF Tick, LimitsTyped, RestTyped
  <2>6. QED  BY <2>4, <2>5
<1>3. ASSUME NEW c \in Callers, NEW address \in Addresses, SignIn(c, address)
      PROVE  TablesRun' /\ RestTyped'
  <2>1. TablesRun'  BY <1>3, UnwrittenRun DEF SignIn
  <2>2. [at |-> "own", key |-> address] \in Call /\ Waiting \in Call  BY DEF Call
  <2>3. caller' \in [Callers -> Call]  BY <1>3, <2>2 DEF SignIn, LimitsTyped
  <2>4. QED  BY <1>3, <2>1, <2>3 DEF SignIn, LimitsTyped, RestTyped
<1>4. ASSUME NEW c \in Callers, NEW who \in Busy, Mutate(c, who)
      PROVE  TablesRun' /\ RestTyped'
  <2>1. TablesRun'  BY <1>4, MutationRuns, LimitsAreNumbers DEF Mutate
  <2>2. [at |-> "mutate", key |-> who] \in Call /\ Waiting \in Call  BY DEF Call
  <2>3. caller' \in [Callers -> Call]  BY <1>4, <2>2 DEF Mutate, LimitsTyped
  <2>4. QED  BY <1>4, <2>1, <2>3 DEF Mutate, LimitsTyped, RestTyped
<1>5. ASSUME NEW c \in Callers, ReadOwn(c) \/ AnswerRight(c)
      PROVE  TablesRun' /\ RestTyped'
  <2>1. TablesRun'  BY <1>5, UnwrittenRun DEF ReadOwn, AnswerRight
  <2>2. caller[c].at \in Signing /\ "password" \in Signing /\ "clear" \in Signing
    BY <1>5 DEF ReadOwn, AnswerRight, Signing
  <2>3. Ends(c) \/ Goes(c, "password") \/ Goes(c, "clear")
    BY <1>5 DEF ReadOwn, AnswerRight
  <2>4. caller' \in [Callers -> Call]  BY <2>2, <2>3, SignInGoesOn, CallEnds
  <2>5. QED  BY <1>5, <2>1, <2>4 DEF ReadOwn, AnswerRight, LimitsTyped, RestTyped
<1>6. ASSUME NEW c \in Callers, AnswerWrong(c)
      PROVE  TablesRun' /\ RestTyped'
  <2>1. TablesRun'  BY <1>6, UnwrittenRun DEF AnswerWrong
  <2>2. caller[c].at \in Signing /\ "charge own" \in Signing  BY <1>6 DEF AnswerWrong, Signing
  <2>3. caller' \in [Callers -> Call] /\ caller[c].key \in Addresses
    BY <1>6, <2>2, SignInGoesOn DEF AnswerWrong
  <2>4. PICK address \in Addresses : address = caller[c].key  BY <2>3
  <2>5. wrong' = [wrong EXCEPT ![address] = [wrong[address] EXCEPT ![tick] = wrong[address][tick] + 1]]
    BY <1>6, <2>4 DEF AnswerWrong
  <2>6. [wrong[address] EXCEPT ![tick] = wrong[address][tick] + 1] \in [1 .. MaxTick -> Nat]
    <3>1. wrong[address] \in [1 .. MaxTick -> Nat] /\ tick \in 1 .. MaxTick  BY DEF LimitsTyped
    <3>2. wrong[address][tick] \in Nat  BY <3>1
    <3>3. wrong[address][tick] + 1 \in Nat  BY <3>2
    <3>4. QED  BY <3>1, <3>3
  <2>7. wrong' \in [Addresses -> [1 .. MaxTick -> Nat]]
    BY <2>5, <2>6 DEF LimitsTyped
  <2>8. \A other \in Addresses : \A t \in 1 .. MaxTick : tick < t => wrong'[other][t] = 0
    <3> SUFFICES ASSUME NEW other \in Addresses, NEW t \in 1 .. MaxTick, tick < t
                 PROVE  wrong'[other][t] = 0
      OBVIOUS
    <3>1. wrong[other][t] = 0 /\ tick # t  BY DEF LimitsTyped
    <3>2. CASE other = address  BY <2>5, <3>1, <3>2 DEF LimitsTyped
    <3>3. CASE other # address  BY <2>5, <3>1, <3>3 DEF LimitsTyped
    <3>4. QED  BY <3>2, <3>3
  <2>9. QED  BY <1>6, <2>1, <2>3, <2>7, <2>8 DEF AnswerWrong, LimitsTyped, RestTyped
<1>7. ASSUME NEW c \in Callers, ChargeOwn(c)
      PROVE  TablesRun' /\ RestTyped'
  <2>1. caller[c].at \in Signing /\ "charge all" \in Signing  BY <1>7 DEF ChargeOwn, Signing
  <2>2. caller' \in [Callers -> Call] /\ caller[c].key \in Addresses
    BY <1>7, <2>1, SignInGoesOn DEF ChargeOwn
  <2>3. TablesRun'  BY <1>7, <2>2, FailureRuns, LimitsAreNumbers DEF ChargeOwn
  <2>4. QED  BY <1>7, <2>2, <2>3 DEF ChargeOwn, LimitsTyped, RestTyped
<1>8. ASSUME NEW c \in Callers, ChargeAll(c)
      PROVE  TablesRun' /\ RestTyped'
  <2>1. caller' \in [Callers -> Call]  BY <1>8, CallEnds DEF ChargeAll
  <2>2. TablesRun'  BY <1>8, FailureRuns, LimitsAreNumbers DEF ChargeAll
  <2>3. QED  BY <1>8, <2>1, <2>2 DEF ChargeAll, LimitsTyped, RestTyped
<1>9. ASSUME NEW c \in Callers, Clear(c)
      PROVE  TablesRun' /\ RestTyped'
  <2>1. TablesRun'  BY <1>9, ClearedRun DEF Clear
  <2>2. caller' \in [Callers -> Call]  BY <1>9, CallEnds DEF Clear
  <2>3. wrong' \in [Addresses -> [1 .. MaxTick -> Nat]]
    BY <1>9 DEF Clear, LimitsTyped
  <2>4. \A other \in Addresses : \A t \in 1 .. MaxTick : tick < t => wrong'[other][t] = 0
    BY <1>9 DEF Clear, LimitsTyped
  <2>5. QED  BY <1>9, <2>1, <2>2, <2>3, <2>4 DEF Clear, LimitsTyped, RestTyped
<1>10. ASSUME NEW c \in Callers, MutateForAll(c)
       PROVE  TablesRun' /\ RestTyped'
  <2>1. TablesRun'  BY <1>10, MutationRuns, LimitsAreNumbers DEF MutateForAll
  <2>2. caller' \in [Callers -> Call]  BY <1>10, CallEnds DEF MutateForAll
  <2>3. spent' \in [Busy -> Nat]
    <3>1. spent \in [Busy -> Nat]  BY DEF LimitsTyped
    <3>2. [who \in Busy |-> IF who = caller[c].key THEN 1 ELSE 0] \in [Busy -> Nat]
      OBVIOUS
    <3>3. [spent EXCEPT ![caller[c].key] = @ + 1] \in [Busy -> Nat]
      <4>1. caller[c].key \in Busy  BY <1>10, CallKinds DEF MutateForAll
      <4>2. spent[caller[c].key] \in Nat  BY <3>1, <4>1
      <4>3. spent[caller[c].key] + 1 \in Nat  BY <4>2
      <4>4. QED  BY <3>1, <4>3
    <3>4. QED  BY <1>10, <3>1, <3>2, <3>3 DEF MutateForAll
  <2>4. QED  BY <1>10, <2>1, <2>2, <2>3 DEF MutateForAll, LimitsTyped, RestTyped
<1>11. ASSUME NEW c \in Callers, LoseCall(c)
       PROVE  TablesRun' /\ RestTyped'
  <2>1. TablesRun'  BY <1>11, UnwrittenRun DEF LoseCall
  <2>2. caller' \in [Callers -> Call]  BY <1>11, CallEnds DEF LoseCall
  <2>3. QED  BY <1>11, <2>1, <2>2 DEF LoseCall, LimitsTyped, RestTyped
<1>12. QED
  BY <1>1, <1>2, <1>3, <1>4, <1>5, <1>6, <1>7, <1>8, <1>9, <1>10, <1>11 DEF LimitsNext

\* So is their number after a step.
LEMMA NumberAfter ==
    ASSUME NEW stage, NEW key
    PROVE  Number(stage, key)' \in Nat
<1>1. IsFiniteSet(Callers)  BY LimitsAssumption
<1>2. {c \in Callers : caller'[c].at = stage /\ caller'[c].key = key} \subseteq Callers
  OBVIOUS
<1>3. Number(stage, key)' = Cardinality({c \in Callers : caller'[c].at = stage /\ caller'[c].key = key})
  BY DEF Number, Those
<1>4. QED  BY <1>1, <1>2, <1>3, FS_Subset, FS_CardinalityType

-----------------------------------------------------------------------------
(* Rate limits: wrong answers *)

Begun(counter) == counter.expires - Window
GuessesSince(address) == Counted(wrong[address], Begun(failures[address]), tick)

\* The wrong answers of an address that are not in its counter: each is of a request that
\* has still to charge it, or of one that was lost.  Once the counter is full nobody
\* begins to answer; those who had read it before may still.
GuessesOf(address) ==
    /\ ~Live(failures[address]) =>
          wrong[address][tick] <= Number("charge own", address) + lost
    /\ Live(failures[address]) /\ failures[address].count < FailureLimit =>
          GuessesSince(address) <= failures[address].count + Number("charge own", address) + lost
    /\ Live(failures[address]) /\ failures[address].count = FailureLimit =>
          GuessesSince(address) + Number("password", address) <= FailureLimit + Asking - 1 + lost

GuessInv == \A address \in Addresses : GuessesOf(address)

\* These are numbers, and a counter that runs began at some moment until now.
LEMMA GuessTypes ==
    ASSUME LimitsTyped, NEW address \in Addresses
    PROVE  /\ tick \in 1 .. MaxTick /\ MaxTick \in Nat /\ Window \in Nat
           /\ wrong[address] \in [1 .. MaxTick -> Nat] /\ wrong[address][tick] \in Nat
           /\ \A t \in 1 .. MaxTick : tick < t => wrong[address][t] = 0
           /\ lost \in Nat /\ Asking \in Nat /\ FailureLimit \in Nat \ {0}
           /\ failures[address].count \in Nat /\ failures[address].expires \in Nat
           /\ Live(failures[address]) =>
                 /\ failures[address].count \in 1 .. FailureLimit
                 /\ Begun(failures[address]) \in 1 .. tick
                 /\ GuessesSince(address) \in Nat
<1>1. tick \in 1 .. MaxTick /\ MaxTick \in Nat /\ Window \in Nat /\ lost \in Nat
      /\ FailureLimit \in Nat \ {0}
  BY LimitsAssumption DEF LimitsTyped
<1>2. wrong[address] \in [1 .. MaxTick -> Nat]  BY DEF LimitsTyped
<1>3. wrong[address][tick] \in Nat  BY <1>1, <1>2
<1>4. Asking \in Nat  BY NumberType
<1>5. failures[address] \in Counter /\ Runs(failures[address], FailureLimit)
  BY LimitsAreNumbers DEF LimitsTyped, AllRun
<1>6. failures[address].count \in Nat /\ failures[address].expires \in Nat
  BY <1>5 DEF Counter
<1>7. ASSUME Live(failures[address])
      PROVE  failures[address].count \in 1 .. FailureLimit /\ Begun(failures[address]) \in 1 .. tick
  <2>1. failures[address] # NoCounter  BY <1>1, <1>7 DEF Live, NoCounter
  <2>2. QED  BY <1>1, <1>5, <1>6, <2>1 DEF Runs, Begun
<1>8. ASSUME Live(failures[address]) PROVE GuessesSince(address) \in Nat
  <2>1. Begun(failures[address]) \in Nat  BY <1>7, <1>8
  <2>2. tick \in Nat /\ tick <= MaxTick  BY <1>1
  <2>3. Counted(wrong[address], Begun(failures[address]), tick) \in Nat
    BY <1>1, <1>2, <2>1, <2>2, CountedType
  <2>4. QED  BY <2>3 DEF GuessesSince
<1>9. QED  BY <1>1, <1>2, <1>3, <1>4, <1>6, <1>7, <1>8 DEF LimitsTyped

\* A counter that runs is what it was, and one that does not still does not.
Same(was, now) == IF Live(was) THEN now = was ELSE ~Live(now)

\* A step that changes nothing of an address: the wrong answers that are not charged are
\* accounted for as before, and with a full counter nobody new answers.
CalmGuess(address) ==
    /\ tick' = tick /\ wrong'[address] = wrong[address]
    /\ Same(failures[address], failures'[address])
    /\ Number("charge own", address) + lost <= Number("charge own", address)' + lost'
    /\ Reached(failures[address], FailureLimit) =>
          Number("password", address)' + lost <= Number("password", address) + lost'

\* Such a step keeps the account.
LEMMA CalmGuessKeeps ==
    ASSUME LimitsTyped, LimitsTyped', NEW address \in Addresses, GuessesOf(address),
           CalmGuess(address)
    PROVE  GuessesOf(address)'
<1>1. PICK own \in Nat, answering \in Nat :
          own = Number("charge own", address) /\ answering = Number("password", address)
  BY NumberType
<1>2. PICK ownAfter \in Nat, answeringAfter \in Nat :
          /\ ownAfter = Number("charge own", address)'
          /\ answeringAfter = Number("password", address)'
  BY NumberAfter
<1>3. Asking \in Nat /\ wrong[address][tick] \in Nat
      /\ FailureLimit \in Nat /\ failures[address].count \in Nat
  BY GuessTypes DEF LimitsTyped
<1>4. PICK gone \in Nat, goneAfter \in Nat : gone = lost /\ goneAfter = lost'
  BY DEF LimitsTyped
<1>5. own \in Nat /\ answering \in Nat /\ ownAfter \in Nat /\ answeringAfter \in Nat
      /\ gone \in Nat /\ goneAfter \in Nat
  BY <1>1, <1>2, <1>4
<1>6. Asking' = Asking  BY DEF Asking
<1>7. own + gone <= ownAfter + goneAfter  BY <1>1, <1>2, <1>4 DEF CalmGuess
<1>8. CASE Live(failures[address])
  <2>1. failures'[address] = failures[address] /\ tick' = tick /\ wrong'[address] = wrong[address]
    BY <1>8 DEF CalmGuess, Same
  <2>2. PICK guesses \in Nat : guesses = GuessesSince(address)  BY <1>8, GuessTypes
  <2>3. guesses \in Nat  BY <2>2
  <2>4. GuessesSince(address)' = guesses /\ Live(failures[address])'
    BY <1>8, <2>1, <2>2 DEF GuessesSince, Begun, Live
  <2>5. ASSUME failures[address].count < FailureLimit
        PROVE  guesses <= failures'[address].count + ownAfter + goneAfter
    <3>1. guesses <= failures[address].count + own + gone
      BY <1>1, <1>8, <1>4, <2>2, <2>5 DEF GuessesOf
    <3>2. guesses <= failures[address].count + ownAfter + goneAfter
      BY <1>3, <1>5, <1>7, <2>3, <3>1
    <3>3. QED  BY <2>1, <3>2
  <2>6. ASSUME failures[address].count = FailureLimit
        PROVE  guesses + answeringAfter <= FailureLimit + Asking - 1 + goneAfter
    <3>1. Reached(failures[address], FailureLimit)  BY <1>3, <1>8, <2>6 DEF Reached
    <3>2. answeringAfter + gone <= answering + goneAfter
      BY <1>1, <1>2, <1>4, <3>1 DEF CalmGuess
    <3>3. guesses + answering <= FailureLimit + Asking - 1 + gone
      BY <1>1, <1>8, <1>4, <2>2, <2>6 DEF GuessesOf
    <3>4. QED  BY <1>3, <1>5, <2>3, <3>2, <3>3
  <2>7. QED  BY <1>2, <1>6, <1>4, <2>1, <2>4, <2>5, <2>6 DEF GuessesOf
<1>9. CASE ~Live(failures[address])
  <2>1. ~Live(failures[address])'  BY <1>9 DEF CalmGuess, Same, Live
  <2>2. wrong'[address][tick'] = wrong[address][tick]  BY DEF CalmGuess
  <2>3. wrong[address][tick] <= own + gone  BY <1>1, <1>9, <1>4 DEF GuessesOf
  <2>4. wrong[address][tick] <= ownAfter + goneAfter  BY <1>3, <1>5, <1>7, <2>3
  <2>5. QED  BY <1>2, <1>4, <2>1, <2>2, <2>4 DEF GuessesOf
<1>10. QED  BY <1>8, <1>9

\* What sweeps and charges leave alone.
LEMMA SweptSame ==
    ASSUME tick \in Nat, NEW counters, NEW key \in DOMAIN counters
    PROVE  Same(counters[key], Swept(counters)[key])
<1>1. ~Live(NoCounter)  BY DEF Live, NoCounter
<1>2. QED  BY <1>1, SweptCounter DEF Same

\* A charge leaves the other keys alone, but for what has expired.
LEMMA ChargedSame ==
    ASSUME tick \in Nat, NEW Keys, NEW counters \in [Keys -> Counter], NEW key \in Keys,
           NEW limit, NEW other \in Keys, other # key
    PROVE  Same(counters[other], Charged(counters, key, limit)[other])
<1>1. Charges(Charged(counters, key, limit), counters, key, limit)  BY ChargedCounter
<1>2. Charged(counters, key, limit)[other] = Swept(counters)[other]
  BY <1>1 DEF Charges
<1>3. QED  BY <1>2, SweptSame

\* So does no write at all.
LEMMA UnchangedSame ==
    ASSUME tick \in Nat, NEW counter
    PROVE  Same(counter, counter)
BY DEF Same

\* How a move of one request counts.
Moves(c, now) == caller' = [caller EXCEPT ![c] = now]
IsAt(here, stage, key) == here.at = stage /\ here.key = key

\* What a move makes of a number.
Moved(was, is, here, now, stage, key) ==
    /\ IsAt(here, stage, key) /\ ~IsAt(now, stage, key) => is = was - 1
    /\ ~IsAt(here, stage, key) /\ IsAt(now, stage, key) => is = was + 1
    /\ ~IsAt(here, stage, key) /\ ~IsAt(now, stage, key) => is = was

\* A move makes that of each number.
LEMMA MoveCounts ==
    ASSUME LimitsTyped, NEW c \in Callers, NEW now, Moves(c, now), NEW stage, NEW key
    PROVE  \E was \in Nat, is \in Nat :
              /\ was = Number(stage, key) /\ is = Number(stage, key)'
              /\ Moved(was, is, caller[c], now, stage, key)
<1>1. caller = [d \in Callers |-> caller[d]]  BY DEF LimitsTyped
<1>2. Number(stage, key)' + In(caller[c], stage, key) = Number(stage, key) + In(now, stage, key)
  BY <1>1, OneMoves DEF Moves
<1>3. PICK was \in Nat, is \in Nat : was = Number(stage, key) /\ is = Number(stage, key)'
  BY NumberType, NumberAfter
<1>4. is + In(caller[c], stage, key) = was + In(now, stage, key)  BY <1>2, <1>3
<1>5. is \in Nat /\ was \in Nat  BY <1>3
<1>6. Moved(was, is, caller[c], now, stage, key)
  BY <1>4, <1>5 DEF Moved, In, IsAt
<1>7. QED  BY <1>3, <1>6

\* A step of a request that is about something else, or does not answer.
Quiet(address) ==
    /\ tick' = tick /\ lost' = lost /\ wrong'[address] = wrong[address]
    /\ Same(failures[address], failures'[address])
    /\ Number("charge own", address)' = Number("charge own", address)
    /\ Reached(failures[address], FailureLimit) =>
          Number("password", address)' <= Number("password", address)

\* It keeps the account of the wrong answers.
LEMMA QuietIsCalm ==
    ASSUME LimitsTyped, NEW address \in Addresses, Quiet(address)
    PROVE  CalmGuess(address)
<1>1. PICK own \in Nat, answering \in Nat, answeringAfter \in Nat, gone \in Nat :
          /\ own = Number("charge own", address) /\ answering = Number("password", address)
          /\ answeringAfter = Number("password", address)' /\ gone = lost
  BY NumberType, NumberAfter DEF LimitsTyped
<1>2. own \in Nat /\ answering \in Nat /\ answeringAfter \in Nat /\ gone \in Nat  BY <1>1
<1>3. own + gone <= own + gone  BY <1>2
<1>4. Reached(failures[address], FailureLimit) => answeringAfter <= answering  BY <1>1 DEF Quiet
<1>5. Reached(failures[address], FailureLimit) => answeringAfter + gone <= answering + gone
  BY <1>2, <1>4
<1>6. QED  BY <1>1, <1>3, <1>5 DEF CalmGuess, Quiet

\* Places where nothing is answered or charged to an address.
Elsewhere == {"idle", "own", "charge all", "clear", "mutate"}

\* Where a request may go without an answer: elsewhere, to the password when its counter
\* is not full, anywhere about another address.
QuietMove(here, now, address) ==
    /\ here.at \in Elsewhere \cup {"password"} \/ here.key # address
    /\ \/ now.at \in Elsewhere
       \/ now.at = "password" /\ ~Reached(failures[now.key], FailureLimit)
       \/ now.key # address

\* Such a move keeps the account too.
LEMMA QuietMoves ==
    ASSUME LimitsTyped, NEW address \in Addresses, NEW c \in Callers, NEW now, Moves(c, now),
           tick' = tick, lost' = lost, wrong'[address] = wrong[address],
           Same(failures[address], failures'[address]), QuietMove(caller[c], now, address)
    PROVE  CalmGuess(address)
<1>1. "charge own" \notin Elsewhere \cup {"password"} /\ "password" \notin Elsewhere
  BY DEF Elsewhere
<1>2. ~IsAt(caller[c], "charge own", address) /\ ~IsAt(now, "charge own", address)
  BY <1>1 DEF QuietMove, IsAt
<1>3. Number("charge own", address)' = Number("charge own", address)
  <2>1. PICK was \in Nat, is \in Nat :
            /\ was = Number("charge own", address) /\ is = Number("charge own", address)'
            /\ Moved(was, is, caller[c], now, "charge own", address)
    BY MoveCounts
  <2>2. QED  BY <1>2, <2>1 DEF Moved
<1>4. ASSUME Reached(failures[address], FailureLimit)
      PROVE  Number("password", address)' <= Number("password", address)
  <2>1. ~IsAt(now, "password", address)  BY <1>1, <1>4 DEF QuietMove, IsAt
  <2>2. PICK was \in Nat, is \in Nat :
            /\ was = Number("password", address) /\ is = Number("password", address)'
            /\ Moved(was, is, caller[c], now, "password", address)
    BY MoveCounts
  <2>3. was \in Nat /\ is \in Nat /\ (is = was - 1 \/ is = was)  BY <2>1, <2>2 DEF Moved
  <2>4. is <= was  BY <2>3
  <2>5. QED  BY <2>2, <2>4
<1>5. QED  BY <1>3, <1>4, QuietIsCalm DEF Quiet

\* Time passes: the next moment has no wrong answers yet.
LEMMA TickGuess ==
    ASSUME LimitsTyped, LimitsTyped', NEW address \in Addresses, GuessesOf(address), Tick
    PROVE  GuessesOf(address)'
<1>1. PICK now \in Nat : now = tick /\ tick' = now + 1 /\ now + 1 \in 1 .. MaxTick
  BY GuessTypes DEF Tick, LimitsTyped
<1>2. /\ failures'[address] = failures[address] /\ wrong'[address] = wrong[address]
      /\ caller' = caller /\ lost' = lost /\ Asking' = Asking
      /\ Number("charge own", address)' = Number("charge own", address)
      /\ Number("password", address)' = Number("password", address)
  BY DEF Tick, Number, Those, Asking
<1>3. wrong[address][now + 1] = 0
  <2>1. \A t \in 1 .. MaxTick : now < t => wrong[address][t] = 0  BY <1>1, GuessTypes
  <2>2. now < now + 1  BY <1>1
  <2>3. QED  BY <1>1, <2>1, <2>2
<1>4. CASE Live(failures[address])'
  <2>1. Live(failures[address])
    <3>1. failures[address].expires \in Nat  BY GuessTypes
    <3>2. failures[address].expires > now + 1  BY <1>1, <1>2, <1>4 DEF Live
    <3>3. failures[address].expires > now  BY <1>1, <3>1, <3>2
    <3>4. QED  BY <1>1, <3>3 DEF Live
  <2>2. Begun(failures[address]) \in 1 .. now /\ GuessesSince(address) \in Nat
    BY <1>1, <2>1, GuessTypes
  <2>3. Counted(wrong[address], Begun(failures[address]), now + 1)
        = Counted(wrong[address], Begun(failures[address]), now)
    <3>1. ~(now + 1 < Begun(failures[address]))  BY <1>1, <2>2
    <3>2. Counted(wrong[address], Begun(failures[address]), now + 1)
          = Counted(wrong[address], Begun(failures[address]), now) + wrong[address][now + 1]
      BY <1>1, <3>1, OneMoreMoment
    <3>3. QED  BY <1>1, <1>3, <2>2, <3>2 DEF GuessesSince
  <2>4. GuessesSince(address)' = GuessesSince(address)
    BY <1>1, <1>2, <2>3 DEF GuessesSince, Begun
  <2>5. QED  BY <1>2, <1>4, <2>1, <2>4 DEF GuessesOf
<1>5. CASE ~Live(failures[address])'
  <2>1. PICK own \in Nat, gone \in Nat : own = Number("charge own", address) /\ gone = lost
    BY NumberType, GuessTypes
  <2>2. 0 <= own + gone
    <3>1. own \in Nat /\ gone \in Nat  BY <2>1
    <3>2. QED  BY <3>1
  <2>3. wrong'[address][tick'] <= Number("charge own", address)' + lost'
    BY <1>1, <1>2, <1>3, <2>1, <2>2
  <2>4. QED  BY <1>5, <2>3 DEF GuessesOf
<1>6. QED  BY <1>4, <1>5

\* A right answer clears all.
LEMMA ClearGuess ==
    ASSUME LimitsTyped, LimitsTyped', NEW address \in Addresses, NEW c \in Callers, Clear(c),
           caller[c].key = address
    PROVE  GuessesOf(address)'
<1>1. failures'[address] = NoCounter /\ wrong'[address] = [t \in 1 .. MaxTick |-> 0]
      /\ tick' = tick
  BY DEF Clear, LimitsTyped, AllRun
<1>2. tick \in 1 .. MaxTick /\ tick \in Nat  BY DEF LimitsTyped
<1>3. ~Live(failures[address])'  BY <1>1, <1>2 DEF Live, NoCounter
<1>4. wrong'[address][tick'] = 0  BY <1>1, <1>2
<1>5. PICK own \in Nat, gone \in Nat : own = Number("charge own", address)' /\ gone = lost'
  BY NumberAfter DEF LimitsTyped
<1>6. 0 <= own + gone
  <2>1. own \in Nat /\ gone \in Nat  BY <1>5
  <2>2. QED  BY <2>1
<1>7. QED  BY <1>3, <1>4, <1>5, <1>6 DEF GuessesOf

\* A wrong answer is one more that its request has to charge.
LEMMA WrongGuess ==
    ASSUME LimitsTyped, LimitsTyped', NEW address \in Addresses, GuessesOf(address),
           NEW c \in Callers, AnswerWrong(c), caller[c].key = address
    PROVE  GuessesOf(address)'
<1>1. caller[c].at = "password" /\ caller[c].at \in Signing /\ "charge own" \in Signing
      /\ "charge own" # "password"
  BY DEF AnswerWrong, Signing
<1>2. Moves(c, [at |-> "charge own", key |-> address])
  BY <1>1, SignInGoesOn DEF AnswerWrong, Moves
<1>3. PICK own \in Nat, ownAfter \in Nat :
          /\ own = Number("charge own", address) /\ ownAfter = Number("charge own", address)'
          /\ ownAfter = own + 1
  <2>1. PICK was \in Nat, is \in Nat :
            /\ was = Number("charge own", address) /\ is = Number("charge own", address)'
            /\ Moved(was, is, caller[c], [at |-> "charge own", key |-> address], "charge own", address)
    BY <1>2, MoveCounts
  <2>2. is = was + 1  BY <1>1, <2>1 DEF Moved, IsAt
  <2>3. QED  BY <2>1, <2>2
<1>4. PICK answering \in Nat, answeringAfter \in Nat :
          /\ answering = Number("password", address)
          /\ answeringAfter = Number("password", address)'
          /\ answeringAfter = answering - 1
  <2>1. PICK was \in Nat, is \in Nat :
            /\ was = Number("password", address) /\ is = Number("password", address)'
            /\ Moved(was, is, caller[c], [at |-> "charge own", key |-> address], "password", address)
    BY <1>2, MoveCounts
  <2>2. is = was - 1  BY <1>1, <2>1 DEF Moved, IsAt
  <2>3. QED  BY <2>1, <2>2
<1>5. PICK now \in Nat, gone \in Nat : now = tick /\ gone = lost
  BY DEF LimitsTyped
<1>6. now \in 1 .. MaxTick /\ MaxTick \in Nat /\ Asking \in Nat /\ FailureLimit \in Nat
      /\ wrong[address] \in [1 .. MaxTick -> Nat]
      /\ failures[address].count \in Nat
  BY <1>5, GuessTypes
<1>7. PICK here \in Nat : here = wrong[address][now]  BY <1>6
<1>8. /\ failures'[address] = failures[address] /\ tick' = now /\ lost' = gone
      /\ Asking' = Asking /\ Live(failures[address])' = Live(failures[address])
  BY <1>5 DEF AnswerWrong, Asking, Live
<1>9. /\ wrong'[address][now] = here + 1
      /\ \A t \in 1 .. MaxTick : t # now => wrong'[address][t] = wrong[address][t]
  BY <1>5, <1>6, <1>7 DEF AnswerWrong, LimitsTyped
<1>10. CASE ~Live(failures[address])
  <2>1. here <= own + gone  BY <1>3, <1>5, <1>7, <1>10 DEF GuessesOf
  <2>2. here + 1 <= ownAfter + gone
    <3>1. here \in Nat /\ own \in Nat /\ gone \in Nat /\ ownAfter = own + 1  BY <1>3, <1>5, <1>7
    <3>2. QED  BY <2>1, <3>1
  <2>3. QED  BY <1>3, <1>8, <1>9, <1>10, <2>2 DEF GuessesOf
<1>11. CASE Live(failures[address])
  <2>1. PICK first \in Nat, guesses \in Nat :
            /\ first = Begun(failures[address]) /\ first <= now
            /\ guesses = GuessesSince(address)
    BY <1>5, <1>6, <1>11, GuessTypes
  <2>2. GuessesSince(address)' = guesses + 1
    <3>1. now - 1 \in Nat /\ (now - 1) + 1 = now  BY <1>6
    <3>2. Counted(wrong[address], first, now)
          = Counted(wrong[address], first, now - 1) + wrong[address][now]
      BY <2>1, <3>1, OneMoreMoment
    <3>3. Counted(wrong'[address], first, now)
          = Counted(wrong'[address], first, now - 1) + wrong'[address][now]
      BY <2>1, <3>1, OneMoreMoment
    <3>4. Counted(wrong'[address], first, now - 1) = Counted(wrong[address], first, now - 1)
      <4>1. \A t \in 1 .. now - 1 : t \in 1 .. MaxTick /\ t # now  BY <1>6, <3>1
      <4>2. \A t \in 1 .. now - 1 : wrong'[address][t] = wrong[address][t]
        BY <1>9, <4>1
      <4>3. QED  BY <3>1, <4>2, SameCounted
    <3>5. PICK before \in Nat : before = Counted(wrong[address], first, now - 1)
      <4>1. now - 1 <= MaxTick  BY <1>6
      <4>2. QED  BY <1>6, <2>1, <3>1, <4>1, CountedType
    <3>6. guesses = before + here
      BY <1>5, <1>7, <2>1, <3>2, <3>5 DEF GuessesSince
    <3>7. GuessesSince(address)' = before + (here + 1)
      BY <1>8, <1>9, <2>1, <3>3, <3>4, <3>5 DEF GuessesSince, Begun
    <3>8. before + (here + 1) = (before + here) + 1  BY <1>7, <3>5
    <3>9. QED  BY <3>6, <3>7, <3>8
  <2>3. ASSUME failures[address].count < FailureLimit
        PROVE  guesses + 1 <= failures[address].count + ownAfter + gone
    <3>1. guesses <= failures[address].count + own + gone
      BY <1>3, <1>5, <1>11, <2>1, <2>3 DEF GuessesOf
    <3>2. guesses \in Nat /\ own \in Nat /\ gone \in Nat /\ ownAfter = own + 1
          /\ failures[address].count \in Nat
      BY <1>3, <1>5, <1>6, <2>1
    <3>3. QED  BY <3>1, <3>2
  <2>4. ASSUME failures[address].count = FailureLimit
        PROVE  (guesses + 1) + answeringAfter <= FailureLimit + Asking - 1 + gone
    <3>1. guesses + answering <= FailureLimit + Asking - 1 + gone
      BY <1>4, <1>5, <1>11, <2>1, <2>4 DEF GuessesOf
    <3>2. guesses \in Nat /\ answering \in Nat /\ gone \in Nat /\ answeringAfter = answering - 1
          /\ FailureLimit \in Nat /\ Asking \in Nat
      BY <1>4, <1>5, <1>6, <2>1
    <3>3. QED  BY <3>1, <3>2
  <2>5. QED
    BY <1>3, <1>4, <1>8, <1>11, <2>2, <2>3, <2>4 DEF GuessesOf
<1>12. QED  BY <1>10, <1>11

\* A charge puts one that was not charged into the counter.  When that fills it, those who
\* are to answer and those who are to charge are together all requests at most.
LEMMA ChargeGuess ==
    ASSUME LimitsTyped, LimitsTyped', NEW address \in Addresses, GuessesOf(address),
           NEW c \in Callers, ChargeOwn(c), caller[c].key = address
    PROVE  GuessesOf(address)'
<1>1. caller[c].at = "charge own" /\ caller[c].at \in Signing /\ "charge all" \in Signing
      /\ "charge all" # "charge own" /\ "charge all" # "password" /\ "charge own" # "password"
  BY DEF ChargeOwn, Signing
<1>2. Moves(c, [at |-> "charge all", key |-> address])
  BY <1>1, SignInGoesOn DEF ChargeOwn, Moves
<1>3. PICK own \in Nat, ownAfter \in Nat :
          /\ own = Number("charge own", address) /\ ownAfter = Number("charge own", address)'
          /\ ownAfter = own - 1
  <2>1. PICK was \in Nat, is \in Nat :
            /\ was = Number("charge own", address) /\ is = Number("charge own", address)'
            /\ Moved(was, is, caller[c], [at |-> "charge all", key |-> address], "charge own", address)
    BY <1>2, MoveCounts
  <2>2. is = was - 1  BY <1>1, <2>1 DEF Moved, IsAt
  <2>3. QED  BY <2>1, <2>2
<1>4. PICK answering \in Nat :
          /\ answering = Number("password", address)
          /\ answering = Number("password", address)'
  <2>1. PICK was \in Nat, is \in Nat :
            /\ was = Number("password", address) /\ is = Number("password", address)'
            /\ Moved(was, is, caller[c], [at |-> "charge all", key |-> address], "password", address)
    BY <1>2, MoveCounts
  <2>2. is = was  BY <1>1, <2>1 DEF Moved, IsAt
  <2>3. QED  BY <2>1, <2>2
<1>5. PICK now \in Nat, gone \in Nat, asking \in Nat, limit \in Nat \ {0} :
          now = tick /\ gone = lost /\ asking = Asking /\ limit = FailureLimit
  BY GuessTypes
<1>6. own + answering <= asking  BY <1>1, <1>3, <1>4, <1>5, TwoPlaces
<1>7. now \in 1 .. MaxTick /\ MaxTick \in Nat /\ Window \in Nat \ {0}
      /\ wrong[address] \in [1 .. MaxTick -> Nat]
  BY <1>5, GuessTypes, LimitsAssumption
<1>8. wrong'[address] = wrong[address] /\ tick' = now /\ lost' = gone /\ Asking' = asking
  BY <1>5 DEF ChargeOwn, Asking
<1>9. Charges(failures', failures, address, limit)
  <2>1. failures \in [Addresses \cup {Installation} -> Counter]  BY DEF LimitsTyped, AllRun
  <2>2. address \in Addresses \cup {Installation} /\ tick \in Nat  BY <1>5
  <2>3. failures' = Charged(failures, address, limit)  BY <1>5 DEF ChargeOwn, ChargeFailure
  <2>4. QED  BY <2>1, <2>2, <2>3, ChargedCounter
<1>10. own \in Nat /\ ownAfter \in Nat /\ ownAfter = own - 1 /\ answering \in Nat
       /\ now \in Nat /\ gone \in Nat /\ asking \in Nat /\ limit \in Nat \ {0}
  BY <1>3, <1>4, <1>5
<1>11. CASE ~Live(failures[address])
  <2>1. failures'[address] = [count |-> 1, expires |-> now + Window]
    BY <1>5, <1>9, <1>11 DEF Charges
  <2>2. Live(failures[address])' /\ failures'[address].count = 1 /\ Begun(failures'[address]) = now
    BY <1>7, <1>8, <1>10, <2>1 DEF Live, Begun
  <2>3. PICK here \in Nat : here = wrong[address][now]  BY <1>7
  <2>4. GuessesSince(address)' = here
    <3>1. now - 1 \in Nat /\ (now - 1) + 1 = now /\ now - 1 < now  BY <1>7
    <3>2. Counted(wrong[address], now, now)
          = Counted(wrong[address], now, now - 1) + wrong[address][now]
      <4>1. ~(now < now)  BY <1>10
      <4>2. QED  BY <3>1, <4>1, OneMoreMoment
    <3>3. Counted(wrong[address], now, now - 1) = 0  BY <1>10, <3>1, NoneBefore
    <3>4. Counted(wrong[address], now, now) = here  BY <2>3, <3>2, <3>3
    <3>5. QED  BY <1>8, <2>2, <3>4 DEF GuessesSince, Begun
  <2>5. here <= own + gone  BY <1>3, <1>5, <1>11, <2>3 DEF GuessesOf
  <2>6. here \in Nat  BY <2>3
  <2>7. here <= 1 + ownAfter + gone  BY <1>10, <2>5, <2>6
  <2>8. limit = 1 => here + answering <= limit + asking - 1 + gone
    BY <1>6, <1>10, <2>5, <2>6
  <2>9. QED
    BY <1>3, <1>4, <1>5, <1>8, <2>2, <2>4, <2>7, <2>8 DEF GuessesOf
<1>12. CASE Live(failures[address])
  <2>1. PICK guesses \in Nat, count \in Nat :
            guesses = GuessesSince(address) /\ count = failures[address].count
    BY <1>12, GuessTypes
  <2>2. guesses \in Nat /\ count \in Nat  BY <2>1
  <2>3. CASE count < limit
    <3>1. failures'[address] = [count |-> count + 1, expires |-> failures[address].expires]
      BY <1>9, <1>12, <2>1, <2>3 DEF Charges
    <3>2. Live(failures[address])' /\ failures'[address].count = count + 1
      BY <1>5, <1>8, <1>12, <3>1 DEF Live
    <3>3. GuessesSince(address)' = guesses
      BY <1>5, <1>8, <2>1, <3>1 DEF GuessesSince, Begun
    <3>4. guesses <= count + own + gone
      BY <1>3, <1>5, <1>12, <2>1, <2>3 DEF GuessesOf
    <3>5. guesses <= (count + 1) + ownAfter + gone  BY <1>10, <2>2, <3>4
    <3>6. count + 1 = limit => guesses + answering <= limit + asking - 1 + gone
      BY <1>6, <1>10, <2>2, <3>4
    <3>7. QED
      BY <1>3, <1>4, <1>5, <1>8, <3>2, <3>3, <3>5, <3>6 DEF GuessesOf
  <2>4. CASE ~(count < limit)
    <3>1. failures'[address] = failures[address]
      BY <1>9, <1>12, <2>1, <2>4 DEF Charges
    <3>2. Live(failures[address])'
      BY <1>5, <1>8, <1>12, <3>1 DEF Live
    <3>3. GuessesSince(address)' = GuessesSince(address)
      BY <1>5, <1>8, <3>1 DEF GuessesSince, Begun
    <3>4. QED
      BY <1>4, <1>5, <1>8, <1>12, <2>1, <2>4, <3>1, <3>2, <3>3 DEF GuessesOf
  <2>5. QED  BY <2>3, <2>4
<1>13. QED  BY <1>11, <1>12

\* What a step makes of a counter it is not about.
LEMMA OthersSame ==
    ASSUME LimitsTyped, NEW address \in Addresses
    PROVE  /\ failures' = failures => Same(failures[address], failures'[address])
           /\ \A who : \A limit : ChargeMutation(who, limit) =>
                 Same(failures[address], failures'[address])
           /\ \A key \in Addresses \cup {Installation} : \A limit :
                 key # address /\ ChargeFailure(key, limit) =>
                 Same(failures[address], failures'[address])
<1>1. tick \in Nat /\ failures \in [Addresses \cup {Installation} -> Counter]
      /\ address \in Addresses \cup {Installation}
  BY DEF LimitsTyped, AllRun
<1>2. failures' = failures => Same(failures[address], failures'[address])
  BY <1>1, UnchangedSame
<1>3. ASSUME NEW who, NEW limit, ChargeMutation(who, limit)
      PROVE  Same(failures[address], failures'[address])
  BY <1>1, <1>3, SweptSame DEF ChargeMutation
<1>4. ASSUME NEW key \in Addresses \cup {Installation}, NEW limit,
             key # address, ChargeFailure(key, limit)
      PROVE  Same(failures[address], failures'[address])
  BY <1>1, <1>4, ChargedSame DEF ChargeFailure
<1>5. QED  BY <1>2, <1>3, <1>4

\* A request that fails: what it did not charge is counted as lost.
LEMMA LoseGuess ==
    ASSUME LimitsTyped, NEW address \in Addresses, NEW c \in Callers, LoseCall(c)
    PROVE  CalmGuess(address)
<1>1. Moves(c, Waiting) /\ Waiting.at = "idle" /\ "idle" # "charge own" /\ "idle" # "password"
  BY DEF LoseCall, Ends, Moves, Waiting
<1>2. PICK own \in Nat, ownAfter \in Nat :
          /\ own = Number("charge own", address) /\ ownAfter = Number("charge own", address)'
          /\ Moved(own, ownAfter, caller[c], Waiting, "charge own", address)
  BY <1>1, MoveCounts
<1>3. PICK answering \in Nat, answeringAfter \in Nat :
          /\ answering = Number("password", address)
          /\ answeringAfter = Number("password", address)'
          /\ Moved(answering, answeringAfter, caller[c], Waiting, "password", address)
  BY <1>1, MoveCounts
<1>4. own \in Nat /\ ownAfter \in Nat /\ answering \in Nat /\ answeringAfter \in Nat
  BY <1>2, <1>3
<1>5. PICK gone \in Nat : gone = lost  BY DEF LimitsTyped
<1>6. lost' = gone + 1  BY <1>5 DEF LoseCall
<1>7. own <= ownAfter + 1 /\ answeringAfter <= answering
  <2>1. ~IsAt(Waiting, "charge own", address) /\ ~IsAt(Waiting, "password", address)
    BY <1>1 DEF IsAt
  <2>2. (ownAfter = own - 1 \/ ownAfter = own)
        /\ (answeringAfter = answering - 1 \/ answeringAfter = answering)
    BY <1>2, <1>3, <2>1 DEF Moved
  <2>3. QED  BY <1>4, <2>2
<1>8. own + gone <= ownAfter + (gone + 1) /\ answeringAfter + gone <= answering + (gone + 1)
  <2>1. gone \in Nat  BY <1>5
  <2>2. QED  BY <1>4, <1>7, <2>1
<1>9. Same(failures[address], failures'[address]) /\ tick' = tick /\ wrong'[address] = wrong[address]
  BY OthersSame DEF LoseCall
<1>10. QED  BY <1>2, <1>3, <1>5, <1>6, <1>8, <1>9 DEF CalmGuess

\* Every step accounts for the wrong answers.
LEMMA GuessStep ==
    LimitsTyped /\ LimitsTyped' /\ GuessInv /\ [LimitsNext]_limitVars => GuessInv'
<1> SUFFICES ASSUME LimitsTyped, LimitsTyped', GuessInv, [LimitsNext]_limitVars,
                    NEW address \in Addresses
             PROVE  GuessesOf(address)'
  BY DEF GuessInv
<1>1. GuessesOf(address)  BY DEF GuessInv
<1>2. SUFFICES ASSUME ~GuessesOf(address)' PROVE CalmGuess(address)
  BY <1>1, CalmGuessKeeps
<1>3. CASE UNCHANGED limitVars
  <2>1. Number("charge own", address)' = Number("charge own", address)
        /\ Number("password", address)' = Number("password", address)
    BY <1>3 DEF limitVars, Number, Those
  <2>2. PICK answering \in Nat : answering = Number("password", address)  BY NumberType
  <2>3. answering <= answering  BY <2>2
  <2>4. Quiet(address)  BY <1>3, <2>1, <2>2, <2>3, OthersSame DEF limitVars, Quiet
  <2>5. QED  BY <2>4, QuietIsCalm
<1>4. CASE Tick
  BY <1>1, <1>2, <1>4, TickGuess
<1>5. Waiting.at \in Elsewhere /\ "own" \in Elsewhere /\ "charge all" \in Elsewhere
      /\ "clear" \in Elsewhere /\ "mutate" \in Elsewhere
  BY DEF Waiting, Elsewhere
<1>6. ASSUME NEW c \in Callers, NEW other \in Addresses, SignIn(c, other)
      PROVE  CalmGuess(address)
  <2>1. PICK now : Moves(c, now) /\ now \in {Waiting, [at |-> "own", key |-> other]}
    BY <1>6 DEF SignIn, Moves
  <2>2. now.at \in Elsewhere /\ caller[c].at \in Elsewhere
    <3>1. caller[c].at \in Elsewhere  BY <1>5, <1>6 DEF SignIn
    <3>2. CASE now = Waiting  BY <1>5, <3>1, <3>2
    <3>3. CASE now = [at |-> "own", key |-> other]  BY <1>5, <3>1, <3>3
    <3>4. QED  BY <2>1, <3>2, <3>3
  <2>3. QuietMove(caller[c], now, address)  BY <2>2 DEF QuietMove
  <2>4. QED  BY <1>6, <2>1, <2>3, OthersSame, QuietMoves DEF SignIn
<1>7. ASSUME NEW c \in Callers, NEW who \in Busy, Mutate(c, who)
      PROVE  CalmGuess(address)
  <2>1. PICK now : Moves(c, now) /\ now \in {Waiting, [at |-> "mutate", key |-> who]}
    BY <1>7 DEF Mutate, Moves
  <2>2. now.at \in Elsewhere /\ caller[c].at \in Elsewhere
    <3>1. caller[c].at \in Elsewhere  BY <1>5, <1>7 DEF Mutate
    <3>2. CASE now = Waiting  BY <1>5, <3>1, <3>2
    <3>3. CASE now = [at |-> "mutate", key |-> who]  BY <1>5, <3>1, <3>3
    <3>4. QED  BY <2>1, <3>2, <3>3
  <2>3. QuietMove(caller[c], now, address)  BY <2>2 DEF QuietMove
  <2>4. QED  BY <1>7, <2>1, <2>3, OthersSame, QuietMoves DEF Mutate
<1>8. ASSUME NEW c \in Callers, ReadOwn(c)
      PROVE  CalmGuess(address)
  <2>1. caller[c].at = "own" /\ caller[c].at \in Signing /\ "password" \in Signing
    BY <1>8 DEF ReadOwn, Signing
  <2>2. CASE Reached(failures[caller[c].key], FailureLimit)
    <3>1. Moves(c, Waiting)  BY <1>8, <2>2 DEF ReadOwn, Ends, Moves
    <3>2. QuietMove(caller[c], Waiting, address)  BY <1>5, <2>1 DEF QuietMove
    <3>3. QED  BY <1>8, <3>1, <3>2, OthersSame, QuietMoves DEF ReadOwn
  <2>3. CASE ~Reached(failures[caller[c].key], FailureLimit)
    <3>1. PICK now : Moves(c, now) /\ now = [at |-> "password", key |-> caller[c].key]
      BY <1>8, <2>1, <2>3, SignInGoesOn DEF ReadOwn, Moves
    <3>2. QuietMove(caller[c], now, address)  BY <1>5, <2>1, <2>3, <3>1 DEF QuietMove
    <3>3. QED  BY <1>8, <3>1, <3>2, OthersSame, QuietMoves DEF ReadOwn
  <2>4. QED  BY <2>2, <2>3
<1>9. ASSUME NEW c \in Callers, AnswerRight(c)
      PROVE  CalmGuess(address)
  <2>1. caller[c].at = "password" /\ caller[c].at \in Signing /\ "clear" \in Signing
    BY <1>9 DEF AnswerRight, Signing
  <2>2. PICK now : Moves(c, now) /\ now = [at |-> "clear", key |-> caller[c].key]
    BY <1>9, <2>1, SignInGoesOn DEF AnswerRight, Moves
  <2>3. QuietMove(caller[c], now, address)  BY <1>5, <2>1, <2>2 DEF QuietMove
  <2>4. QED  BY <1>9, <2>2, <2>3, OthersSame, QuietMoves DEF AnswerRight
<1>10. ASSUME NEW c \in Callers, AnswerWrong(c)
       PROVE  CalmGuess(address)
  <2>1. caller[c].key # address  BY <1>1, <1>2, <1>10, WrongGuess
  <2>2. caller[c].at \in Signing /\ "charge own" \in Signing
    BY <1>10 DEF AnswerWrong, Signing
  <2>3. PICK now : Moves(c, now) /\ now = [at |-> "charge own", key |-> caller[c].key]
    BY <1>10, <2>2, SignInGoesOn DEF AnswerWrong, Moves
  <2>4. QuietMove(caller[c], now, address)  BY <2>1, <2>3 DEF QuietMove
  <2>5. wrong'[address] = wrong[address]  BY <1>10, <2>1 DEF AnswerWrong, LimitsTyped
  <2>6. QED  BY <1>10, <2>3, <2>4, <2>5, OthersSame, QuietMoves DEF AnswerWrong
<1>11. ASSUME NEW c \in Callers, ChargeOwn(c)
       PROVE  CalmGuess(address)
  <2>1. caller[c].key # address  BY <1>1, <1>2, <1>11, ChargeGuess
  <2>2. caller[c].at \in Signing /\ "charge all" \in Signing
    BY <1>11 DEF ChargeOwn, Signing
  <2>3. PICK now : Moves(c, now) /\ now = [at |-> "charge all", key |-> caller[c].key]
    BY <1>11, <2>2, SignInGoesOn DEF ChargeOwn, Moves
  <2>4. QuietMove(caller[c], now, address)  BY <2>1, <2>3 DEF QuietMove
  <2>5. caller[c].key \in Addresses \cup {Installation}  BY <2>2, CallKinds
  <2>6. Same(failures[address], failures'[address])
    BY <1>11, <2>1, <2>5, OthersSame DEF ChargeOwn
  <2>7. QED  BY <1>11, <2>3, <2>4, <2>6, QuietMoves DEF ChargeOwn
<1>12. ASSUME NEW c \in Callers, ChargeAll(c)
       PROVE  CalmGuess(address)
  <2>1. Moves(c, Waiting)  BY <1>12 DEF ChargeAll, Ends, Moves
  <2>2. QuietMove(caller[c], Waiting, address)  BY <1>5, <1>12 DEF ChargeAll, QuietMove
  <2>3. Installation # address  BY LimitsAssumption
  <2>4. Same(failures[address], failures'[address])
    BY <1>12, <2>3, OthersSame DEF ChargeAll
  <2>5. QED  BY <1>12, <2>1, <2>2, <2>4, QuietMoves DEF ChargeAll
<1>13. ASSUME NEW c \in Callers, Clear(c)
       PROVE  CalmGuess(address)
  <2>1. caller[c].key # address  BY <1>2, <1>13, ClearGuess
  <2>2. Moves(c, Waiting)  BY <1>13 DEF Clear, Ends, Moves
  <2>3. QuietMove(caller[c], Waiting, address)  BY <1>5, <2>1 DEF QuietMove
  <2>4. failures'[address] = failures[address] /\ wrong'[address] = wrong[address]
    BY <1>13, <2>1 DEF Clear, LimitsTyped, AllRun
  <2>5. Same(failures[address], failures'[address])
    BY <2>4, UnchangedSame DEF LimitsTyped
  <2>6. QED  BY <1>13, <2>2, <2>3, <2>4, <2>5, QuietMoves DEF Clear
<1>14. ASSUME NEW c \in Callers, MutateForAll(c)
       PROVE  CalmGuess(address)
  <2>1. Moves(c, Waiting)  BY <1>14 DEF MutateForAll, Ends, Moves
  <2>2. QuietMove(caller[c], Waiting, address)  BY <1>5, <1>14 DEF MutateForAll, QuietMove
  <2>3. Same(failures[address], failures'[address])
    BY <1>14, OthersSame DEF MutateForAll
  <2>4. QED  BY <1>14, <2>1, <2>2, <2>3, QuietMoves DEF MutateForAll
<1>15. ASSUME NEW c \in Callers, LoseCall(c)
       PROVE  CalmGuess(address)
  BY <1>15, LoseGuess
<1>16. QED
  BY <1>3, <1>4, <1>6, <1>7, <1>8, <1>9, <1>10, <1>11, <1>12, <1>13, <1>14, <1>15 DEF LimitsNext

-----------------------------------------------------------------------------
(* Rate limits: changes *)

\* What an account can have spent of the counter everybody shares, besides what requests
\* that are under way will: in the window that runs now as much as its own counter says,
\* and its whole limit in a window before it if that one met the shared one too.
Share(who) ==
    IF ~Live(mutations[who]) THEN PersonalLimit
    ELSE IF mutations[who].expires < mutations[Installation].expires
         THEN mutations[who].count
         ELSE PersonalLimit + mutations[who].count

SpentOf(who) ==
    Live(mutations[Installation]) =>
        spent[who] + Number("mutate", who) <= Asking + Share(who)

SpentInv == \A who \in Busy : SpentOf(who)

\* These are numbers.
LEMMA SpentTypes ==
    ASSUME LimitsTyped, NEW who \in Busy
    PROVE  /\ tick \in Nat /\ Window \in Nat \ {0} /\ PersonalLimit \in Nat \ {0}
           /\ spent[who] \in Nat /\ Asking \in Nat
           /\ mutations \in [Busy \cup {Installation} -> Counter]
           /\ mutations[who].count \in Nat /\ mutations[who].expires \in Nat
           /\ mutations[Installation].count \in Nat /\ mutations[Installation].expires \in Nat
           /\ mutations[who].count <= PersonalLimit
           /\ mutations[Installation].expires <= tick + Window
           /\ who # Installation
<1>1. tick \in Nat /\ Window \in Nat \ {0} /\ PersonalLimit \in Nat \ {0} /\ who # Installation
  BY LimitsAssumption DEF LimitsTyped
<1>2. spent[who] \in Nat /\ Asking \in Nat  BY NumberType DEF LimitsTyped
<1>3. mutations \in [Busy \cup {Installation} -> Counter]  BY DEF LimitsTyped, AllRun
<1>4. /\ mutations[who].count \in Nat /\ mutations[who].expires \in Nat
      /\ mutations[Installation].count \in Nat /\ mutations[Installation].expires \in Nat
  BY <1>3 DEF Counter
<1>5. Runs(mutations[who], PersonalLimit) /\ Runs(mutations[Installation], GlobalLimit)
  BY LimitsAreNumbers DEF LimitsTyped, AllRun
<1>6. mutations[who].count <= PersonalLimit
  BY <1>1, <1>4, <1>5 DEF Runs, NoCounter
<1>7. mutations[Installation].expires <= tick + Window
  BY <1>1, <1>4, <1>5 DEF Runs, NoCounter
<1>8. QED  BY <1>1, <1>2, <1>3, <1>4, <1>6, <1>7

\* A share is between nothing and twice the limit.
LEMMA ShareBounds ==
    ASSUME LimitsTyped, NEW who \in Busy
    PROVE  Share(who) \in Nat /\ Share(who) <= 2 * PersonalLimit
<1>1. PICK limit \in Nat, count \in Nat :
          limit = PersonalLimit /\ count = mutations[who].count /\ count <= limit
  BY SpentTypes
<1>2. Share(who) \in {limit, count, limit + count}  BY <1>1 DEF Share
<1>3. limit \in Nat /\ count \in Nat /\ count <= limit  BY <1>1
<1>4. \A share \in {limit, count, limit + count} : share \in Nat /\ share <= 2 * limit  BY <1>3
<1>5. QED  BY <1>1, <1>2, <1>4

\* A step that spends no more for an account, nor lets it have more.
CalmSpent(who) ==
    /\ tick' = tick
    /\ Live(mutations[Installation])' =>
          /\ Live(mutations[Installation])
          /\ mutations'[Installation].expires = mutations[Installation].expires
    /\ Same(mutations[who], mutations'[who])
    /\ Live(mutations[Installation]) =>
          spent'[who] + Number("mutate", who)' <= spent[who] + Number("mutate", who)

\* It keeps the account of what is spent.
LEMMA CalmSpentKeeps ==
    ASSUME LimitsTyped, LimitsTyped', NEW who \in Busy, SpentOf(who), CalmSpent(who)
    PROVE  SpentOf(who)'
<1> SUFFICES ASSUME Live(mutations[Installation])'
             PROVE  (spent[who] + Number("mutate", who) <= Asking + Share(who))'
  BY DEF SpentOf
<1>1. Live(mutations[Installation])
      /\ mutations'[Installation].expires = mutations[Installation].expires
      /\ tick' = tick /\ Same(mutations[who], mutations'[who])
  BY DEF CalmSpent
<1>2. Share(who)' = Share(who)
  BY <1>1 DEF Same, Share, Live
<1>3. PICK was \in Nat, is \in Nat, most \in Nat :
          /\ was = spent[who] + Number("mutate", who)
          /\ is = (spent[who] + Number("mutate", who))'
          /\ most = Asking + Share(who)
  <2>1. PICK s \in Nat, n \in Nat, k \in Nat, a \in Nat :
            s = spent[who] /\ n = Number("mutate", who) /\ k = Share(who) /\ a = Asking
    BY SpentTypes, ShareBounds, NumberType
  <2>2. PICK t \in Nat, m \in Nat : t = spent'[who] /\ m = Number("mutate", who)'
    BY NumberAfter DEF LimitsTyped
  <2>3. s \in Nat /\ n \in Nat /\ k \in Nat /\ a \in Nat /\ t \in Nat /\ m \in Nat  BY <2>1, <2>2
  <2>4. s + n \in Nat /\ t + m \in Nat /\ a + k \in Nat  BY <2>3
  <2>5. QED  BY <2>1, <2>2, <2>4
<1>4. is <= was /\ was <= most  BY <1>1, <1>3 DEF CalmSpent, SpentOf
<1>5. is \in Nat /\ was \in Nat /\ most \in Nat  BY <1>3
<1>6. is <= most  BY <1>4, <1>5
<1>7. Asking' = Asking  BY DEF Asking
<1>8. QED  BY <1>2, <1>3, <1>6, <1>7

\* Time passes: a window that ends had its whole limit at most.
LEMMA TickSpent ==
    ASSUME LimitsTyped, NEW who \in Busy, SpentOf(who), Tick
    PROVE  SpentOf(who)'
<1> SUFFICES ASSUME Live(mutations[Installation])'
             PROVE  (spent[who] + Number("mutate", who) <= Asking + Share(who))'
  BY DEF SpentOf
<1>1. PICK now \in Nat, count \in Nat, end \in Nat, last \in Nat, limit \in Nat :
          /\ now = tick /\ count = mutations[who].count /\ end = mutations[who].expires
          /\ last = mutations[Installation].expires /\ limit = PersonalLimit /\ count <= limit
  BY SpentTypes
<1>2. /\ tick' = now + 1 /\ mutations' = mutations /\ spent' = spent /\ Asking' = Asking
      /\ Number("mutate", who)' = Number("mutate", who)
  BY <1>1 DEF Tick, Number, Those, Asking
<1>3. now \in Nat /\ count \in Nat /\ end \in Nat /\ last \in Nat /\ limit \in Nat
      /\ count <= limit /\ last > now + 1
  BY <1>1, <1>2 DEF Live
<1>4. last > now  BY <1>3
<1>5. Share(who) = (IF ~(end > now) THEN limit ELSE IF end < last THEN count ELSE limit + count)
  BY <1>1 DEF Share, Live
<1>6. Share(who)'
      = (IF ~(end > now + 1) THEN limit ELSE IF end < last THEN count ELSE limit + count)
  BY <1>1, <1>2 DEF Share, Live
<1>7. PICK less \in Nat, more \in Nat :
          less = Share(who) /\ more = Share(who)' /\ less <= more
  <2> DEFINE A == IF ~(end > now) THEN limit ELSE IF end < last THEN count ELSE limit + count
             B == IF ~(end > now + 1) THEN limit ELSE IF end < last THEN count ELSE limit + count
  <2>1. A \in Nat /\ B \in Nat /\ A <= B  BY <1>3
  <2>2. QED  BY <1>5, <1>6, <2>1
<1>8. PICK s \in Nat, n \in Nat, a \in Nat :
          s = spent[who] /\ n = Number("mutate", who) /\ a = Asking
  BY SpentTypes, NumberType
<1>9. s + n <= a + less  BY <1>1, <1>4, <1>7, <1>8 DEF SpentOf, Live
<1>10. s \in Nat /\ n \in Nat /\ a \in Nat /\ less \in Nat /\ more \in Nat /\ less <= more
  BY <1>7, <1>8
<1>11. s + n <= a + more  BY <1>9, <1>10
<1>12. QED  BY <1>2, <1>7, <1>8, <1>11

\* It is still one after a step.
LEMMA ShareAfter ==
    ASSUME LimitsTyped', NEW who \in Busy
    PROVE  Share(who)' \in Nat
<1>1. mutations' \in [Busy \cup {Installation} -> Counter]  BY DEF LimitsTyped, AllRun
<1>2. PICK limit \in Nat, count \in Nat : limit = PersonalLimit /\ count = mutations'[who].count
  BY <1>1, LimitsAssumption DEF Counter
<1>3. limit \in Nat /\ count \in Nat  BY <1>2
<1>4. limit + count \in Nat  BY <1>3
<1>5. Share(who)' \in {limit, count, limit + count}  BY <1>2 DEF Share
<1>6. QED  BY <1>3, <1>4, <1>5

\* The shared charge: who was to be charged now is.
LEMMA SharedSpent ==
    ASSUME LimitsTyped, LimitsTyped', NEW who \in Busy, SpentOf(who),
           NEW c \in Callers, MutateForAll(c)
    PROVE  SpentOf(who)'
<1>1. caller[c].at = "mutate" /\ caller[c].key \in Busy  BY CallKinds DEF MutateForAll
<1>2. Moves(c, Waiting) /\ ~IsAt(Waiting, "mutate", who)
  BY DEF MutateForAll, Ends, Moves, Waiting, IsAt
<1>3. PICK was \in Nat, is \in Nat :
          /\ was = Number("mutate", who) /\ is = Number("mutate", who)'
          /\ is = IF caller[c].key = who THEN was - 1 ELSE was
  <2>1. PICK was \in Nat, is \in Nat :
            /\ was = Number("mutate", who) /\ is = Number("mutate", who)'
            /\ Moved(was, is, caller[c], Waiting, "mutate", who)
    BY <1>2, MoveCounts
  <2>2. is = IF caller[c].key = who THEN was - 1 ELSE was
    BY <1>1, <1>2, <2>1 DEF Moved, IsAt
  <2>3. QED  BY <2>1, <2>2
<1>4. PICK s \in Nat, t \in Nat : s = spent[who] /\ t = spent'[who]
  BY DEF LimitsTyped
<1>5. was \in Nat /\ is \in Nat /\ s \in Nat /\ t \in Nat  BY <1>3, <1>4
<1>6. CASE Live(mutations[Installation])
  <2>1. tick \in Nat /\ mutations \in [Busy \cup {Installation} -> Counter]
        /\ who \in Busy \cup {Installation} /\ Installation \in Busy \cup {Installation}
        /\ who # Installation
    BY SpentTypes
  <2>2. mutations' = Charged(mutations, Installation, GlobalLimit) /\ tick' = tick
    BY DEF MutateForAll, ChargeMutation
  <2>3. Same(mutations[who], mutations'[who])  BY <2>1, <2>2, ChargedSame
  <2>4. mutations'[Installation].expires = mutations[Installation].expires
    <3>1. Charges(mutations', mutations, Installation, GlobalLimit)
      BY <2>1, <2>2, ChargedCounter
    <3>2. QED  BY <1>6, <3>1 DEF Charges
  <2>5. t = (IF caller[c].key = who THEN s + 1 ELSE s) \/ t = s
    BY <1>1, <1>4, <1>6 DEF MutateForAll, LimitsTyped
  <2>6. t + is <= s + was
    <3>1. CASE caller[c].key = who
      <4>1. is = was - 1 /\ (t = s + 1 \/ t = s)  BY <1>3, <2>5, <3>1
      <4>2. QED  BY <1>5, <4>1
    <3>2. CASE caller[c].key # who
      <4>1. is = was /\ t = s  BY <1>3, <2>5, <3>2
      <4>2. QED  BY <1>5, <4>1
    <3>3. QED  BY <3>1, <3>2
  <2>7. CalmSpent(who)
    BY <1>3, <1>4, <1>6, <2>2, <2>3, <2>4, <2>6 DEF CalmSpent
  <2>8. QED  BY <2>7, CalmSpentKeeps
<1>7. CASE ~Live(mutations[Installation])
  <2>1. t = IF caller[c].key = who THEN 1 ELSE 0
    BY <1>1, <1>4, <1>7 DEF MutateForAll
  <2>2. PICK a \in Nat, share \in Nat : a = Asking /\ share = Share(who)' /\ was <= a
    BY <1>3, NumberType, ShareAfter
  <2>3. t + is <= a + share
    <3>1. a \in Nat /\ share \in Nat /\ was <= a  BY <2>2
    <3>2. CASE caller[c].key = who
      <4>1. is = was - 1 /\ t = 1  BY <1>3, <2>1, <3>2
      <4>2. QED  BY <1>5, <3>1, <4>1
    <3>3. CASE caller[c].key # who
      <4>1. is = was /\ t = 0  BY <1>3, <2>1, <3>3
      <4>2. QED  BY <1>5, <3>1, <4>1
    <3>4. QED  BY <3>2, <3>3
  <2>4. Asking' = Asking  BY DEF Asking
  <2>5. QED  BY <1>3, <1>4, <2>2, <2>3, <2>4 DEF SpentOf
<1>8. QED  BY <1>6, <1>7

\* The personal charge: one more request is to be charged for all, and one more is counted.
\* A window that begins now does not end before the shared one.
LEMMA PersonalSpent ==
    ASSUME LimitsTyped, LimitsTyped', NEW who \in Busy, SpentOf(who),
           NEW c \in Callers, Mutate(c, who), ~Reached(mutations[who], PersonalLimit)
    PROVE  SpentOf(who)'
<1> SUFFICES ASSUME Live(mutations[Installation])'
             PROVE  (spent[who] + Number("mutate", who) <= Asking + Share(who))'
  BY DEF SpentOf
<1>1. Moves(c, [at |-> "mutate", key |-> who]) /\ caller[c] = Waiting
  BY DEF Mutate, Consumed, Moves
<1>2. PICK was \in Nat, is \in Nat :
          was = Number("mutate", who) /\ is = Number("mutate", who)' /\ is = was + 1
  <2>1. PICK was \in Nat, is \in Nat :
            /\ was = Number("mutate", who) /\ is = Number("mutate", who)'
            /\ Moved(was, is, caller[c], [at |-> "mutate", key |-> who], "mutate", who)
    BY <1>1, MoveCounts
  <2>2. ~IsAt(caller[c], "mutate", who)
        /\ IsAt([at |-> "mutate", key |-> who], "mutate", who)
    BY <1>1 DEF Waiting, IsAt
  <2>3. QED  BY <2>1, <2>2 DEF Moved
<1>3. tick \in Nat /\ mutations \in [Busy \cup {Installation} -> Counter]
      /\ who \in Busy \cup {Installation} /\ Installation \in Busy \cup {Installation}
      /\ who # Installation
  BY SpentTypes
<1>4. mutations' = Charged(mutations, who, PersonalLimit) /\ tick' = tick /\ spent' = spent
  BY DEF Mutate, ChargeMutation
<1>5. Charges(mutations', mutations, who, PersonalLimit)  BY <1>3, <1>4, ChargedCounter
<1>6. Same(mutations[Installation], mutations'[Installation])  BY <1>3, <1>4, ChargedSame
<1>7. Live(mutations[Installation]) /\ mutations'[Installation] = mutations[Installation]
  BY <1>4, <1>6 DEF Same, Live
<1>8. PICK now \in Nat, window \in Nat, count \in Nat, last \in Nat, limit \in Nat :
          /\ now = tick /\ window = Window /\ count = mutations[who].count
          /\ last = mutations[Installation].expires /\ limit = PersonalLimit
          /\ last <= now + window
  BY SpentTypes
<1>9. now \in Nat /\ window \in Nat /\ count \in Nat /\ last \in Nat /\ limit \in Nat
      /\ last <= now + window /\ last > now
  BY <1>7, <1>8 DEF Live
<1>10. Share(who)' = Share(who) + 1
  <2>1. CASE ~Live(mutations[who])
    <3>1. mutations'[who] = [count |-> 1, expires |-> now + window]
      BY <1>5, <1>8, <2>1 DEF Charges
    <3>2. ~(now + window < last) /\ now + window > now  BY <1>9
    <3>3. Share(who)' = limit + 1
      BY <1>4, <1>7, <1>8, <3>1, <3>2 DEF Share, Live
    <3>4. Share(who) = limit  BY <1>8, <2>1 DEF Share
    <3>5. QED  BY <3>3, <3>4
  <2>2. CASE Live(mutations[who])
    <3>1. count < limit  BY <1>8, <2>2 DEF Reached
    <3>2. mutations'[who] = [count |-> count + 1, expires |-> mutations[who].expires]
      BY <1>5, <1>8, <2>2, <3>1 DEF Charges
    <3>3. Live(mutations[who])'  BY <1>4, <2>2, <3>2 DEF Live
    <3>4. Share(who) = IF mutations[who].expires < last THEN count ELSE limit + count
      BY <1>8, <2>2 DEF Share
    <3>5. Share(who)' = IF mutations[who].expires < last THEN count + 1 ELSE limit + (count + 1)
      BY <1>7, <1>8, <3>2, <3>3 DEF Share
    <3>6. limit + (count + 1) = (limit + count) + 1  BY <1>9
    <3>7. QED  BY <3>4, <3>5, <3>6
  <2>3. QED  BY <2>1, <2>2
<1>11. PICK s \in Nat, a \in Nat, share \in Nat :
           s = spent[who] /\ a = Asking /\ share = Share(who)
  BY SpentTypes, ShareBounds
<1>12. s + was <= a + share  BY <1>2, <1>7, <1>11 DEF SpentOf
<1>13. s \in Nat /\ a \in Nat /\ share \in Nat /\ was \in Nat /\ is = was + 1  BY <1>2, <1>11
<1>14. s + is <= a + (share + 1)  BY <1>12, <1>13
<1>15. Asking' = Asking  BY DEF Asking
<1>16. QED  BY <1>2, <1>4, <1>10, <1>11, <1>14, <1>15

\* Every step accounts for what is spent.
LEMMA SpentStep ==
    LimitsTyped /\ LimitsTyped' /\ SpentInv /\ [LimitsNext]_limitVars => SpentInv'
<1> SUFFICES ASSUME LimitsTyped, LimitsTyped', SpentInv, [LimitsNext]_limitVars,
                    NEW who \in Busy
             PROVE  SpentOf(who)'
  BY DEF SpentInv
<1>1. SpentOf(who)  BY DEF SpentInv
<1>2. SUFFICES ASSUME ~SpentOf(who)' PROVE CalmSpent(who)
  BY <1>1, CalmSpentKeeps
<1>3. PICK s \in Nat : s = spent[who]  BY SpentTypes
<1>4. /\ tick \in Nat /\ mutations \in [Busy \cup {Installation} -> Counter]
      /\ who \in Busy \cup {Installation} /\ who # Installation
      /\ DOMAIN mutations = Busy \cup {Installation}
  BY SpentTypes
<1>5. ASSUME NEW c \in Callers, NEW now, Moves(c, now), ~IsAt(now, "mutate", who),
             tick' = tick, spent' = spent,
             Same(mutations[who], mutations'[who]),
             Same(mutations[Installation], mutations'[Installation])
      PROVE  CalmSpent(who)
  <2>1. PICK was \in Nat, is \in Nat :
            /\ was = Number("mutate", who) /\ is = Number("mutate", who)'
            /\ Moved(was, is, caller[c], now, "mutate", who)
    BY <1>5, MoveCounts
  <2>2. is = was - 1 \/ is = was  BY <1>5, <2>1 DEF Moved
  <2>3. s \in Nat /\ was \in Nat /\ is \in Nat  BY <1>3, <2>1
  <2>4. s + is <= s + was  BY <2>2, <2>3
  <2>5. Live(mutations[Installation])' =>
           /\ Live(mutations[Installation])
           /\ mutations'[Installation].expires = mutations[Installation].expires
    BY <1>5 DEF Same, Live
  <2>6. QED  BY <1>3, <1>5, <2>1, <2>4, <2>5 DEF CalmSpent
<1>6. /\ UNCHANGED mutations =>
            /\ Same(mutations[who], mutations'[who])
            /\ Same(mutations[Installation], mutations'[Installation])
      /\ mutations' = Swept(mutations) =>
            /\ Same(mutations[who], mutations'[who])
            /\ Same(mutations[Installation], mutations'[Installation])
  BY <1>4, UnchangedSame, SweptSame
<1>7. ~IsAt(Waiting, "mutate", who) /\ "mutate" \notin Signing /\ Waiting.at = "idle"
  BY DEF Waiting, IsAt, Signing
<1>8. CASE UNCHANGED limitVars
  <2>1. SpentOf(who)' = SpentOf(who)
    BY <1>8 DEF limitVars, SpentOf, Live, Share, Number, Those, Asking
  <2>2. QED  BY <1>1, <1>2, <2>1
<1>9. CASE Tick
  BY <1>1, <1>2, <1>9, TickSpent
<1>10. ASSUME NEW c \in Callers, NEW address \in Addresses, SignIn(c, address)
       PROVE  CalmSpent(who)
  <2>1. PICK now : Moves(c, now) /\ now \in {Waiting, [at |-> "own", key |-> address]}
    BY <1>10 DEF SignIn, Moves
  <2>2. ~IsAt(now, "mutate", who)
    <3>1. ~IsAt([at |-> "own", key |-> address], "mutate", who)  BY DEF IsAt
    <3>2. QED  BY <1>7, <2>1, <3>1
  <2>3. QED  BY <1>5, <1>6, <1>10, <2>1, <2>2 DEF SignIn
<1>11. ASSUME NEW c \in Callers, NEW other \in Busy, Mutate(c, other)
       PROVE  CalmSpent(who)
  <2>1. CASE other = who
    <3>1. Reached(mutations[who], PersonalLimit)
      BY <1>1, <1>2, <1>11, <2>1, PersonalSpent
    <3>2. Moves(c, Waiting)  BY <1>11, <2>1, <3>1 DEF Mutate, Consumed, Moves
    <3>3. mutations' = Charged(mutations, who, PersonalLimit)
      BY <1>11, <2>1 DEF Mutate, ChargeMutation
    <3>4. Charges(mutations', mutations, who, PersonalLimit)  BY <1>4, <3>3, ChargedCounter
    <3>5. Same(mutations[Installation], mutations'[Installation])
      BY <1>4, <3>3, ChargedSame
    <3>6. Same(mutations[who], mutations'[who])
      <4>1. Live(mutations[who]) /\ mutations[who].count >= PersonalLimit
        BY <3>1 DEF Reached
      <4>2. ~(mutations[who].count < PersonalLimit)
        BY <4>1, SpentTypes
      <4>3. QED  BY <3>4, <4>1, <4>2 DEF Charges, Same
    <3>7. QED  BY <1>5, <1>7, <1>11, <3>2, <3>5, <3>6 DEF Mutate
  <2>2. CASE other # who
    <3>1. PICK now : Moves(c, now) /\ now \in {Waiting, [at |-> "mutate", key |-> other]}
      BY <1>11 DEF Mutate, Moves
    <3>2. ~IsAt(now, "mutate", who)
      <4>1. ~IsAt([at |-> "mutate", key |-> other], "mutate", who)  BY <2>2 DEF IsAt
      <4>2. QED  BY <1>7, <3>1, <4>1
    <3>3. mutations' = Charged(mutations, other, PersonalLimit) /\ other # Installation
          /\ other \in Busy \cup {Installation}
      BY <1>11, SpentTypes DEF Mutate, ChargeMutation
    <3>4. Same(mutations[who], mutations'[who])
          /\ Same(mutations[Installation], mutations'[Installation])
      BY <1>4, <2>2, <3>3, ChargedSame
    <3>5. QED  BY <1>5, <1>11, <3>1, <3>2, <3>4 DEF Mutate
  <2>3. QED  BY <2>1, <2>2
<1>12. ASSUME NEW c \in Callers, NEW stage \in Signing, caller[c].at \in Signing,
              Ends(c) \/ Goes(c, stage), tick' = tick, spent' = spent,
              UNCHANGED mutations \/ mutations' = Swept(mutations)
       PROVE  CalmSpent(who)
  <2>1. PICK now : Moves(c, now) /\ now \in {Waiting, [at |-> stage, key |-> caller[c].key]}
    BY <1>12, SignInGoesOn DEF Ends, Moves
  <2>2. ~IsAt(now, "mutate", who)
    <3>1. ~IsAt([at |-> stage, key |-> caller[c].key], "mutate", who)
      BY <1>7, <1>12 DEF IsAt
    <3>2. QED  BY <1>7, <2>1, <3>1
  <2>3. QED  BY <1>5, <1>6, <1>12, <2>1, <2>2
<1>13. /\ "own" \in Signing /\ "password" \in Signing /\ "charge own" \in Signing
       /\ "charge all" \in Signing /\ "clear" \in Signing
  BY DEF Signing
<1>14. ASSUME NEW c \in Callers, ReadOwn(c) PROVE CalmSpent(who)
  BY <1>12, <1>13, <1>14 DEF ReadOwn
<1>15. ASSUME NEW c \in Callers, AnswerWrong(c) PROVE CalmSpent(who)
  BY <1>12, <1>13, <1>15 DEF AnswerWrong
<1>16. ASSUME NEW c \in Callers, ChargeOwn(c) PROVE CalmSpent(who)
  BY <1>12, <1>13, <1>16 DEF ChargeOwn, ChargeFailure
<1>17. ASSUME NEW c \in Callers, ChargeAll(c) PROVE CalmSpent(who)
  BY <1>12, <1>13, <1>17 DEF ChargeAll, ChargeFailure
<1>18. ASSUME NEW c \in Callers, AnswerRight(c) PROVE CalmSpent(who)
  BY <1>12, <1>13, <1>18 DEF AnswerRight
<1>19. ASSUME NEW c \in Callers, Clear(c) PROVE CalmSpent(who)
  BY <1>12, <1>13, <1>19 DEF Clear
<1>20. ASSUME NEW c \in Callers, MutateForAll(c) PROVE CalmSpent(who)
  BY <1>1, <1>2, <1>20, SharedSpent
<1>21. ASSUME NEW c \in Callers, LoseCall(c) PROVE CalmSpent(who)
  <2>1. Moves(c, Waiting)  BY <1>21 DEF LoseCall, Ends, Moves
  <2>2. QED  BY <1>5, <1>6, <1>7, <1>21, <2>1 DEF LoseCall
<1>22. QED
  BY <1>8, <1>9, <1>10, <1>11, <1>14, <1>15, <1>16, <1>17, <1>18, <1>19, <1>20, <1>21
  DEF LimitsNext

-----------------------------------------------------------------------------
(* Rate limits: what holds *)

\* Nothing is counted at first.
LEMMA LimitsBegin ==
    LimitsInit => GuessInv /\ SpentInv
<1> SUFFICES ASSUME LimitsInit PROVE GuessInv /\ SpentInv
  OBVIOUS
<1>1. LimitsTyped  BY LimitsBeginTyped
<1>2. ~Live(NoCounter)  BY <1>1 DEF Live, NoCounter, LimitsTyped
<1>3. ASSUME NEW address \in Addresses PROVE GuessesOf(address)
  <2>1. ~Live(failures[address]) /\ wrong[address][tick] = 0
    BY <1>1, <1>2 DEF LimitsInit, LimitsTyped
  <2>2. PICK own \in Nat, gone \in Nat : own = Number("charge own", address) /\ gone = lost
    BY <1>1, NumberType DEF LimitsTyped
  <2>3. own \in Nat /\ gone \in Nat  BY <2>2
  <2>4. 0 <= own + gone  BY <2>3
  <2>5. QED  BY <2>1, <2>2, <2>4 DEF GuessesOf
<1>4. ~Live(mutations[Installation])  BY <1>2 DEF LimitsInit
<1>5. QED  BY <1>3, <1>4 DEF GuessInv, SpentInv, SpentOf

\* What is accounted for is within the limits.
LEMMA LimitsFollow ==
    LimitsTyped /\ GuessInv /\ SpentInv => LimitsHold
<1> SUFFICES ASSUME LimitsTyped, GuessInv, SpentInv PROVE LimitsHold
  OBVIOUS
<1>1. GuessesAreBounded
  <2> SUFFICES ASSUME NEW address \in Addresses, Live(failures[address])
               PROVE  GuessesSince(address) <= FailureLimit + Asking - 1 + lost
    BY DEF GuessesAreBounded, GuessesSince, Begun
  <2>1. PICK own \in Nat, answering \in Nat :
            own = Number("charge own", address) /\ answering = Number("password", address)
    BY NumberType
  <2>2. PICK gone \in Nat, asking \in Nat, limit \in Nat :
            gone = lost /\ asking = Asking /\ limit = FailureLimit
    BY GuessTypes
  <2>3. PICK guesses \in Nat, count \in Nat :
            guesses = GuessesSince(address) /\ count = failures[address].count
    BY GuessTypes
  <2>4. count <= limit  BY <2>2, <2>3, GuessTypes
  <2>5. own <= asking  BY <2>1, <2>2, NumberType
  <2>6. own \in Nat /\ answering \in Nat /\ gone \in Nat /\ asking \in Nat /\ limit \in Nat
        /\ guesses \in Nat /\ count \in Nat
    BY <2>1, <2>2, <2>3
  <2>7. GuessesOf(address)  BY DEF GuessInv
  <2>8. guesses <= limit + asking - 1 + gone
    <3>1. CASE count < limit
      <4>1. guesses <= count + own + gone  BY <2>1, <2>2, <2>3, <2>7, <3>1 DEF GuessesOf
      <4>2. QED  BY <2>5, <2>6, <3>1, <4>1
    <3>2. CASE count = limit
      <4>1. guesses + answering <= limit + asking - 1 + gone
        BY <2>1, <2>2, <2>3, <2>7, <3>2 DEF GuessesOf
      <4>2. QED  BY <2>6, <4>1
    <3>3. QED  BY <2>4, <2>6, <3>1, <3>2
  <2>9. QED  BY <2>2, <2>3, <2>8
<1>2. NobodySpendsForAll
  <2> SUFFICES ASSUME Live(mutations[Installation]), NEW who \in Busy
               PROVE  spent[who] <= 2 * PersonalLimit + Asking
    BY DEF NobodySpendsForAll
  <2>1. PICK s \in Nat, n \in Nat, a \in Nat, limit \in Nat, share \in Nat :
            /\ s = spent[who] /\ n = Number("mutate", who) /\ a = Asking
            /\ limit = PersonalLimit /\ share = Share(who) /\ share <= 2 * limit
    BY SpentTypes, NumberType, ShareBounds
  <2>2. s + n <= a + share  BY <2>1 DEF SpentInv, SpentOf
  <2>3. s \in Nat /\ n \in Nat /\ a \in Nat /\ limit \in Nat /\ share \in Nat /\ share <= 2 * limit
    BY <2>1
  <2>4. s <= 2 * limit + a  BY <2>2, <2>3
  <2>5. QED  BY <2>1, <2>4
<1>3. QED  BY <1>1, <1>2 DEF LimitsHold

\* What is asked of an address stays within its limit but for what was already on its way,
\* and nobody spends for all: see GuessesAreBounded and NobodySpendsForAll.
THEOREM LimitsAlwaysHold == LimitsSpec => []LimitsHold
<1>1. LimitsInit => LimitsTyped /\ GuessInv /\ SpentInv  BY LimitsBeginTyped, LimitsBegin
<1>2. LimitsTyped /\ GuessInv /\ SpentInv /\ [LimitsNext]_limitVars
      => LimitsTyped' /\ GuessInv' /\ SpentInv'
  BY LimitsStayTyped, GuessStep, SpentStep
<1>3. LimitsTyped /\ GuessInv /\ SpentInv => LimitsHold  BY LimitsFollow
<1>4. QED  BY <1>1, <1>2, <1>3, PTL DEF LimitsSpec
=============================================================================
