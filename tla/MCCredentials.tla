---------------------------- MODULE MCCredentials ----------------------------
EXTENDS Credentials, RateLimit, TLC

CONSTANTS a1, a2, t1, t2, s1, p1, p2, r1, r2, k1, b1, b2, c1, c2

TwoAccounts == {a1, a2}
OneToken == {t1}
TwoTokens == {t1, t2}
OneSession == {s1}
TwoPasswords == {p1, p2}
TwoRequests == {r1, r2}
OneAddress == {k1}
TwoBusy == {b1, b2}
TwoCallers == {c1, c2}

(* The counters and the accounts share nothing: each moves while the other stands *)
(* at its start. The two kinds of counters are used one at a time as well.        *)
Untouched(counters) == \A key \in DOMAIN counters : counters[key] = NoCounter
NoCalls == tick = 1 /\ lost = 0 /\ Untouched(failures) /\ Untouched(mutations)
           /\ \A c \in Callers : caller[c] = Waiting
NoAccounts == \A a \in Accounts : account[a] = "none"
AccountsInit == Init /\ LimitsInit
AccountsSpec ==
    /\ AccountsInit
    /\ [][ \/ NoCalls /\ Next /\ UNCHANGED limitVars
           \/ NoAccounts /\ LimitsNext /\ UNCHANGED vars ]_<<vars, limitVars>>
SigningOnly == Untouched(mutations) /\ \A c \in Callers : caller[c].at # "mutate"
ChangingOnly == Untouched(failures) /\ \A c \in Callers : caller[c].at \in {"idle", "mutate"}
OneCounter == SigningOnly \/ ChangingOnly

Symmetry == Permutations(Requests) \cup Permutations(Sessions) \cup Permutations(Tokens)
            \cup Permutations(Accounts)
=============================================================================
