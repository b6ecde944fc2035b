------------------------------ MODULE RateLimit ------------------------------
(***************************************************************************)
(* The counters in app.rate_limit and the two ways they are used.  A       *)
(* sign-in reads two counters, lets the password be checked, and charges    *)
(* them only for a wrong one, each of these in a transaction of its own.  A *)
(* change to the library is charged before it is made, to the person first  *)
(* and then to the installation.  A counter runs for a fixed window from    *)
(* its first charge.                                                        *)
(***************************************************************************)
EXTENDS Naturals, FiniteSets

CONSTANTS
    Addresses,      \* what people sign in as
    Busy,           \* accounts that change things
    Callers,        \* requests under way at once
    Installation,   \* the key of a counter everybody shares
    FailureLimit, GlobalFailureLimit, PersonalLimit, GlobalLimit,
    Window,         \* how many ticks a counter runs
    MaxTick,        \* the last moment
    MaxLost         \* charges that fail

ASSUME LimitsAssumption ==
    /\ {FailureLimit, GlobalFailureLimit, PersonalLimit, GlobalLimit, Window} \subseteq Nat \ {0}
    /\ MaxTick \in Nat \ {0} /\ MaxLost \in Nat
    /\ Installation \notin Addresses \cup Busy
    /\ IsFiniteSet(Callers)

VARIABLES
    tick,
    failures,   \* the counters of wrong answers, by address
    mutations,  \* the counters of changes, by account
    caller,     \* how far each request has come
    wrong,      \* ghost: when each address had wrong answers since its counter was cleared
    lost,       \* ghost: charges that failed
    spent       \* ghost: what each account has of the shared counter of changes

limitVars == <<tick, failures, mutations, caller, wrong, lost, spent>>

NoCounter == [count |-> 0, expires |-> 0]
Waiting == [at |-> "idle"]

LimitsInit ==
    /\ tick = 1
    /\ failures = [key \in Addresses \cup {Installation} |-> NoCounter]
    /\ mutations = [key \in Busy \cup {Installation} |-> NoCounter]
    /\ caller = [c \in Callers |-> Waiting]
    /\ wrong = [address \in Addresses |-> [t \in 1..MaxTick |-> 0]]
    /\ lost = 0
    /\ spent = [account \in Busy |-> 0]

-----------------------------------------------------------------------------
(* The table *)

Live(counter) == counter.expires > tick

\* Mutant: the counter may pass its limit before it stops anybody.
ReachedLate(counter, limit) == Live(counter) /\ counter.count > limit

Reached(counter, limit) == Live(counter) /\ counter.count >= limit

Swept(counters) == [key \in DOMAIN counters |-> IF Live(counters[key]) THEN counters[key] ELSE NoCounter]

\* What consumeRateLimit leaves: nothing that has expired, and one more, up to the limit.
Charged(counters, key, limit) ==
    LET kept == Swept(counters)
    IN IF kept[key] = NoCounter
       THEN [kept EXCEPT ![key] = [count |-> 1, expires |-> tick + Window]]
       ELSE IF kept[key].count < limit THEN [kept EXCEPT ![key].count = @ + 1] ELSE kept

Consumed(counters, key, limit) == ~Reached(counters[key], limit)

\* The statement that removes what has expired does so for every key.
ChargeFailure(key, limit) ==
    /\ failures' = Charged(failures, key, limit)
    /\ mutations' = Swept(mutations)

ChargeMutation(key, limit) ==
    /\ mutations' = Charged(mutations, key, limit)
    /\ failures' = Swept(failures)

Ends(c) == caller' = [caller EXCEPT ![c] = Waiting]
Goes(c, stage) == caller' = [caller EXCEPT ![c].at = stage]

-----------------------------------------------------------------------------
(* Signing in *)

SignIn(c, address) ==
    /\ caller[c] = Waiting
    /\ caller' = [caller EXCEPT ![c] =
           IF Reached(failures[Installation], GlobalFailureLimit) THEN Waiting
           ELSE [at |-> "own", key |-> address]]
    /\ UNCHANGED <<tick, failures, mutations, wrong, lost, spent>>

ReadOwn(c) ==
    /\ caller[c].at = "own"
    /\ IF Reached(failures[caller[c].key], FailureLimit) THEN Ends(c) ELSE Goes(c, "password")
    /\ UNCHANGED <<tick, failures, mutations, wrong, lost, spent>>

AnswerWrong(c) ==
    /\ caller[c].at = "password"
    /\ wrong' = [wrong EXCEPT ![caller[c].key][tick] = @ + 1]
    /\ Goes(c, "charge own")
    /\ UNCHANGED <<tick, failures, mutations, lost, spent>>

ChargeOwn(c) ==
    /\ caller[c].at = "charge own"
    /\ ChargeFailure(caller[c].key, FailureLimit)
    /\ Goes(c, "charge all")
    /\ UNCHANGED <<tick, wrong, lost, spent>>

ChargeAll(c) ==
    /\ caller[c].at = "charge all"
    /\ ChargeFailure(Installation, GlobalFailureLimit)
    /\ Ends(c)
    /\ UNCHANGED <<tick, wrong, lost, spent>>

AnswerRight(c) ==
    /\ caller[c].at = "password"
    /\ Goes(c, "clear")
    /\ UNCHANGED <<tick, failures, mutations, wrong, lost, spent>>

Clear(c) ==
    /\ caller[c].at = "clear"
    /\ failures' = [failures EXCEPT ![caller[c].key] = NoCounter]
    /\ wrong' = [wrong EXCEPT ![caller[c].key] = [t \in 1..MaxTick |-> 0]]
    /\ Ends(c)
    /\ UNCHANGED <<tick, mutations, lost, spent>>

-----------------------------------------------------------------------------
(* Changing something: enforceMutationLimits *)

\* Mutant: the installation is charged first, and the personal limit after it.
MutateSharedFirst(c, account) ==
    /\ caller[c] = Waiting
    /\ ChargeMutation(Installation, GlobalLimit)
    /\ spent' = [spent EXCEPT ![account] = IF Consumed(mutations, Installation, GlobalLimit)
                                           THEN @ + 1 ELSE @]
    /\ UNCHANGED <<tick, caller, wrong, lost>>

Mutate(c, account) ==
    /\ caller[c] = Waiting
    /\ ChargeMutation(account, PersonalLimit)
    /\ caller' = [caller EXCEPT ![c] = IF Consumed(mutations, account, PersonalLimit)
                                       THEN [at |-> "mutate", key |-> account] ELSE Waiting]
    /\ UNCHANGED <<tick, wrong, lost, spent>>

MutateForAll(c) ==
    /\ caller[c].at = "mutate"
    /\ ChargeMutation(Installation, GlobalLimit)
    /\ spent' = IF ~Live(mutations[Installation])
                THEN [account \in Busy |-> IF account = caller[c].key THEN 1 ELSE 0]
                ELSE IF Consumed(mutations, Installation, GlobalLimit)
                     THEN [spent EXCEPT ![caller[c].key] = @ + 1]
                     ELSE spent
    /\ Ends(c)
    /\ UNCHANGED <<tick, wrong, lost>>

-----------------------------------------------------------------------------
(* A statement fails and ends its request, or time passes *)

LoseCall(c) ==
    /\ caller[c] # Waiting
    /\ lost < MaxLost
    /\ lost' = lost + 1
    /\ Ends(c)
    /\ UNCHANGED <<tick, failures, mutations, wrong, spent>>

Tick ==
    /\ tick < MaxTick
    /\ tick' = tick + 1
    /\ UNCHANGED <<failures, mutations, caller, wrong, lost, spent>>

LimitsNext ==
    \/ Tick
    \/ \E c \in Callers :
           \/ \E address \in Addresses : SignIn(c, address)
           \/ \E account \in Busy : Mutate(c, account)
           \/ ReadOwn(c) \/ AnswerWrong(c) \/ ChargeOwn(c) \/ ChargeAll(c)
           \/ AnswerRight(c) \/ Clear(c) \/ MutateForAll(c) \/ LoseCall(c)

LimitsSpec == LimitsInit /\ [][LimitsNext]_limitVars

-----------------------------------------------------------------------------
(* Properties *)

Asking == Cardinality(Callers)

\* How many there were from one moment to another.
Counted(at, first, last) ==
    LET total[t \in 0 .. last] == IF t = 0 THEN 0
                                  ELSE IF t < first THEN total[t - 1] ELSE total[t - 1] + at[t]
    IN  total[last]

\* While a counter runs, the wrong answers for its address are at most its limit and
\* what was already past the reading: one for each other request under way, and one
\* for each charge that failed.
GuessesAreBounded ==
    \A address \in Addresses :
        Live(failures[address]) =>
            LET begun == failures[address].expires - Window
            IN Counted(wrong[address], begun, tick) <= FailureLimit + Asking - 1 + lost

\* One busy account cannot block every save: of the counter everybody shares it spends
\* no more than its own limit in the two windows that meet the shared one, and one for
\* each request that was slow between its two charges.
NobodySpendsForAll ==
    Live(mutations[Installation]) =>
        \A account \in Busy : spent[account] <= 2 * PersonalLimit + Asking

LimitsHold == GuessesAreBounded /\ NobodySpendsForAll
=============================================================================
