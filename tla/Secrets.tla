------------------------------- MODULE Secrets -------------------------------
(***************************************************************************)
(* The init service: `passdown init-secrets` (init-secrets.ts) writes the   *)
(* passwords and the session secret of an installation into their volumes,  *)
(* once.  It runs before everything else each time the installation is      *)
(* brought up, and may be killed, or the machine lose power, at any step.   *)
(* A file's content is safe from a power failure only once it is flushed.   *)
(***************************************************************************)
CONSTANT SecretNames        \* database-owner-password and the others

VARIABLES
    secret,     \* the content under each secret's own name
    partial,    \* the content under its partial name
    making,     \* the secret whose partial file this start created, if any
    init        \* where the init service stands

secretVars == <<secret, partial, making, init>>

\* "written" is content a power failure may still take.
Content == {"absent", "empty", "written", "flushed"}

SecretsAreThere == init = "done"

\* It is started each time the installation is brought up.
StartInit == init' = "running" /\ UNCHANGED <<secret, partial, making>>

\* The init service ends with an error, or is killed: what is written stays, a
\* partial file that was not linked yet among it.
InitEnds(how) == init' = how /\ making' = {}
InitFails == init = "running" /\ InitEnds("failed") /\ UNCHANGED <<secret, partial>>

\* An existing secret is kept, an empty one refused. The partial file is opened
\* with 'wx', and its name ends in the process id, which is 1 in every container
\* of the service: one that an earlier start left is in the way.
OpenPartial(s) ==
    /\ init = "running" /\ making = {} /\ secret[s] = "absent" /\ partial[s] = "absent"
    /\ partial' = [partial EXCEPT ![s] = "empty"]
    /\ making' = {s}
    /\ UNCHANGED <<secret, init>>

InitRefuses ==
    /\ init = "running" /\ making = {}
    /\ \E s \in SecretNames : secret[s] = "empty" \/ (secret[s] = "absent" /\ partial[s] # "absent")
    /\ InitEnds("failed")
    /\ UNCHANGED <<secret, partial>>

Making(s, content) == init = "running" /\ s \in making /\ partial[s] = content

WritePartial(s) ==
    /\ Making(s, "empty")
    /\ partial' = [partial EXCEPT ![s] = "written"]
    /\ UNCHANGED <<secret, making, init>>

FlushPartial(s) ==
    /\ Making(s, "written")
    /\ partial' = [partial EXCEPT ![s] = "flushed"]
    /\ UNCHANGED <<secret, making, init>>

\* Mutant: the file is linked before it is flushed.
LinkUnflushed(s) ==
    /\ Making(s, "written") /\ secret[s] = "absent"
    /\ secret' = [secret EXCEPT ![s] = partial[s]]
    /\ UNCHANGED <<partial, making, init>>

\* linkSync, never over a secret that is there.
LinkSecret(s) ==
    /\ Making(s, "flushed") /\ secret[s] = "absent"
    /\ secret' = [secret EXCEPT ![s] = "flushed"]
    /\ UNCHANGED <<partial, making, init>>

UnlinkPartial(s) ==
    /\ init = "running" /\ s \in making /\ secret[s] # "absent"
    /\ partial' = [partial EXCEPT ![s] = "absent"]
    /\ making' = {}
    /\ UNCHANGED <<secret, init>>

InitDone ==
    /\ init = "running" /\ making = {}
    /\ \A s \in SecretNames : secret[s] \in {"written", "flushed"}
    /\ InitEnds("done")
    /\ UNCHANGED <<secret, partial>>

\* What was not flushed is lost in part or whole.
PowerFails ==
    LET Left(c) == IF c = "written" THEN {"empty", "written"} ELSE {c} IN
    /\ InitEnds(IF init = "running" THEN "failed" ELSE init)
    /\ \E ps, ss \in [SecretNames -> Content] :
          /\ \A s \in SecretNames : ps[s] \in Left(partial[s]) /\ ss[s] \in Left(secret[s])
          /\ partial' = ps /\ secret' = ss

SecretStep ==
    \/ \E s \in SecretNames :
          OpenPartial(s) \/ WritePartial(s) \/ FlushPartial(s) \/ LinkSecret(s) \/ UnlinkPartial(s)
    \/ InitDone \/ InitRefuses

NextSecrets == SecretStep \/ InitFails \/ PowerFails

\* A secret that has its name is whole, whatever was interrupted: a later start
\* keeps what it finds. init-secrets.ts:36 "an interrupted start never leaves a
\* truncated secret that a later start would keep".
SecretsAreWhole == \A s \in SecretNames : secret[s] \in {"absent", "flushed"}
=============================================================================
