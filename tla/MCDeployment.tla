---------------------------- MODULE MCDeployment ----------------------------
EXTENDS Deployment, TLC

CONSTANTS c1, c2, old, new, edited

file(name, content) == [name |-> name, checksum |-> content]

\* A version, the next one, and a build of it whose second file was edited.
SomeBuilds == {old, new, edited}
SomeShips ==
    (old :> <<file(1, "as released")>>)
    @@ (new :> <<file(1, "as released"), file(2, "as released"), file(3, "as released")>>)
    @@ (edited :> <<file(1, "as released"), file(2, "edited")>>)

\* Two deployments, or pictures and a backup while one migration runs.
Calm ==
    /\ \A p \in Pictures : upload[p] = "none"
    /\ \A b \in Backups : backup[b].at = "unused"

OneUpgrade ==
    /\ \A a, b \in Attempts : attempt[a].at # "unused" /\ attempt[b].at # "unused" => a = b
    /\ \A a \in Attempts : attempt[a].at # "unused" =>
          attempt[a].kind = "upgrade" /\ attempt[a].build = new
NotAllAtOnce == Calm \/ OneUpgrade

\* Where a version has served, there is an account.
AccountWhereServed == firstLogin = {} => \A i \in DOMAIN ran : ran[i].by # Nobody

\* A command is started only when none runs: the second is a retry of the first.
OneAtATime == \A a, b \in Attempts : Running(a) /\ Running(b) => a = b
=============================================================================
