------------------------------ MODULE Migration ------------------------------
(***************************************************************************)
(* The schema of one installation, and who changes it: the `migrate`        *)
(* command (commands/migrate.ts, migrator.ts) as `docker compose up`,       *)
(* upgrade.sh or an operator start it, its session at the database, the     *)
(* notices it leaves for the proxy, and the web service, which Compose      *)
(* starts only after it.  A command may be killed anywhere, and may lose    *)
(* its connection, after which its session goes on until the database       *)
(* notices: a COMMIT already sent may still happen.                         *)
(***************************************************************************)
EXTENDS Naturals, Sequences, SequencesExt, Secrets

CONSTANTS
    Builds,         \* versions of Passdown somebody may deploy
    Ships,          \* the migration files each ships, in order
    Attempts,       \* runs of migrate
    Nobody          \* no build, no version serves

Files == UNION {ToSet(Ships[b]) : b \in Builds}

\* Files are numbered, and a version adds its own after those of the one before.
ASSUME ShipsAssumption ==
    /\ Builds # {} /\ Nobody \notin Builds \cup Attempts
    /\ \A b \in Builds : Ships[b] \in Seq(Files) /\ Ships[b] # <<>>
    /\ \A b, c \in Builds : \A i \in DOMAIN Ships[b], j \in DOMAIN Ships[c] :
          Ships[b][i].name = Ships[c][j].name <=> i = j

VARIABLES
    ran,        \* the migrations whose changes are committed, in order, and whose they are
    recorded,   \* public.schema_migration
    locker,     \* the session that holds migrationLockKey
    attempt,    \* each run of migrate
    session,    \* the transaction of its session at the database
    firstLogin, \* whose transaction made the first account; Nobody: one was there before
    notices,    \* the files in the status volume
    web,        \* the build the web service runs
    lastServed  \* history: how many migrations the web service last ran over

migrationVars == <<ran, recorded, locker, attempt, session, firstLogin, notices, web, lastServed>>

\* readSchemaState, of a build.
SchemaState(b) ==
    LET expected == ToSet(Ships[b]) IN
    IF recorded = {} THEN "uninitialized"
    ELSE IF \E f \in expected, g \in recorded : f.name = g.name /\ f # g THEN "changed"
    ELSE IF ~ expected \subseteq recorded THEN "pending"
    ELSE IF recorded \subseteq expected THEN "current" ELSE "ahead"

\* What the proxy serves while the web service does not answer.
Page ==
    IF web # Nobody THEN "web"
    ELSE IF "migration-incomplete" \in notices THEN "upgrade-incomplete"
    ELSE IF "migration-failed" \in notices THEN "upgrade-failed"
    ELSE "starting"

\* healthReport, of a web service whose database answers.
Health(b) == IF SchemaState(b) \in {"current", "ahead"} THEN "ready" ELSE "schema-behind"

\* compose up and a migration run by hand use the service's own command, with
\* --status-dir; upgrade.sh gives it without.
HasStatusDir(a) == attempt[a].kind \in {"up", "manual"}

Ended == {"unused", "done", "deployed", "failed", "killed"}
Connected == {"locking", "checking", "reading", "next", "applying", "committing", "confirming"}
Running(a) == attempt[a].at \notin Ended

Unused == [at |-> "unused", kind |-> "up", build |-> Nobody, todo |-> {},
           committed |-> 0, said |-> "nothing"]

InitMigration ==
    /\ \E b \in Builds \cup {Nobody} :
          /\ web = b
          /\ ran = IF b = Nobody THEN <<>>
                   ELSE [i \in DOMAIN Ships[b] |-> [file |-> Ships[b][i], by |-> Nobody]]
          /\ init = IF b = Nobody THEN "waiting" ELSE "done"
    /\ recorded = {ran[i].file : i \in DOMAIN ran}
    /\ secret = [s \in SecretNames |-> IF web = Nobody THEN "absent" ELSE "flushed"]
    /\ partial = [s \in SecretNames |-> "absent"]
    /\ making = {}
    /\ locker = {}
    /\ attempt = [a \in Attempts |-> Unused]
    /\ session = [a \in Attempts |-> "none"]
    /\ firstLogin \in IF web = Nobody THEN {{}} ELSE {{}, {Nobody}}
    /\ notices = {}
    /\ lastServed = Len(ran)

GoOn(a, at) == attempt' = [attempt EXCEPT ![a].at = at]
At(a, at, sess) == attempt[a].at = at /\ session[a] = sess
SetSession(a, to) == session' = [session EXCEPT ![a] = to]
Closes(a) == SetSession(a, "none") /\ locker' = locker \ {a}
WebUnchanged == UNCHANGED <<web, lastServed>>

\* The command ends with an error and says, in the status volume and its log,
\* whether it changed the database.
Fails(a, uncertain) ==
    LET kind == IF attempt[a].committed = 0 /\ ~ uncertain THEN "unchanged" ELSE "changed"
        file == IF kind = "unchanged" THEN "migration-failed" ELSE "migration-incomplete" IN
    IF HasStatusDir(a)
    THEN /\ attempt' = [attempt EXCEPT ![a].at = "failed", ![a].said = kind]
         /\ notices' = notices \cup {file}
    ELSE GoOn(a, "failed") /\ UNCHANGED notices

-----------------------------------------------------------------------------

Starts(a, kind, b) ==
    /\ attempt[a].at = "unused"
    /\ attempt' = [attempt EXCEPT ![a] = [Unused EXCEPT !.at = "waiting", !.kind = kind, !.build = b]]
    /\ StartInit
    /\ UNCHANGED <<ran, recorded, locker, session, firstLogin, notices>>

\* `docker compose up -d` after the compose file names b: the web service of
\* another version is stopped first. The migrate service has one container.
Up(a, b) ==
    /\ \A o \in Attempts : attempt[o].kind = "up" => ~ Running(o)
    /\ Starts(a, "up", b)
    /\ web' = IF web = b THEN web ELSE Nobody
    /\ lastServed' = IF web = Nobody THEN lastServed ELSE Len(ran)

\* `docker compose run --rm migrate`: by hand, or by upgrade.sh, which asks that
\* a web service runs and leaves it running.
Run(a, b, kind) ==
    /\ kind = "upgrade" => web # Nobody
    /\ Starts(a, kind, b)
    /\ WebUnchanged

\* The migrate container starts once the init service has succeeded.
Begin(a) ==
    /\ attempt[a].at = "waiting" /\ SecretsAreThere
    /\ GoOn(a, "connecting")
    /\ notices' = IF HasStatusDir(a) THEN {} ELSE notices
    /\ UNCHANGED <<ran, recorded, locker, session, firstLogin, web, lastServed, secretVars>>

NotBegun(a) ==
    /\ attempt[a].at = "waiting" /\ init = "failed"
    /\ GoOn(a, "failed")
    /\ UNCHANGED <<ran, recorded, locker, session, firstLogin, notices, web, lastServed, secretVars>>

Connect(a) ==
    /\ attempt[a].at = "connecting"
    /\ GoOn(a, "locking") /\ SetSession(a, "idle")
    /\ UNCHANGED <<ran, recorded, locker, firstLogin, notices, web, lastServed, secretVars>>

\* pg_try_advisory_lock, else pg_advisory_lock, which waits.
TakeLock(a) ==
    /\ attempt[a].at = "locking" /\ locker = {}
    /\ GoOn(a, "checking") /\ locker' = {a}
    /\ UNCHANGED <<ran, recorded, session, firstLogin, notices, web, lastServed, secretVars>>

CheckRole(a) ==
    /\ attempt[a].at = "checking"
    /\ GoOn(a, "reading")
    /\ UNCHANGED <<ran, recorded, locker, session, firstLogin, notices, web, lastServed, secretVars>>

AppliedChanged(b) == \E f \in ToSet(Ships[b]), g \in recorded : f.name = g.name /\ f # g
Missing(b) == {i \in DOMAIN Ships[b] : \A g \in recorded : g.name # Ships[b][i].name}

\* Where in its build's list the file is that a run has to apply next.
Following(a) == CHOOSE i \in attempt[a].todo : \A j \in attempt[a].todo : i <= j
NextFile(a) == Ships[attempt[a].build][Following(a)]

\* Mutant: a recorded file is known by its name alone.
ReadByName(a) ==
    /\ attempt[a].at = "reading"
    /\ attempt' = [attempt EXCEPT ![a].at = "next", ![a].todo = Missing(attempt[a].build)]
    /\ UNCHANGED <<ran, recorded, locker, session, firstLogin, notices, web, lastServed, secretVars>>

\* Every applied file is compared before a new one is executed.
ReadPrevious(a) ==
    /\ attempt[a].at = "reading"
    /\ IF AppliedChanged(attempt[a].build)
       THEN Fails(a, FALSE) /\ Closes(a)
       ELSE /\ attempt' = [attempt EXCEPT ![a].at = "next", ![a].todo = Missing(attempt[a].build)]
            /\ UNCHANGED <<locker, session, notices>>
    /\ UNCHANGED <<ran, recorded, firstLogin, web, lastServed, secretVars>>

\* BEGIN, the file's SQL and the row that records it.
Apply(a) ==
    /\ attempt[a].at = "next" /\ attempt[a].todo # {}
    /\ \A g \in recorded : g.name # NextFile(a).name
    /\ GoOn(a, "applying") /\ SetSession(a, "begun")
    /\ UNCHANGED <<ran, recorded, locker, firstLogin, notices, web, lastServed, secretVars>>

SendCommit(a) ==
    /\ attempt[a].at = "applying"
    /\ GoOn(a, "committing") /\ SetSession(a, "sent")
    /\ UNCHANGED <<ran, recorded, locker, firstLogin, notices, web, lastServed, secretVars>>

\* Mutant: the row that records the file is left to a transaction of its own.
CommitUnrecorded(a) ==
    /\ session[a] = "sent"
    /\ ran' = Append(ran, [file |-> NextFile(a), by |-> a])
    /\ SetSession(a, "committed")
    /\ UNCHANGED <<recorded, locker, attempt, firstLogin, notices, web, lastServed, secretVars>>

\* The database commits, whether or not anybody waits for the answer.
Commit(a) ==
    /\ session[a] = "sent"
    /\ ran' = Append(ran, [file |-> NextFile(a), by |-> a])
    /\ recorded' = recorded \cup {NextFile(a)}
    /\ SetSession(a, "committed")
    /\ UNCHANGED <<locker, attempt, firstLogin, notices, web, lastServed, secretVars>>

Acknowledge(a) ==
    /\ At(a, "committing", "committed")
    /\ attempt' = [attempt EXCEPT ![a].at = "next", ![a].todo = @ \ {Following(a)}, ![a].committed = @ + 1]
    /\ SetSession(a, "idle")
    /\ UNCHANGED <<ran, recorded, locker, firstLogin, notices, web, lastServed, secretVars>>

\* Mutant: the lock was taken on another connection than the one that ends.
FinishKeepingLock(a) ==
    /\ attempt[a].at = "next" /\ attempt[a].todo = {}
    /\ GoOn(a, "login") /\ SetSession(a, "none")
    /\ UNCHANGED <<ran, recorded, locker, firstLogin, notices, web, lastServed, secretVars>>

\* The role is checked against the schema, and the session and its lock end.
Finish(a) ==
    /\ attempt[a].at = "next" /\ attempt[a].todo = {}
    /\ GoOn(a, "login") /\ Closes(a)
    /\ UNCHANGED <<ran, recorded, firstLogin, notices, web, lastServed, secretVars>>

-----------------------------------------------------------------------------
(* ensureDefaultLogin, on a connection of its own after the lock is free.    *)

\* Whose transaction holds operator_create_default_login's advisory lock.
LoginLock == {a \in Attempts : session[a] = "login-sent"}

\* There is an account already: nothing is created, and the command succeeds.
LoginNotNeeded(a) ==
    /\ attempt[a].at = "login" /\ LoginLock = {} /\ firstLogin # {}
    /\ GoOn(a, "done")
    /\ UNCHANGED <<ran, recorded, locker, session, firstLogin, notices, web, lastServed, secretVars>>

\* Mutant: the look for an account is not behind the advisory lock.
CreateUnlocked(a) ==
    /\ attempt[a].at = "login" /\ firstLogin = {}
    /\ GoOn(a, "confirming") /\ SetSession(a, "login-sent")
    /\ UNCHANGED <<ran, recorded, locker, firstLogin, notices, web, lastServed, secretVars>>

\* There is none: the account is inserted and COMMIT sent.
CreateLogin(a) ==
    /\ attempt[a].at = "login" /\ LoginLock = {} /\ firstLogin = {}
    /\ GoOn(a, "confirming") /\ SetSession(a, "login-sent")
    /\ UNCHANGED <<ran, recorded, locker, firstLogin, notices, web, lastServed, secretVars>>

\* The database commits, whether or not anybody waits for the answer.
CommitLogin(a) ==
    /\ session[a] = "login-sent"
    /\ firstLogin' = firstLogin \cup {a}
    /\ SetSession(a, "login-committed")
    /\ UNCHANGED <<ran, recorded, locker, attempt, notices, web, lastServed, secretVars>>

LoginCreated(a) ==
    /\ At(a, "confirming", "login-committed")
    /\ GoOn(a, "done") /\ SetSession(a, "none")
    /\ UNCHANGED <<ran, recorded, locker, firstLogin, notices, web, lastServed, secretVars>>

-----------------------------------------------------------------------------

\* Compose starts the web service of an `up` whose migration succeeded.
StartWeb(a) ==
    /\ attempt[a].at = "done" /\ attempt[a].kind = "up" /\ web = Nobody
    /\ \A o \in Attempts : attempt[o].kind = "up" => ~ Running(o)
    /\ web' = attempt[a].build
    /\ GoOn(a, "deployed")
    /\ UNCHANGED <<ran, recorded, locker, session, firstLogin, notices, lastServed, secretVars>>

-----------------------------------------------------------------------------

\* Anything the command asks is refused, with the connection in order: what its
\* transaction did is rolled back. An error of a migration's COMMIT proves
\* nothing; one of the first login's is no MigrationFailure, and not told apart.
Refused(a) ==
    /\ \/ attempt[a].at \in {"connecting", "checking", "reading", "next", "applying", "login"}
       \/ At(a, "committing", "sent") \/ At(a, "confirming", "login-sent")
    /\ Fails(a, attempt[a].at = "committing")
    /\ Closes(a)
    /\ UNCHANGED <<ran, recorded, firstLogin, web, lastServed, secretVars>>

\* Mutant: a COMMIT whose answer was lost is taken for one that failed.
LosesCertain(a) ==
    /\ attempt[a].at \in Connected
    /\ Fails(a, FALSE)
    /\ UNCHANGED <<ran, recorded, locker, session, firstLogin, web, lastServed, secretVars>>

\* The connection is lost. ROLLBACK fails too, so once a file is begun the
\* outcome is uncertain; that of the first login's COMMIT is not called so.
\* The session at the database does not know yet.
Loses(a) ==
    /\ attempt[a].at \in Connected
    /\ Fails(a, attempt[a].at \in {"applying", "committing"})
    /\ UNCHANGED <<ran, recorded, locker, session, firstLogin, web, lastServed, secretVars>>

Killed(a) ==
    /\ Running(a)
    /\ GoOn(a, "killed")
    /\ UNCHANGED <<ran, recorded, locker, session, firstLogin, notices, web, lastServed, secretVars>>

\* The database notices that nobody is there: what is not committed is undone.
SessionEnds(a) ==
    /\ ~ Running(a) /\ session[a] # "none"
    /\ Closes(a)
    /\ UNCHANGED <<ran, recorded, attempt, firstLogin, notices, web, lastServed, secretVars>>

Starting ==
    \E a \in Attempts, b \in Builds : Up(a, b) \/ \E kind \in {"upgrade", "manual"} : Run(a, b, kind)
MigrateStep(a) ==
    \/ Begin(a) \/ NotBegun(a) \/ Connect(a) \/ TakeLock(a) \/ CheckRole(a) \/ ReadPrevious(a)
    \/ Apply(a) \/ SendCommit(a) \/ Commit(a) \/ Acknowledge(a) \/ Finish(a)
    \/ LoginNotNeeded(a) \/ CreateLogin(a) \/ CommitLogin(a) \/ LoginCreated(a)
    \/ StartWeb(a) \/ SessionEnds(a)
MigrateFault(a) == Refused(a) \/ Loses(a) \/ Killed(a)
NextMigration == Starting \/ \E a \in Attempts : MigrateStep(a) \/ MigrateFault(a)

-----------------------------------------------------------------------------

\* The database is at some point of one version's list of migrations, each run
\* once, in order and as that version ships it, and says so: two commands, an
\* edited file, a lost connection and a retry never mix or repeat them.
\* (migrator.ts applyMigrations)
SchemaIsOneBuilds ==
    LET done == [i \in DOMAIN ran |-> ran[i].file] IN
    /\ recorded = ToSet(done)
    /\ \E b \in Builds : IsPrefix(done, Ships[b])

\* The version that serves finds every migration it ships, whatever became of
\* the deployments before it and whatever another one does meanwhile.
\* (compose.yaml web.depends_on, health.ts:27)
WebMatchesSchema == web # Nobody => Health(web) = "ready"

\* A command that says it changed nothing applied no migration, and none of its
\* own commits late; what it may have made is the first account of an installation
\* that had none, when the answer to that COMMIT was lost (setup.ts:44-67): never
\* one beside another.  (migrate.ts:86-99)
UnchangedIsTrue ==
    \A a \in Attempts : attempt[a].said = "unchanged" =>
        /\ \A i \in DOMAIN ran : ran[i].by # a
        /\ a \in firstLogin => firstLogin = {a}

\* docs/self-hosting/install.md:264 "the page says **No data was changed** ...
\* the previous version starts with your data", troubleshooting.md:150.
NoDataWasChanged == Page = "upgrade-failed" => Len(ran) = lastServed
=============================================================================
