-------------------------- MODULE Deployment_proofs --------------------------
(***************************************************************************)
(* What a deployment promises, for any builds, any number of migrate        *)
(* commands, uploads and backups at once, and any faults: the schema is one *)
(* build's, the web service finds the one it needs, a command that says it  *)
(* changed nothing applied no migration, pictures stand behind their rows,  *)
(* secrets and backups are whole.                                           *)
(***************************************************************************)
EXTENDS Deployment, SequenceTheorems, TLAPS

-----------------------------------------------------------------------------
(* The inductive invariants                                                 *)

Kinds == {"up", "upgrade", "manual"}
Stages == {"unused", "waiting", "connecting", "locking", "checking", "reading", "next", "applying",
           "committing", "login", "confirming", "done", "deployed", "failed", "killed"}
Sessions == {"none", "idle", "begun", "sent", "committed", "login-sent", "login-committed"}
Attempt == [at : Stages, kind : Kinds, build : Builds \cup {Nobody}, todo : SUBSET Nat,
            committed : Nat, said : {"nothing", "unchanged", "changed"}]

MigrationTyped ==
    /\ attempt \in [Attempts -> Attempt]
    /\ session \in [Attempts -> Sessions]
    /\ ran \in Seq([file : Files, by : Attempts \cup {Nobody}])
    /\ web \in Builds \cup {Nobody}

\* A run past the lock, or whose transaction is open or done at the database, has
\* the lock, and nobody else.
Holds(a) == \/ attempt[a].at \in {"checking", "reading", "next", "applying", "committing"}
            \/ session[a] \in {"begun", "sent", "committed"}
Locked(a) == Holds(a) => locker = {a}

\* The list of build b has the migrations that ran, as far as both go.
Agrees(b) == \A i \in DOMAIN ran : i \in DOMAIN Ships[b] => ran[i].file = Ships[b][i]

\* All migrations of build b ran.
Covered(b) == \A i \in DOMAIN Ships[b] : i \in DOMAIN ran /\ ran[i].file = Ships[b][i]

\* What a run has read stays true until it commits: its build's list agrees with
\* what ran, and what it has to do is the rest of the list.
Plans(a) == attempt[a].at \in {"next", "applying", "committing"} \/ session[a] \in {"begun", "sent"}
Rest(a) == {i \in DOMAIN Ships[attempt[a].build] :
               i > Len(ran) \/ (session[a] = "committed" /\ i = Len(ran))}
Planned(a) ==
    /\ attempt[a].at = "unused" \/ attempt[a].build \in Builds
    /\ Plans(a) => /\ attempt[a].at # "unused"
                   /\ Agrees(attempt[a].build) /\ attempt[a].todo = Rest(a)
    /\ attempt[a].at \in {"login", "confirming", "done", "deployed"} => Covered(attempt[a].build)

\* Where the session of a run stands while the run does.
InStep(a) ==
    /\ attempt[a].at \in {"unused", "waiting", "connecting", "login"} => session[a] = "none"
    /\ attempt[a].at \in {"locking", "checking", "reading", "next"} => session[a] = "idle"
    /\ attempt[a].at = "applying" => session[a] = "begun"
    /\ attempt[a].at = "committing" =>
          \/ session[a] = "sent"
          \/ session[a] = "committed" /\ Len(ran) \in DOMAIN Ships[attempt[a].build]
    /\ attempt[a].at = "confirming" => session[a] \in {"login-sent", "login-committed"}
    /\ session[a] \in {"begun", "sent"} => attempt[a].todo # {}

\* Whose migrations ran has counted one, waits for the answer, or cannot say.
SaysTrue(a) ==
    /\ (\E i \in DOMAIN ran : ran[i].by = a) =>
          \/ attempt[a].committed > 0
          \/ attempt[a].at = "committing" /\ session[a] = "committed"
          \/ attempt[a].at \in Ended \ {"unused"} /\ attempt[a].said # "unchanged"
    /\ attempt[a].at = "unused" => attempt[a].committed = 0
    /\ attempt[a].said = "unchanged" =>
          /\ attempt[a].at = "failed" /\ attempt[a].committed = 0
          /\ session[a] \in {"none", "idle", "login-sent", "login-committed"}

RunsInv == \A a \in Attempts : Locked(a) /\ Planned(a) /\ InStep(a) /\ SaysTrue(a)

\* One transaction at a time may make the first account, where there is none.
LoginInv ==
    /\ \A a \in LoginLock : firstLogin = {} /\ LoginLock = {a}
    /\ \A a, c \in firstLogin : a = c

\* What ran is recorded, and is the beginning of one build's list.
SchemaInv ==
    /\ recorded = {ran[i].file : i \in DOMAIN ran}
    /\ \E b \in Builds : Agrees(b) /\ Len(ran) <= Len(Ships[b])

WebInv == web # Nobody => Covered(web)

\* A file is written before its row is committed, and is only removed when the
\* row was not, or when nobody knows.
PictureInv ==
    /\ reference \subseteq asset /\ asset \subseteq Pictures
    /\ display \in [Pictures -> {"none", "partial", "whole"}]
    /\ upload \in [Pictures -> {"none", "writing", "stored", "committing", "discarding",
                                "done", "refused", "abandoned"}]
    /\ inserting \in [Pictures -> {"none", "sent", "committed", "rolled back"}]
    /\ \A p \in Pictures :
          /\ p \in asset => inserting[p] = "committed"
          /\ upload[p] \in {"none", "writing", "stored"} => inserting[p] = "none"
          /\ upload[p] \in {"stored", "committing"} => display[p] = "whole"
          /\ inserting[p] \in {"sent", "committed"} => display[p] = "whole" \/ p \in unanswered
          /\ upload[p] = "discarding" => inserting[p] = "rolled back" \/ p \in unanswered

\* A secret is linked only once its partial file is flushed.
SecretInv ==
    /\ secret \in [SecretNames -> {"absent", "flushed"}]
    /\ partial \in [SecretNames -> Content]

BackupRow ==
    [at : {"unused", "verifying", "dumping", "dumped", "packing", "published", "failed"},
     rows : SUBSET Pictures, used : SUBSET Pictures, schema : SUBSET Files,
     dumpedOver : SUBSET Files, missing : SUBSET Pictures, verified : SUBSET Pictures,
     packed : SUBSET Pictures, snapshot : {"open", "closed"}]

\* Until its dump is written a backup that is still connected holds the lock, so
\* the schema is as its snapshot found it.
Watches(b) == backup[b].at \in {"verifying", "dumping", "dumped"} /\ backup[b].snapshot = "open"
Sound(b) ==
    /\ backup[b].used \subseteq backup[b].rows
    /\ Watches(b) => locker = {b} /\ backup[b].schema = recorded
    /\ Watches(b) /\ backup[b].at = "dumped" => backup[b].schema = backup[b].dumpedOver
    /\ backup[b].at \in {"packing", "published"} => backup[b].schema = backup[b].dumpedOver
    /\ backup[b].at \in {"dumping", "dumped", "packing", "published"} =>
          backup[b].rows = backup[b].verified \cup backup[b].missing
    /\ backup[b].at = "published" => backup[b].packed = backup[b].verified

BackupInv ==
    /\ backup \in [Backups -> BackupRow]
    /\ \A b \in Backups : Sound(b)

-----------------------------------------------------------------------------
(* Who moves what                                                           *)

\* A migration moves no picture and no backup.
LEMMA MigrationMoves ==
    ASSUME NextMigration
    PROVE  UNCHANGED <<secret, partial>>
<1>1. ASSUME NEW a \in Attempts, MigrateStep(a)
      PROVE  UNCHANGED <<secret, partial>>
  BY <1>1 DEF MigrateStep, Begin, NotBegun, Connect, TakeLock, CheckRole, ReadPrevious, Apply,
     SendCommit, Commit, Acknowledge, Finish, LoginNotNeeded, CreateLogin, CommitLogin, LoginCreated, StartWeb, SessionEnds, secretVars
<1>2. ASSUME NEW a \in Attempts, MigrateFault(a)
      PROVE  UNCHANGED <<secret, partial>>
  BY <1>2 DEF MigrateFault, Refused, Loses, Killed, secretVars
<1>3. CASE Starting
  BY <1>3 DEF Starting, Up, Run, Starts, StartInit
<1> QED
  BY <1>1, <1>2, <1>3 DEF NextMigration

\* A backup moves nothing but itself and, among what others see, the lock.
LEMMA BackupMoves ==
    ASSUME NextBackup
    PROVE  UNCHANGED <<ran, recorded, attempt, session, firstLogin, web, notices, lastServed,
                       secretVars, pictureVars>>
BY DEF NextBackup, OpenSnapshot, SnapshotRefused, BackupStep, SnapshotLost, VerifyFile, Pack,
       FilesVerified, Dump, Release, PublishBackup, BackupFails, Others, OthersButLock,
       migrationVars

-----------------------------------------------------------------------------
(* Secrets                                                                  *)

\* A secret is linked only once its partial file is flushed, so a power failure
\* takes nothing of it.
LEMMA SecretsKept ==
    ASSUME SecretInv, [NextDeployment]_deploymentVars
    PROVE  SecretInv'
<1>1. ASSUME UNCHANGED <<secret, partial>>
      PROVE  SecretInv'
  BY <1>1 DEF SecretInv
<1>2. ASSUME NEW s \in SecretNames,
             OpenPartial(s) \/ WritePartial(s) \/ FlushPartial(s) \/ UnlinkPartial(s)
      PROVE  SecretInv'
  BY <1>2 DEF OpenPartial, WritePartial, FlushPartial, UnlinkPartial, SecretInv, Content
<1>3. ASSUME NEW s \in SecretNames, LinkSecret(s)
      PROVE  SecretInv'
  BY <1>3 DEF LinkSecret, SecretInv
<1>4. CASE InitDone \/ InitRefuses \/ InitFails
  BY <1>1, <1>4 DEF InitDone, InitRefuses, InitFails
<1>5. CASE PowerFails
  <2> DEFINE Left(c) == IF c = "written" THEN {"empty", "written"} ELSE {c}
  <2>1. PICK ps \in [SecretNames -> Content], ss \in [SecretNames -> Content] :
           /\ \A s \in SecretNames : ss[s] \in Left(secret[s])
           /\ partial' = ps /\ secret' = ss
    BY <1>5 DEF PowerFails
  <2>2. \A s \in SecretNames : secret'[s] \in {"absent", "flushed"}
    BY <2>1 DEF SecretInv
  <2> QED
    BY <2>1, <2>2 DEF SecretInv
<1> QED
  BY <1>1, <1>2, <1>3, <1>4, <1>5, MigrationMoves, BackupMoves
     DEF NextDeployment, deploymentVars, NextSecrets, SecretStep, secretVars

-----------------------------------------------------------------------------
(* Pictures                                                                 *)

\* Files come before rows, and go only where rows did not come.
LEMMA PicturesKept ==
    ASSUME PictureInv, [NextDeployment]_deploymentVars
    PROVE  PictureInv'
<1> USE DEF PictureInv
<1>1. CASE UNCHANGED pictureVars
  BY <1>1 DEF pictureVars
<1>2. ASSUME NEW p \in Pictures, StartUpload(p) \/ StoreUpload(p) \/ WriteFails(p)
      PROVE  PictureInv'
  <2>1. CASE StartUpload(p)
    BY <2>1 DEF StartUpload, UploadGoesTo, Write
  <2>2. CASE StoreUpload(p)
    BY <2>2 DEF StoreUpload, UploadGoesTo, Write
  <2>3. CASE WriteFails(p)
    BY <2>3 DEF WriteFails, UploadGoesTo
  <2> QED
    BY <1>2, <2>1, <2>2, <2>3
<1>3. ASSUME NEW p \in Pictures, CreateAsset(p)
      PROVE  PictureInv'
  BY <1>3 DEF CreateAsset, UploadGoesTo, Transaction
<1>4. ASSUME NEW p \in Pictures, InsertCommits(p)
      PROVE  PictureInv'
  BY <1>4 DEF InsertCommits, Transaction
<1>5. ASSUME NEW p \in Pictures, UploadDone(p) \/ InsertLost(p)
      PROVE  PictureInv'
  BY <1>5 DEF UploadDone, InsertLost, UploadGoesTo
<1>6. ASSUME NEW p \in Pictures, InsertRefused(p) \/ InsertRollsBack(p)
      PROVE  PictureInv'
  <2>1. CASE InsertRefused(p)
    BY <2>1 DEF InsertRefused, UploadGoesTo, Transaction
  <2>2. CASE InsertRollsBack(p)
    BY <2>2 DEF InsertRollsBack, Transaction
  <2> QED
    BY <1>6, <2>1, <2>2
<1>7. ASSUME NEW p \in Pictures, DiscardStoredAsset(p)
      PROVE  PictureInv'
  BY <1>7 DEF DiscardStoredAsset, UploadGoesTo, Write
<1>8. ASSUME NEW ps \in SUBSET asset, SaveWith(ps)
      PROVE  PictureInv'
  BY <1>8 DEF SaveWith
<1>9. CASE WebDies
  BY <1>9 DEF WebDies
<1>10. CASE NextPictures
  <2> HIDE DEF PictureInv
  <2> QED
    BY <1>2, <1>3, <1>4, <1>5, <1>6, <1>7, <1>8, <1>9, <1>10
       DEF NextPictures, PictureStep, PictureFault
<1> QED
  <2> HIDE DEF PictureInv
  <2> QED
    BY <1>1, <1>10, BackupMoves DEF NextDeployment, deploymentVars

-----------------------------------------------------------------------------
(* What a run of migrate does to itself and to the others                   *)

\* A step of run a, with whatever somebody or something does to it.
StepOf(a) == \/ \E b \in Builds : Up(a, b) \/ \E kind \in {"upgrade", "manual"} : Run(a, b, kind)
             \/ MigrateStep(a) \/ MigrateFault(a)

\* The lists that builds ship are not empty, and are lists of files.
LEMMA ShipsShape ==
    ASSUME NEW b \in Builds
    PROVE  /\ Ships[b] \in Seq(Files) /\ Len(Ships[b]) \in Nat \ {0}
           /\ DOMAIN Ships[b] = 1 .. Len(Ships[b])
           /\ \A i \in 1 .. Len(Ships[b]) : Ships[b][i] \in Files
<1>1. Ships[b] \in Seq(Files) /\ Ships[b] # <<>>
  BY ShipsAssumption
<1> HIDE DEF Files
<1> QED
  BY <1>1, LenProperties, EmptySeq

\* What ran is a list as well.
LEMMA RanShape ==
    ASSUME MigrationTyped
    PROVE  /\ Len(ran) \in Nat /\ DOMAIN ran = 1 .. Len(ran)
           /\ \A i \in 1 .. Len(ran) : ran[i].file \in Files /\ ran[i].by \in Attempts \cup {Nobody}
<1> DEFINE Row == [file : Files, by : Attempts \cup {Nobody}]
<1>1. /\ Len(ran) \in Nat /\ DOMAIN ran = 1 .. Len(ran)
      /\ \A i \in 1 .. Len(ran) : ran[i] \in Row
  <2>1. ran \in Seq(Row)
    BY DEF MigrationTyped
  <2> HIDE DEF Row
  <2> QED
    BY <2>1, LenProperties
<1>2. \A r \in Row : r.file \in Files /\ r.by \in Attempts \cup {Nobody}
  <2> HIDE DEF Files
  <2> QED
    OBVIOUS
<1> HIDE DEF Row, Files
<1> QED
  BY <1>1, <1>2

\* A run that goes on to another stage keeps what else it knows.
LEMMA GoesOn ==
    ASSUME MigrationTyped, NEW a \in Attempts, NEW at \in Stages, GoOn(a, at)
    PROVE  /\ attempt' \in [Attempts -> Attempt]
           /\ \A c \in Attempts \ {a} : attempt'[c] = attempt[c]
           /\ attempt'[a].at = at /\ attempt'[a].kind = attempt[a].kind
           /\ attempt'[a].build = attempt[a].build /\ attempt'[a].todo = attempt[a].todo
           /\ attempt'[a].committed = attempt[a].committed /\ attempt'[a].said = attempt[a].said
BY DEF MigrationTyped, Attempt, GoOn

\* A run that fails and says what it did keeps what else it knows.
LEMMA Says ==
    ASSUME MigrationTyped, NEW a \in Attempts, NEW said \in {"unchanged", "changed"},
           attempt' = [attempt EXCEPT ![a].at = "failed", ![a].said = said]
    PROVE  /\ attempt' \in [Attempts -> Attempt]
           /\ \A c \in Attempts \ {a} : attempt'[c] = attempt[c]
           /\ attempt'[a].at = "failed" /\ attempt'[a].build = attempt[a].build
           /\ attempt'[a].todo = attempt[a].todo /\ attempt'[a].committed = attempt[a].committed
           /\ attempt'[a].said = said
<1> DEFINE row == [attempt[a] EXCEPT !.at = "failed", !.said = said]
<1>1. /\ row \in Attempt /\ row.at = "failed" /\ row.build = attempt[a].build
      /\ row.todo = attempt[a].todo /\ row.committed = attempt[a].committed /\ row.said = said
  <2>1. attempt[a] \in Attempt
    BY DEF MigrationTyped
  <2> QED
    BY <2>1 DEF Attempt, Stages
<1>2. attempt' = [attempt EXCEPT ![a] = row]
  OBVIOUS
<1> HIDE DEF row
<1> QED
  BY <1>1, <1>2 DEF MigrationTyped

\* A run that fails says it changed nothing only when it counted nothing and its
\* last file was certainly not committed.
LEMMA Failing ==
    ASSUME MigrationTyped, NEW a \in Attempts,
           Refused(a) \/ Loses(a)
    PROVE  /\ attempt' \in [Attempts -> Attempt]
           /\ \A c \in Attempts \ {a} : attempt'[c] = attempt[c]
           /\ attempt'[a].at = "failed" /\ attempt'[a].build = attempt[a].build
           /\ attempt'[a].todo = attempt[a].todo /\ attempt'[a].committed = attempt[a].committed
           /\ attempt'[a].said = "unchanged" =>
                 \/ attempt[a].said = "unchanged"
                 \/ /\ attempt[a].committed = 0 /\ attempt[a].at # "committing"
                    /\ attempt[a].at = "applying" => session'[a] = "none"
<1>1. CASE GoOn(a, "failed")
  BY <1>1, GoesOn DEF Stages
<1>2. CASE Refused(a)
  <2>1. session'[a] = "none"
    BY <1>2 DEF Refused, Closes, SetSession, MigrationTyped
  <2>2. \/ GoOn(a, "failed")
        \/ \E said \in {"unchanged", "changed"} :
              /\ attempt' = [attempt EXCEPT ![a].at = "failed", ![a].said = said]
              /\ said = "unchanged" => attempt[a].committed = 0 /\ attempt[a].at # "committing"
    BY <1>2 DEF Refused, Fails
  <2> QED
    BY <1>1, <2>1, <2>2, Says
<1>3. CASE Loses(a)
  <2>1. \/ GoOn(a, "failed")
        \/ \E said \in {"unchanged", "changed"} :
              /\ attempt' = [attempt EXCEPT ![a].at = "failed", ![a].said = said]
              /\ said = "unchanged" => attempt[a].committed = 0
                                       /\ attempt[a].at \notin {"applying", "committing"}
    BY <1>3 DEF Loses, Fails
  <2> QED
    BY <1>1, <2>1, Says
<1> QED
  BY <1>2, <1>3

\* A run's next file is the one after what ran, or the last that ran if the answer
\* to its commit is still on its way.
LEMMA FollowingIsNext ==
    ASSUME MigrationTyped, NEW a \in Attempts, Planned(a), InStep(a), Plans(a),
           session[a] \in {"begun", "sent"} \/ attempt[a].at = "committing"
    PROVE  /\ attempt[a].build \in Builds
           /\ Following(a) = IF session[a] = "committed" THEN Len(ran) ELSE Len(ran) + 1
           /\ Following(a) \in DOMAIN Ships[attempt[a].build]
<1> DEFINE n == IF session[a] = "committed" THEN Len(ran) ELSE Len(ran) + 1
<1>1. attempt[a].build \in Builds /\ attempt[a].todo = Rest(a)
  BY DEF Planned
<1>2. /\ DOMAIN Ships[attempt[a].build] = 1 .. Len(Ships[attempt[a].build])
      /\ Len(Ships[attempt[a].build]) \in Nat /\ Len(ran) \in Nat
  BY <1>1, ShipsShape, RanShape
<1>3. n \in Rest(a) /\ \A j \in Rest(a) : n <= j
  <2>1. CASE session[a] = "committed"
    BY <1>1, <1>2, <2>1 DEF Rest, InStep
  <2>2. CASE session[a] # "committed"
    <3>1. PICK j : j \in Rest(a)
      BY <1>1, <2>2 DEF InStep
    <3> QED
      BY <1>2, <2>2, <3>1 DEF Rest
  <2> QED
    BY <2>1, <2>2
<1>4. \A i \in Rest(a) : (\A j \in Rest(a) : i <= j) => i = n
  <2> HIDE DEF n
  <2>1. Rest(a) \subseteq Int
    BY <1>2 DEF Rest
  <2> QED
    BY <1>3, <2>1
<1>5. Following(a) = n
  <2> HIDE DEF n
  <2> QED
    BY <1>1, <1>3, <1>4 DEF Following
<1> QED
  BY <1>1, <1>3, <1>5 DEF Rest

\* What a run does to the others is waiting for the lock, and giving it back.
LEMMA OthersStand ==
    ASSUME MigrationTyped, NEW a \in Attempts, StepOf(a), NEW c \in Attempts, c # a
    PROVE  /\ attempt'[c] = attempt[c] /\ session'[c] = session[c]
           /\ locker' = locker \/ locker' = locker \ {a} \/ locker = {}
<1> USE DEF GoOn, SetSession, Closes, MigrationTyped
<1>1. CASE MigrateStep(a)
  BY <1>1 DEF MigrateStep, Begin, NotBegun, Connect, TakeLock, CheckRole, ReadPrevious, Apply,
     SendCommit, Commit, Acknowledge, Finish, LoginNotNeeded, CreateLogin, CommitLogin, LoginCreated, StartWeb, SessionEnds, Fails
<1>2. CASE MigrateFault(a)
  BY <1>2 DEF MigrateFault, Refused, Loses, Killed, Fails
<1>3. CASE \E b \in Builds : Up(a, b) \/ \E kind \in {"upgrade", "manual"} : Run(a, b, kind)
  BY <1>3 DEF Up, Run, Starts
<1> QED
  BY <1>1, <1>2, <1>3 DEF StepOf

\* Nobody takes a lock that somebody has.
LEMMA LockSteps ==
    ASSUME NEW a \in Attempts, StepOf(a)
    PROVE  locker' = locker \/ locker' = locker \ {a} \/ locker = {}
BY DEF StepOf, Up, Run, Starts, MigrateStep, Begin, NotBegun, Connect, TakeLock, CheckRole,
   ReadPrevious, Apply, SendCommit, Commit, Acknowledge, Finish, LoginNotNeeded,
     CreateLogin, CommitLogin, LoginCreated, StartWeb, SessionEnds,
   MigrateFault, Refused, Loses, Killed, Closes

\* Only a commit changes what ran, and it adds the next file.
LEMMA RanSteps ==
    ASSUME NEW a \in Attempts, StepOf(a)
    PROVE  \/ ran' = ran /\ recorded' = recorded
           \/ Commit(a)
BY DEF StepOf, Up, Run, Starts, MigrateStep, Begin, NotBegun, Connect, TakeLock, CheckRole,
   ReadPrevious, Apply, SendCommit, Acknowledge, Finish, LoginNotNeeded,
     CreateLogin, CommitLogin, LoginCreated, StartWeb, SessionEnds,
   MigrateFault, Refused, Loses, Killed

\* A commit adds the next file of its build's list to what ran.
LEMMA CommitAdds ==
    ASSUME MigrationTyped, NEW a \in Attempts, Planned(a), InStep(a), Locked(a), Commit(a)
    PROVE  /\ locker = {a} /\ attempt[a].build \in Builds /\ Agrees(attempt[a].build)
           /\ Len(ran) + 1 \in DOMAIN Ships[attempt[a].build]
           /\ Len(ran') = Len(ran) + 1 /\ DOMAIN ran' = 1 .. Len(ran) + 1
           /\ ran' \in Seq([file : Files, by : Attempts \cup {Nobody}])
           /\ \A i \in 1 .. Len(ran) : ran'[i] = ran[i]
           /\ ran'[Len(ran) + 1].file = Ships[attempt[a].build][Len(ran) + 1]
           /\ ran'[Len(ran) + 1].by = a
           /\ recorded' = recorded \cup {Ships[attempt[a].build][Len(ran) + 1]}
<1> DEFINE Row == [file : Files, by : Attempts \cup {Nobody}]
           row == [file |-> NextFile(a), by |-> a]
<1>1. session[a] = "sent" /\ Plans(a) /\ Holds(a)
  BY DEF Commit, Plans, Holds
<1>2. /\ attempt[a].build \in Builds /\ Following(a) = Len(ran) + 1
      /\ Len(ran) + 1 \in DOMAIN Ships[attempt[a].build]
  BY <1>1, FollowingIsNext
<1>3. NextFile(a) = Ships[attempt[a].build][Len(ran) + 1] /\ NextFile(a) \in Files
  <2> HIDE DEF Files
  <2> QED
    BY <1>2, ShipsShape DEF NextFile
<1>4. row \in Row /\ ran \in Seq(Row)
  <2> HIDE DEF Files
  <2> QED
    BY <1>3 DEF MigrationTyped
<1>5. /\ ran' = Append(ran, row) /\ row.file = NextFile(a) /\ row.by = a
      /\ recorded' = recorded \cup {NextFile(a)}
  BY DEF Commit
<1>6. locker = {a} /\ Agrees(attempt[a].build)
  BY <1>1 DEF Locked, Planned
<1>7. /\ Append(ran, row) \in Seq(Row) /\ Len(Append(ran, row)) = Len(ran) + 1
      /\ \A i \in 1 .. Len(ran) : Append(ran, row)[i] = ran[i]
      /\ Append(ran, row)[Len(ran) + 1] = row
      /\ DOMAIN Append(ran, row) = 1 .. Len(ran) + 1
  <2> HIDE DEF Row, row
  <2> QED
    BY <1>4, AppendProperties, LenProperties
<1> HIDE DEF row
<1> QED
  BY <1>2, <1>3, <1>5, <1>6, <1>7

\* What one run does breaks nothing another one relies on.
LEMMA OthersKept ==
    ASSUME MigrationTyped, RunsInv, NEW a \in Attempts, StepOf(a), NEW c \in Attempts, c # a
    PROVE  Locked(c)' /\ Planned(c)' /\ InStep(c)' /\ SaysTrue(c)'
<1>1. attempt'[c] = attempt[c] /\ session'[c] = session[c]
  BY OthersStand
<1>2. Locked(c) /\ Planned(c) /\ InStep(c) /\ SaysTrue(c)
  BY DEF RunsInv
<1>3. Locked(c)'
  BY <1>1, <1>2, OthersStand DEF Locked, Holds
<1>4. CASE ran' = ran
  BY <1>1, <1>2, <1>3, <1>4
     DEF Planned, InStep, SaysTrue, Plans, Rest, Agrees, Covered
<1>5. CASE Commit(a)
  <2>1. ~ Holds(c)
    BY <1>2, <1>5, CommitAdds DEF RunsInv, Locked
  <2>2. ~ Plans(c) /\ ~ Plans(c)'
    BY <1>1, <2>1 DEF Holds, Plans
  <2>3. \A b \in Builds : Covered(b) => Covered(b)'
    BY <1>5, CommitAdds, RanShape DEF RunsInv, Covered
  <2>4. Planned(c)'
    BY <1>1, <1>2, <2>2, <2>3 DEF Planned
  <2>5. InStep(c)'
    BY <1>1, <1>2, <2>1 DEF InStep, Holds
  <2>6. (\E i \in DOMAIN ran' : ran'[i].by = c) => \E i \in DOMAIN ran : ran[i].by = c
    BY <1>5, CommitAdds, RanShape DEF RunsInv
  <2>7. SaysTrue(c)'
    BY <1>1, <1>2, <2>6 DEF SaysTrue
  <2> QED
    BY <1>3, <2>4, <2>5, <2>7
<1> QED
  BY <1>4, <1>5, RanSteps

\* A run that goes on to another stage, or ends, keeps what it relies on.
LEMMA OwnKeptGoingOn ==
    ASSUME MigrationTyped, RunsInv, NEW a \in Attempts,
           \/ Begin(a) \/ NotBegun(a) \/ Connect(a) \/ TakeLock(a) \/ CheckRole(a)
           \/ Apply(a) \/ SendCommit(a) \/ LoginNotNeeded(a) \/ CreateLogin(a) \/ LoginCreated(a)
           \/ StartWeb(a) \/ Killed(a)
    PROVE  Locked(a)' /\ Planned(a)' /\ InStep(a)' /\ SaysTrue(a)'
<1>0. Locked(a) /\ Planned(a) /\ InStep(a) /\ SaysTrue(a)
  BY DEF RunsInv
<1> USE DEF Locked, Planned, InStep, SaysTrue, Holds, Plans, Rest, Agrees, Covered
<1>1. CASE Begin(a)
  <2>1. GoOn(a, "connecting") /\ ran' = ran /\ session' = session /\ locker' = locker /\ attempt[a].at = "waiting"
    BY <1>1 DEF Begin, SetSession, Closes, MigrationTyped, At, secretVars
  <2>2. /\ attempt'[a].at = "connecting" /\ attempt'[a].build = attempt[a].build
        /\ attempt'[a].todo = attempt[a].todo /\ attempt'[a].said = attempt[a].said
        /\ attempt'[a].committed = attempt[a].committed
    BY <2>1, GoesOn DEF Stages
  <2> QED
    BY <1>0, <2>1, <2>2 DEF Ended
<1>2. CASE NotBegun(a)
  <2>1. GoOn(a, "failed") /\ ran' = ran /\ session' = session /\ locker' = locker /\ attempt[a].at = "waiting"
    BY <1>2 DEF NotBegun, SetSession, Closes, MigrationTyped, At, secretVars
  <2>2. /\ attempt'[a].at = "failed" /\ attempt'[a].build = attempt[a].build
        /\ attempt'[a].todo = attempt[a].todo /\ attempt'[a].said = attempt[a].said
        /\ attempt'[a].committed = attempt[a].committed
    BY <2>1, GoesOn DEF Stages
  <2> QED
    BY <1>0, <2>1, <2>2 DEF Ended
<1>3. CASE Connect(a)
  <2>1. GoOn(a, "locking") /\ ran' = ran /\ session'[a] = "idle" /\ locker' = locker /\ attempt[a].at = "connecting"
    BY <1>3 DEF Connect, SetSession, Closes, MigrationTyped, At, secretVars
  <2>2. /\ attempt'[a].at = "locking" /\ attempt'[a].build = attempt[a].build
        /\ attempt'[a].todo = attempt[a].todo /\ attempt'[a].said = attempt[a].said
        /\ attempt'[a].committed = attempt[a].committed
    BY <2>1, GoesOn DEF Stages
  <2> QED
    BY <1>0, <2>1, <2>2 DEF Ended
<1>4. CASE TakeLock(a)
  <2>1. GoOn(a, "checking") /\ ran' = ran /\ session' = session /\ locker' = {a} /\ attempt[a].at = "locking"
    BY <1>4 DEF TakeLock, SetSession, Closes, MigrationTyped, At, secretVars
  <2>2. /\ attempt'[a].at = "checking" /\ attempt'[a].build = attempt[a].build
        /\ attempt'[a].todo = attempt[a].todo /\ attempt'[a].said = attempt[a].said
        /\ attempt'[a].committed = attempt[a].committed
    BY <2>1, GoesOn DEF Stages
  <2> QED
    BY <1>0, <2>1, <2>2 DEF Ended
<1>5. CASE CheckRole(a)
  <2>1. GoOn(a, "reading") /\ ran' = ran /\ session' = session /\ locker' = locker /\ attempt[a].at = "checking"
    BY <1>5 DEF CheckRole, SetSession, Closes, MigrationTyped, At, secretVars
  <2>2. /\ attempt'[a].at = "reading" /\ attempt'[a].build = attempt[a].build
        /\ attempt'[a].todo = attempt[a].todo /\ attempt'[a].said = attempt[a].said
        /\ attempt'[a].committed = attempt[a].committed
    BY <2>1, GoesOn DEF Stages
  <2> QED
    BY <1>0, <2>1, <2>2 DEF Ended
<1>6. CASE Apply(a)
  <2>1. GoOn(a, "applying") /\ ran' = ran /\ session'[a] = "begun" /\ locker' = locker /\ attempt[a].at = "next" /\ attempt[a].todo # {}
    BY <1>6 DEF Apply, SetSession, Closes, MigrationTyped, At, secretVars
  <2>2. /\ attempt'[a].at = "applying" /\ attempt'[a].build = attempt[a].build
        /\ attempt'[a].todo = attempt[a].todo /\ attempt'[a].said = attempt[a].said
        /\ attempt'[a].committed = attempt[a].committed
    BY <2>1, GoesOn DEF Stages
  <2> QED
    BY <1>0, <2>1, <2>2 DEF Ended
<1>7. CASE SendCommit(a)
  <2>1. GoOn(a, "committing") /\ ran' = ran /\ session'[a] = "sent" /\ locker' = locker /\ attempt[a].at = "applying"
    BY <1>7 DEF SendCommit, SetSession, Closes, MigrationTyped, At, secretVars
  <2>2. /\ attempt'[a].at = "committing" /\ attempt'[a].build = attempt[a].build
        /\ attempt'[a].todo = attempt[a].todo /\ attempt'[a].said = attempt[a].said
        /\ attempt'[a].committed = attempt[a].committed
    BY <2>1, GoesOn DEF Stages
  <2> QED
    BY <1>0, <2>1, <2>2 DEF Ended
<1>8. CASE LoginNotNeeded(a)
  <2>1. GoOn(a, "done") /\ ran' = ran /\ session' = session /\ locker' = locker /\ attempt[a].at = "login"
    BY <1>8 DEF LoginNotNeeded, SetSession, Closes, MigrationTyped, At, secretVars
  <2>2. /\ attempt'[a].at = "done" /\ attempt'[a].build = attempt[a].build
        /\ attempt'[a].todo = attempt[a].todo /\ attempt'[a].said = attempt[a].said
        /\ attempt'[a].committed = attempt[a].committed
    BY <2>1, GoesOn DEF Stages
  <2> QED
    BY <1>0, <2>1, <2>2 DEF Ended
<1>9. CASE StartWeb(a)
  <2>1. GoOn(a, "deployed") /\ ran' = ran /\ session' = session /\ locker' = locker /\ attempt[a].at = "done"
    BY <1>9 DEF StartWeb, SetSession, Closes, MigrationTyped, At, secretVars
  <2>2. /\ attempt'[a].at = "deployed" /\ attempt'[a].build = attempt[a].build
        /\ attempt'[a].todo = attempt[a].todo /\ attempt'[a].said = attempt[a].said
        /\ attempt'[a].committed = attempt[a].committed
    BY <2>1, GoesOn DEF Stages
  <2> QED
    BY <1>0, <2>1, <2>2 DEF Ended
<1>10. CASE Killed(a)
  <2>1. GoOn(a, "killed") /\ ran' = ran /\ session' = session /\ locker' = locker /\ attempt[a].at \notin Ended
    BY <1>10 DEF Killed, Running, SetSession, Closes, MigrationTyped, At, secretVars
  <2>2. /\ attempt'[a].at = "killed" /\ attempt'[a].build = attempt[a].build
        /\ attempt'[a].todo = attempt[a].todo /\ attempt'[a].said = attempt[a].said
        /\ attempt'[a].committed = attempt[a].committed
    BY <2>1, GoesOn DEF Stages
  <2> QED
    BY <1>0, <2>1, <2>2 DEF Ended
<1>11. CASE CreateLogin(a)
  <2>1. GoOn(a, "confirming") /\ ran' = ran /\ session'[a] = "login-sent" /\ locker' = locker /\ attempt[a].at = "login"
    BY <1>11 DEF CreateLogin, SetSession, Closes, MigrationTyped, At, secretVars
  <2>2. /\ attempt'[a].at = "confirming" /\ attempt'[a].build = attempt[a].build
        /\ attempt'[a].todo = attempt[a].todo /\ attempt'[a].said = attempt[a].said
        /\ attempt'[a].committed = attempt[a].committed
    BY <2>1, GoesOn DEF Stages
  <2> QED
    BY <1>0, <2>1, <2>2 DEF Ended
<1>12. CASE LoginCreated(a)
  <2>1. GoOn(a, "done") /\ ran' = ran /\ session'[a] = "none" /\ locker' = locker /\ attempt[a].at = "confirming"
    BY <1>12 DEF LoginCreated, SetSession, Closes, MigrationTyped, At, secretVars
  <2>2. /\ attempt'[a].at = "done" /\ attempt'[a].build = attempt[a].build
        /\ attempt'[a].todo = attempt[a].todo /\ attempt'[a].said = attempt[a].said
        /\ attempt'[a].committed = attempt[a].committed
    BY <2>1, GoesOn DEF Stages
  <2> QED
    BY <1>0, <2>1, <2>2 DEF Ended
<1> QED
  BY <1>1, <1>2, <1>3, <1>4, <1>5, <1>6, <1>7, <1>8, <1>9, <1>10, <1>11, <1>12

\* A run that fails, and a session that ends, leave nothing half true.
LEMMA OwnKeptEnding ==
    ASSUME MigrationTyped, RunsInv, NEW a \in Attempts,
           Refused(a) \/ Loses(a) \/ SessionEnds(a)
    PROVE  Locked(a)' /\ Planned(a)' /\ InStep(a)' /\ SaysTrue(a)'
<1>0. Locked(a) /\ Planned(a) /\ InStep(a) /\ SaysTrue(a)
  BY DEF RunsInv
<1> USE DEF Locked, Planned, InStep, SaysTrue, Holds, Plans, Rest, Agrees, Covered
<1>1. CASE SessionEnds(a)
  <2>1. /\ attempt' = attempt /\ ran' = ran /\ session'[a] = "none" /\ attempt[a].at \in Ended
    BY <1>1 DEF SessionEnds, Running, SetSession, Closes, MigrationTyped
  <2> QED
    BY <1>0, <2>1 DEF Ended
<1>2. CASE Refused(a)
  <2>1. /\ ran' = ran /\ session'[a] = "none"
        /\ attempt[a].at \notin Ended
        /\ attempt[a].at = "committing" => session[a] = "sent"
    BY <1>2 DEF Refused, Ended, SetSession, Closes, MigrationTyped, At
  <2> QED
    BY <1>0, <1>2, <2>1, Failing DEF Ended
<1>3. CASE Loses(a)
  <2>1. /\ ran' = ran /\ session' = session /\ locker' = locker
        /\ attempt[a].at \in Connected /\ attempt[a].at \notin Ended
    BY <1>3 DEF Loses, Connected, Ended
  <2>2. session[a] \in Sessions
    BY DEF MigrationTyped
  <2> QED
    BY <1>0, <1>3, <2>1, <2>2, Failing DEF Ended, Connected, Sessions
<1> QED
  BY <1>1, <1>2, <1>3

\* A run reads what is left of its list, after comparing what is recorded.
LEMMA OwnKeptReading ==
    ASSUME MigrationTyped, RunsInv, SchemaInv, NEW a \in Attempts, ReadPrevious(a)
    PROVE  Locked(a)' /\ Planned(a)' /\ InStep(a)' /\ SaysTrue(a)'
<1>0. Locked(a) /\ Planned(a) /\ InStep(a) /\ SaysTrue(a)
  BY DEF RunsInv
<1>1. /\ ran' = ran /\ attempt[a].at = "reading" /\ session[a] = "idle"
      /\ attempt[a].build \in Builds /\ locker = {a}
  BY <1>0 DEF ReadPrevious, InStep, Planned, Locked, Holds
<1>2. CASE AppliedChanged(attempt[a].build)
  <2>1. Fails(a, FALSE) /\ session'[a] = "none"
    BY <1>2 DEF ReadPrevious, Closes, SetSession, MigrationTyped
  <2>2. /\ attempt'[a].at = "failed" /\ attempt'[a].build = attempt[a].build
        /\ attempt'[a].todo = attempt[a].todo /\ attempt'[a].committed = attempt[a].committed
        /\ attempt'[a].said = "unchanged" => attempt[a].said = "unchanged" \/ attempt[a].committed = 0
    BY <2>1 DEF Fails, GoOn, MigrationTyped, Attempt
  <2> QED
    BY <1>0, <1>1, <2>1, <2>2
       DEF Locked, Planned, InStep, SaysTrue, Holds, Plans, Ended
<1>3. CASE ~ AppliedChanged(attempt[a].build)
  <2> DEFINE list == Ships[attempt[a].build]
  <2>1. /\ attempt' = [attempt EXCEPT ![a].at = "next", ![a].todo = Missing(attempt[a].build)]
        /\ session' = session /\ locker' = locker
    BY <1>3 DEF ReadPrevious
  <2>2. PICK b \in Builds : Agrees(b) /\ Len(ran) <= Len(Ships[b])
    BY DEF SchemaInv
  <2>3. /\ DOMAIN Ships[b] = 1 .. Len(Ships[b]) /\ Len(Ships[b]) \in Nat
        /\ DOMAIN list = 1 .. Len(list) /\ Len(list) \in Nat
        /\ Len(ran) \in Nat /\ DOMAIN ran = 1 .. Len(ran)
    BY <1>1, ShipsShape, RanShape
  <2>4. \A j \in DOMAIN ran : j \in DOMAIN Ships[b] /\ ran[j].file = Ships[b][j]
    BY <2>2, <2>3 DEF Agrees
  <2>5. \A i \in DOMAIN list, j \in DOMAIN ran : list[i].name = ran[j].file.name <=> i = j
    BY <1>1, <2>4, ShipsAssumption
  <2>6. recorded = {ran[j].file : j \in DOMAIN ran}
    BY DEF SchemaInv
  <2>7. Agrees(attempt[a].build)
    <3>1. ASSUME NEW i \in DOMAIN ran, i \in DOMAIN list
          PROVE  ran[i].file = list[i]
      <4>1. list[i] \in ToSet(list) /\ ran[i].file \in recorded
        BY <2>6, <3>1 DEF ToSet
      <4>2. list[i].name = ran[i].file.name
        BY <2>5, <3>1
      <4> QED
        BY <1>3, <4>1, <4>2 DEF AppliedChanged
    <3> QED
      BY <3>1 DEF Agrees
  <2>8. Missing(attempt[a].build) = {i \in DOMAIN list : i > Len(ran)}
    <3>1. ASSUME NEW i \in DOMAIN list
          PROVE  (\A g \in recorded : g.name # list[i].name) <=> i > Len(ran)
      <4>1. (\A g \in recorded : g.name # list[i].name) <=> \A j \in DOMAIN ran : j # i
        BY <2>5, <2>6, <3>1
      <4>2. (\A j \in DOMAIN ran : j # i) <=> i > Len(ran)
        BY <2>3
      <4> QED
        BY <4>1, <4>2
    <3> QED
      BY <3>1 DEF Missing
  <2>9. /\ attempt'[a].at = "next" /\ attempt'[a].todo = Missing(attempt[a].build)
        /\ attempt'[a].build = attempt[a].build /\ attempt'[a].said = attempt[a].said
        /\ attempt'[a].committed = attempt[a].committed
    BY <2>1 DEF MigrationTyped, Attempt
  <2>10. Agrees(attempt[a].build)' /\ Rest(a)' = {i \in DOMAIN list : i > Len(ran)}
    BY <1>1, <2>1, <2>7, <2>9 DEF Agrees, Rest
  <2> QED
    BY <1>0, <1>1, <2>1, <2>8, <2>9, <2>10
       DEF Locked, Planned, InStep, SaysTrue, Holds, Plans, Ended
<1> QED
  BY <1>2, <1>3

\* A commit and its answer, and the end of the list.
LEMMA OwnKeptCommitting ==
    ASSUME MigrationTyped, RunsInv, NEW a \in Attempts,
           Commit(a) \/ Acknowledge(a) \/ Finish(a) \/ CommitLogin(a)
    PROVE  Locked(a)' /\ Planned(a)' /\ InStep(a)' /\ SaysTrue(a)'
<1>0. Locked(a) /\ Planned(a) /\ InStep(a) /\ SaysTrue(a)
  BY DEF RunsInv
<1>1. CASE Commit(a)
  <2>1. /\ attempt' = attempt /\ session[a] = "sent" /\ session'[a] = "committed" /\ locker' = locker
        /\ attempt[a].said # "unchanged"
    BY <1>0, <1>1 DEF Commit, SetSession, MigrationTyped, SaysTrue
  <2>2. /\ locker = {a} /\ attempt[a].build \in Builds /\ Agrees(attempt[a].build)
        /\ Len(ran) + 1 \in DOMAIN Ships[attempt[a].build]
        /\ Len(ran') = Len(ran) + 1 /\ DOMAIN ran' = 1 .. Len(ran) + 1
        /\ \A i \in 1 .. Len(ran) : ran'[i] = ran[i]
        /\ ran'[Len(ran) + 1].file = Ships[attempt[a].build][Len(ran) + 1]
        /\ Len(ran) \in Nat /\ DOMAIN ran = 1 .. Len(ran)
        /\ DOMAIN Ships[attempt[a].build] = 1 .. Len(Ships[attempt[a].build])
        /\ Len(Ships[attempt[a].build]) \in Nat
    BY <1>0, <1>1, CommitAdds, RanShape, ShipsShape
  <2>3. Agrees(attempt[a].build)'
    BY <2>1, <2>2 DEF Agrees
  <2>4. Plans(a) /\ attempt[a].todo = Rest(a)
    BY <1>0, <2>1 DEF Planned, Plans
  <2>5. Rest(a)' = attempt[a].todo
    BY <2>1, <2>2, <2>4 DEF Rest
  <2>6. attempt[a].at \in {"committing"} \cup (Ended \ {"unused"})
    <3>1. attempt[a].at \in Stages
      BY DEF MigrationTyped, Attempt
    <3> QED
      BY <1>0, <2>1, <3>1 DEF InStep, Stages, Ended
  <2>7. Planned(a)'
    BY <1>0, <2>1, <2>2, <2>3, <2>4, <2>5 DEF Planned, Plans, Covered
  <2>8. InStep(a)'
    BY <1>0, <2>1, <2>2 DEF InStep
  <2>9. SaysTrue(a)'
    BY <1>0, <2>1, <2>6 DEF SaysTrue
  <2> QED
    BY <2>1, <2>2, <2>7, <2>8, <2>9 DEF Locked
<1>2. CASE Acknowledge(a)
  <2>1. /\ attempt[a].at = "committing" /\ session[a] = "committed" /\ ran' = ran
        /\ locker' = locker /\ session'[a] = "idle"
        /\ attempt'[a].at = "next" /\ attempt'[a].todo = attempt[a].todo \ {Following(a)}
        /\ attempt'[a].committed = attempt[a].committed + 1
        /\ attempt'[a].build = attempt[a].build /\ attempt'[a].said = attempt[a].said
    BY <1>2 DEF Acknowledge, At, SetSession, MigrationTyped, Attempt
  <2>2. Plans(a) /\ Holds(a) /\ attempt[a].committed \in Nat
    BY <2>1 DEF Plans, Holds, MigrationTyped, Attempt
  <2>3. /\ Following(a) = Len(ran) /\ attempt[a].build \in Builds
    BY <1>0, <2>1, <2>2, FollowingIsNext
  <2>4. /\ Len(ran) \in Nat /\ DOMAIN Ships[attempt[a].build] \subseteq Int
    BY <2>3, ShipsShape, RanShape
  <2>5. Rest(a)' = attempt'[a].todo
    BY <1>0, <2>1, <2>2, <2>3, <2>4 DEF Rest, Planned
  <2>6. Agrees(attempt[a].build)'
    BY <1>0, <2>1, <2>2 DEF Planned, Agrees
  <2> QED
    BY <1>0, <2>1, <2>2, <2>5, <2>6 DEF Locked, Planned, InStep, SaysTrue
<1>3. CASE Finish(a)
  <2>1. /\ GoOn(a, "login") /\ attempt[a].at = "next" /\ attempt[a].todo = {}
        /\ session'[a] = "none" /\ ran' = ran
    BY <1>3 DEF Finish, Closes, SetSession, MigrationTyped
  <2>2. /\ attempt'[a].at = "login" /\ attempt'[a].build = attempt[a].build
        /\ attempt'[a].said = attempt[a].said /\ attempt'[a].committed = attempt[a].committed
    BY <2>1, GoesOn DEF Stages
  <2>3. Plans(a) /\ attempt[a].build \in Builds
    BY <1>0, <2>1 DEF Plans, Planned
  <2>4. /\ Len(ran) \in Nat /\ DOMAIN ran = 1 .. Len(ran)
        /\ DOMAIN Ships[attempt[a].build] = 1 .. Len(Ships[attempt[a].build])
        /\ Len(Ships[attempt[a].build]) \in Nat
    BY <2>3, ShipsShape, RanShape
  <2>5. Covered(attempt[a].build)
    BY <1>0, <2>1, <2>3, <2>4 DEF Planned, Rest, Agrees, Covered
  <2>6. Covered(attempt[a].build)'
    BY <2>1, <2>2, <2>5 DEF Covered
  <2> QED
    BY <1>0, <2>1, <2>2, <2>3, <2>6
       DEF Locked, Planned, InStep, SaysTrue, Holds, Plans, Ended
<1>4. CASE CommitLogin(a)
  <2>1. /\ attempt' = attempt /\ ran' = ran /\ locker' = locker
        /\ session[a] = "login-sent" /\ session'[a] = "login-committed"
    BY <1>4 DEF CommitLogin, SetSession, MigrationTyped
  <2> QED
    BY <1>0, <2>1 DEF Locked, Planned, InStep, SaysTrue, Holds, Plans, Covered
<1> QED
  BY <1>1, <1>2, <1>3, <1>4

\* A run starts with nothing said, counted or open.
LEMMA OwnKeptStarting ==
    ASSUME MigrationTyped, RunsInv, NEW a \in Attempts, NEW b \in Builds,
           Up(a, b) \/ \E kind \in {"upgrade", "manual"} : Run(a, b, kind)
    PROVE  Locked(a)' /\ Planned(a)' /\ InStep(a)' /\ SaysTrue(a)' /\ attempt' \in [Attempts -> Attempt]
<1>0. Locked(a) /\ Planned(a) /\ InStep(a) /\ SaysTrue(a)
  BY DEF RunsInv
<1>1. PICK kind \in Kinds : Starts(a, kind, b)
  BY DEF Up, Run, Kinds
<1>2. /\ attempt[a].at = "unused" /\ session' = session /\ ran' = ran /\ locker' = locker
      /\ attempt' = [attempt EXCEPT ![a] = [Unused EXCEPT !.at = "waiting", !.kind = kind, !.build = b]]
  BY <1>1 DEF Starts
<1> DEFINE begun == [Unused EXCEPT !.at = "waiting", !.kind = kind, !.build = b]
<1>3. /\ begun \in Attempt /\ begun.at = "waiting" /\ begun.build = b
      /\ begun.committed = 0 /\ begun.said = "nothing"
  BY DEF Unused, Attempt, Stages, Kinds
<1>4. attempt' \in [Attempts -> Attempt] /\ attempt'[a] = begun
  <2>1. attempt' = [attempt EXCEPT ![a] = begun]
    BY <1>2
  <2> HIDE DEF begun
  <2> QED
    BY <1>3, <2>1 DEF MigrationTyped
<1>5. session[a] = "none" /\ ~ \E i \in DOMAIN ran : ran[i].by = a
  <2>1. attempt[a].said # "unchanged" => attempt[a].committed > 0 \/ ~ \E i \in DOMAIN ran : ran[i].by = a
    BY <1>0, <1>2 DEF SaysTrue
  <2> QED
    BY <1>0, <1>2, <2>1 DEF InStep, SaysTrue
<1> QED
  BY <1>2, <1>3, <1>4, <1>5 DEF Locked, Planned, InStep, SaysTrue, Holds, Plans
\* Whatever a run does, what holds of it goes on to hold.
LEMMA OwnKept ==
    ASSUME MigrationTyped, RunsInv, SchemaInv, NEW a \in Attempts, StepOf(a)
    PROVE  Locked(a)' /\ Planned(a)' /\ InStep(a)' /\ SaysTrue(a)'
<1>1. CASE MigrateStep(a)
  BY <1>1, OwnKeptGoingOn, OwnKeptEnding, OwnKeptReading, OwnKeptCommitting DEF MigrateStep
<1>2. CASE MigrateFault(a)
  BY <1>2, OwnKeptGoingOn, OwnKeptEnding DEF MigrateFault
<1>3. CASE \E b \in Builds : Up(a, b) \/ \E kind \in {"upgrade", "manual"} : Run(a, b, kind)
  BY <1>3, OwnKeptStarting
<1> QED
  BY <1>1, <1>2, <1>3 DEF StepOf

\* Every step of a migration is a step of one run.
LEMMA SomeRun ==
    ASSUME NextMigration
    PROVE  \E a \in Attempts : StepOf(a)
BY DEF NextMigration, Starting, StepOf

\* A backup takes the lock when it is free, and gives back its own.
LEMMA BackupAndLock ==
    ASSUME NextBackup
    PROVE  \/ locker' = locker \/ locker = {}
           \/ \E b \in Backups : locker' = locker \ {b}
BY DEF NextBackup, OpenSnapshot, SnapshotRefused, BackupStep, SnapshotLost, VerifyFile, Pack,
       FilesVerified, Dump, Release, PublishBackup, BackupFails, Others, OthersButLock,
       migrationVars, Unlocks

\* What holds of the runs goes on to hold.
LEMMA RunsKept ==
    ASSUME MigrationTyped, RunsInv, SchemaInv, [NextDeployment]_deploymentVars
    PROVE  RunsInv'
<1>1. CASE NextMigration
  <2>1. PICK a \in Attempts : StepOf(a)
    BY <1>1, SomeRun
  <2>2. ASSUME NEW c \in Attempts
        PROVE  Locked(c)' /\ Planned(c)' /\ InStep(c)' /\ SaysTrue(c)'
    BY <2>1, OwnKept, OthersKept
  <2> QED
    BY <2>2 DEF RunsInv
<1>2. CASE UNCHANGED migrationVars
  BY <1>2 DEF migrationVars, RunsInv, Locked, Planned, InStep, SaysTrue, Holds, Plans, Rest,
     Agrees, Covered
<1>3. CASE NextBackup
  <2>1. /\ ran' = ran /\ attempt' = attempt /\ session' = session
        /\ locker' = locker \/ locker = {} \/ \E b \in Backups : locker' = locker \ {b}
    BY <1>3, BackupMoves, BackupAndLock
  <2>2. ASSUME NEW c \in Attempts
        PROVE  Locked(c)' /\ Planned(c)' /\ InStep(c)' /\ SaysTrue(c)'
    <3>1. Locked(c) /\ Planned(c) /\ InStep(c) /\ SaysTrue(c)
      BY DEF RunsInv
    <3>2. Locked(c)'
      BY <2>1, <3>1, BackupAssumption DEF Locked, Holds
    <3> QED
      BY <2>1, <3>1, <3>2
         DEF Planned, InStep, SaysTrue, Plans, Rest, Agrees, Covered
  <2> QED
    BY <2>2 DEF RunsInv
<1> QED
  BY <1>1, <1>2, <1>3 DEF NextDeployment, deploymentVars

\* A run that reads its list is typed as before.
LEMMA ReadsTyped ==
    ASSUME MigrationTyped, NEW a \in Attempts, NEW rest \in SUBSET Nat,
           attempt' = [attempt EXCEPT ![a].at = "next", ![a].todo = rest]
    PROVE  attempt' \in [Attempts -> Attempt]
<1>1. [attempt[a] EXCEPT !.at = "next", !.todo = rest] \in Attempt
  <2>1. attempt[a] \in Attempt
    BY DEF MigrationTyped
  <2> QED
    BY <2>1 DEF Attempt, Stages
<1> QED
  BY <1>1 DEF MigrationTyped

\* A run that counts a commit is typed as before.
LEMMA CountsTyped ==
    ASSUME MigrationTyped, NEW a \in Attempts, NEW rest \in SUBSET Nat, NEW more \in Nat,
           attempt' = [attempt EXCEPT ![a].at = "next", ![a].todo = rest, ![a].committed = more]
    PROVE  attempt' \in [Attempts -> Attempt]
<1>1. [attempt[a] EXCEPT !.at = "next", !.todo = rest, !.committed = more] \in Attempt
  <2>1. attempt[a] \in Attempt
    BY DEF MigrationTyped
  <2> QED
    BY <2>1 DEF Attempt, Stages
<1> QED
  BY <1>1 DEF MigrationTyped

\* Runs start, read and count as they are typed.
LEMMA RunsStayTyped ==
    ASSUME MigrationTyped, RunsInv, NEW a \in Attempts, StepOf(a)
    PROVE  attempt' \in [Attempts -> Attempt] /\ session' \in [Attempts -> Sessions]
<1>1. session' \in [Attempts -> Sessions]
  <2> USE DEF MigrationTyped, Sessions, SetSession, Closes
  <2>1. CASE MigrateStep(a)
    BY <2>1 DEF MigrateStep, Begin, NotBegun, Connect, TakeLock, CheckRole, ReadPrevious, Apply,
       SendCommit, Commit, Acknowledge, Finish, LoginNotNeeded,
     CreateLogin, CommitLogin, LoginCreated, StartWeb, SessionEnds
  <2>2. CASE MigrateFault(a)
    BY <2>2 DEF MigrateFault, Refused, Loses, Killed
  <2>3. CASE \E b \in Builds : Up(a, b) \/ \E kind \in {"upgrade", "manual"} : Run(a, b, kind)
    BY <2>3 DEF Up, Run, Starts
  <2> QED
    BY <2>1, <2>2, <2>3 DEF StepOf
<1>2. attempt' \in [Attempts -> Attempt]
  <2>1. CASE \E b \in Builds : Up(a, b) \/ \E kind \in {"upgrade", "manual"} : Run(a, b, kind)
    BY <2>1, OwnKeptStarting
  <2>2. ASSUME NEW at \in Stages, GoOn(a, at)
        PROVE  attempt' \in [Attempts -> Attempt]
    BY <2>2, GoesOn
  <2>3. CASE Refused(a) \/ Loses(a)
    BY <2>3, Failing
  <2>4. CASE \/ Begin(a) \/ NotBegun(a) \/ Connect(a) \/ TakeLock(a) \/ CheckRole(a)
             \/ Apply(a) \/ SendCommit(a) \/ Finish(a) \/ LoginNotNeeded(a) \/ CreateLogin(a)
             \/ LoginCreated(a) \/ StartWeb(a) \/ Killed(a)
    <3>1. \E at \in Stages : GoOn(a, at)
      BY <2>4 DEF Begin, NotBegun, Connect, TakeLock, CheckRole, Apply, SendCommit, Finish, LoginNotNeeded,
         CreateLogin, LoginCreated, StartWeb, Killed, Stages
    <3> QED
      BY <2>2, <3>1
  <2>5. CASE Commit(a) \/ CommitLogin(a) \/ SessionEnds(a)
    BY <2>5 DEF Commit, CommitLogin, SessionEnds, MigrationTyped
  <2>6. CASE Acknowledge(a)
    <3> DEFINE rest == attempt[a].todo \ {Following(a)}
               more == attempt[a].committed + 1
    <3>1. attempt' = [attempt EXCEPT ![a].at = "next", ![a].todo = rest, ![a].committed = more]
      BY <2>6 DEF Acknowledge, MigrationTyped, Attempt
    <3>2. rest \in SUBSET Nat /\ more \in Nat
      BY DEF MigrationTyped, Attempt
    <3> HIDE DEF rest, more
    <3> QED
      BY <3>1, <3>2, CountsTyped
  <2>7. CASE ReadPrevious(a)
    <3>1. attempt[a].build \in Builds
      BY <2>7 DEF RunsInv, Planned, ReadPrevious
    <3>2. Missing(attempt[a].build) \subseteq Nat
      BY <3>1, ShipsShape DEF Missing
    <3>3. \/ GoOn(a, "failed")
          \/ \E said \in {"unchanged", "changed"} :
                attempt' = [attempt EXCEPT ![a].at = "failed", ![a].said = said]
          \/ attempt' = [attempt EXCEPT ![a].at = "next", ![a].todo = Missing(attempt[a].build)]
      BY <2>7 DEF ReadPrevious, Fails
    <3> QED
      BY <2>2, <3>2, <3>3, Says, ReadsTyped DEF Stages
  <2> QED
    BY <2>1, <2>3, <2>4, <2>5, <2>6, <2>7 DEF StepOf, MigrateStep, MigrateFault
<1> QED
  BY <1>1, <1>2

\* Only deploying moves the web service.
LEMMA WebMoves ==
    ASSUME NEW a \in Attempts, StepOf(a)
    PROVE  \/ web' \in {web, Nobody}
           \/ attempt[a].at = "done" /\ web' = attempt[a].build /\ ran' = ran
BY DEF StepOf, Up, Run, Starts, WebUnchanged, MigrateStep, Begin, NotBegun, Connect, TakeLock,
   CheckRole, ReadPrevious, Apply, SendCommit, Commit, Acknowledge, Finish, LoginNotNeeded,
     CreateLogin, CommitLogin, LoginCreated, StartWeb,
   SessionEnds, MigrateFault, Refused, Loses, Killed

\* The migrations stay typed.
LEMMA MigrationStaysTyped ==
    ASSUME MigrationTyped, RunsInv, [NextDeployment]_deploymentVars
    PROVE  MigrationTyped'
<1>1. CASE NextMigration
  <2>1. PICK a \in Attempts : StepOf(a)
    BY <1>1, SomeRun
  <2>2. attempt' \in [Attempts -> Attempt] /\ session' \in [Attempts -> Sessions]
    BY <2>1, RunsStayTyped
  <2>3. web' \in Builds \cup {Nobody}
    BY <2>1, WebMoves DEF RunsInv, Planned, MigrationTyped
  <2>4. ran' \in Seq([file : Files, by : Attempts \cup {Nobody}])
    <3>1. CASE ran' = ran
      BY <3>1 DEF MigrationTyped
    <3>2. CASE Commit(a)
      BY <3>2, CommitAdds DEF RunsInv
    <3> QED
      BY <2>1, <3>1, <3>2, RanSteps
  <2> QED
    BY <2>2, <2>3, <2>4 DEF MigrationTyped
<1>2. CASE UNCHANGED <<attempt, session, ran, web>>
  BY <1>2 DEF MigrationTyped
<1> QED
  BY <1>1, <1>2, BackupMoves DEF NextDeployment, deploymentVars, migrationVars

\* What a run does to the first account is its own transaction.
LEMMA LoginSteps ==
    ASSUME NEW a \in Attempts, StepOf(a)
    PROVE  \/ CreateLogin(a) \/ CommitLogin(a)
           \/ /\ firstLogin' = firstLogin
              /\ session' = session
                 \/ \E to \in Sessions \ {"login-sent"} : SetSession(a, to)
<1> USE DEF Closes, Sessions
<1>1. CASE MigrateStep(a)
  BY <1>1 DEF MigrateStep, Begin, NotBegun, Connect, TakeLock, CheckRole, ReadPrevious, Apply,
     SendCommit, Commit, Acknowledge, Finish, LoginNotNeeded, LoginCreated, StartWeb, SessionEnds
<1>2. CASE MigrateFault(a)
  BY <1>2 DEF MigrateFault, Refused, Loses, Killed
<1>3. CASE \E b \in Builds : Up(a, b) \/ \E kind \in {"upgrade", "manual"} : Run(a, b, kind)
  BY <1>3 DEF Up, Run, Starts
<1> QED
  BY <1>1, <1>2, <1>3 DEF StepOf

\* The first account is made once, whatever commits late.
LEMMA LoginKept ==
    ASSUME MigrationTyped, LoginInv, [NextDeployment]_deploymentVars
    PROVE  LoginInv'
<1>1. CASE NextMigration
  <2>1. PICK a \in Attempts : StepOf(a)
    BY <1>1, SomeRun
  <2>2. CASE CreateLogin(a)
    <3>1. LoginLock = {} /\ firstLogin' = firstLogin /\ firstLogin = {} /\ LoginLock' = {a}
      BY <2>2 DEF CreateLogin, SetSession, LoginLock, MigrationTyped
    <3> QED
      BY <3>1 DEF LoginInv
  <2>3. CASE CommitLogin(a)
    <3>1. /\ a \in LoginLock /\ firstLogin' = firstLogin \cup {a}
          /\ LoginLock' = LoginLock \ {a}
      BY <2>3 DEF CommitLogin, SetSession, LoginLock, MigrationTyped
    <3>2. firstLogin' = {a} /\ LoginLock' = {}
      BY <3>1 DEF LoginInv
    <3> QED
      BY <3>2 DEF LoginInv
  <2>4. CASE /\ firstLogin' = firstLogin
             /\ session' = session \/ \E to \in Sessions \ {"login-sent"} : SetSession(a, to)
    <3>1. LoginLock' \subseteq LoginLock
      BY <2>4 DEF SetSession, LoginLock, MigrationTyped
    <3> QED
      BY <2>4, <3>1 DEF LoginInv
  <2> QED
    BY <2>1, <2>2, <2>3, <2>4, LoginSteps
<1>2. CASE UNCHANGED <<session, firstLogin>>
  BY <1>2 DEF LoginInv, LoginLock
<1> QED
  BY <1>1, <1>2, BackupMoves DEF NextDeployment, deploymentVars, migrationVars

\* Commits go on along one build's list and are recorded.
LEMMA SchemaKept ==
    ASSUME MigrationTyped, RunsInv, SchemaInv, [NextDeployment]_deploymentVars
    PROVE  SchemaInv'
<1>1. CASE UNCHANGED <<ran, recorded>>
  BY <1>1 DEF SchemaInv, Agrees
<1>2. ASSUME NEW a \in Attempts, Commit(a)
      PROVE  SchemaInv'
  <2>0. PICK n, b : n = Len(ran) /\ b = attempt[a].build
    OBVIOUS
  <2>1. /\ b \in Builds /\ Agrees(b) /\ n + 1 \in DOMAIN Ships[b]
        /\ Len(ran') = n + 1 /\ DOMAIN ran' = 1 .. n + 1
        /\ \A i \in 1 .. n : ran'[i] = ran[i]
        /\ ran'[n + 1].file = Ships[b][n + 1]
        /\ recorded' = recorded \cup {Ships[b][n + 1]}
    BY <1>2, <2>0, CommitAdds DEF RunsInv
  <2>2. n \in Nat /\ DOMAIN ran = 1 .. n /\ DOMAIN Ships[b] = 1 .. Len(Ships[b])
    BY <2>0, <2>1, RanShape, ShipsShape
  <2>3. \A i \in 1 .. n + 1 : i = n + 1 \/ i \in 1 .. n
    BY <2>2
  <2>4. Agrees(b)'
    BY <2>1, <2>2, <2>3 DEF Agrees
  <2>5. Len(ran') <= Len(Ships[b])
    BY <2>1, <2>2
  <2>6. recorded' = {ran'[i].file : i \in DOMAIN ran'}
    BY <2>1, <2>2, <2>3 DEF SchemaInv
  <2> QED
    BY <2>1, <2>4, <2>5, <2>6 DEF SchemaInv, Agrees
<1> QED
  BY <1>1, <1>2, RanSteps, SomeRun, BackupMoves DEF NextDeployment, deploymentVars, migrationVars

\* The web service starts over a list that ran to its end, and nothing that ran
\* is undone.
LEMMA WebKept ==
    ASSUME MigrationTyped, RunsInv, WebInv, [NextDeployment]_deploymentVars
    PROVE  WebInv'
<1>1. CASE NextMigration
  <2>1. PICK a \in Attempts : StepOf(a)
    BY <1>1, SomeRun
  <2>2. ASSUME NEW b \in Builds, Covered(b)
        PROVE  Covered(b)'
    <3>1. CASE ran' = ran
      BY <2>2, <3>1 DEF Covered
    <3>2. CASE Commit(a)
      BY <2>2, <3>2, CommitAdds, RanShape DEF RunsInv, Covered
    <3> QED
      BY <2>1, <3>1, <3>2, RanSteps
  <2>3. CASE web' \in {web, Nobody}
    BY <2>2, <2>3 DEF WebInv, MigrationTyped, Covered
  <2>4. CASE attempt[a].at = "done" /\ web' = attempt[a].build
    BY <2>2, <2>4 DEF RunsInv, Planned, WebInv, Covered
  <2> QED
    BY <2>1, <2>3, <2>4, WebMoves
<1>2. CASE UNCHANGED <<ran, web>>
  BY <1>2 DEF WebInv, Covered
<1> QED
  BY <1>1, <1>2, BackupMoves DEF NextDeployment, deploymentVars, migrationVars

-----------------------------------------------------------------------------
(* Backups                                                                  *)

\* One run of backup changes its own record and no other.
BackupAct(b) == OpenSnapshot(b) \/ SnapshotRefused(b) \/ BackupStep(b) \/ SnapshotLost(b)

\* A backup that goes on to another stage keeps what it has.
LEMMA BackupGoing ==
    ASSUME backup \in [Backups -> BackupRow], NEW b \in Backups, NEW to,
           to \in {"dumping", "packing", "published", "failed"},
           backup' = [backup EXCEPT ![b].at = to]
    PROVE  /\ backup'[b].at = to /\ backup'[b].rows = backup[b].rows
           /\ backup'[b].used = backup[b].used /\ backup'[b].schema = backup[b].schema
           /\ backup'[b].dumpedOver = backup[b].dumpedOver
           /\ backup'[b].missing = backup[b].missing /\ backup'[b].verified = backup[b].verified
           /\ backup'[b].packed = backup[b].packed /\ backup'[b].snapshot = backup[b].snapshot
           /\ backup'[b] \in BackupRow
BY DEF BackupRow

\* A backup keeps what makes it whole.
LEMMA BackupSound ==
    ASSUME MigrationTyped, SchemaInv, PictureInv, BackupInv, NEW b \in Backups, BackupAct(b)
    PROVE  backup'[b] \in BackupRow /\ Sound(b)'
<1>0. /\ backup \in [Backups -> BackupRow] /\ backup[b] \in BackupRow /\ Sound(b)
      /\ recorded \in SUBSET Files
  <2>1. recorded \subseteq Files
    BY RanShape DEF SchemaInv
  <2> QED
    BY <2>1 DEF BackupInv
<1> USE DEF Sound, Watches
<1>1. CASE OpenSnapshot(b)
  <2> DEFINE row == [backup[b] EXCEPT !.at = "verifying", !.rows = asset, !.used = reference,
                                      !.schema = recorded, !.snapshot = "open"]
  <2>1. backup' = [backup EXCEPT ![b] = row] /\ locker' = {b} /\ reference \subseteq asset
    BY <1>1 DEF OpenSnapshot
  <2>2. recorded' = recorded /\ reference \subseteq Pictures /\ asset \subseteq Pictures
    BY <1>1 DEF OpenSnapshot, OthersButLock, PictureInv
  <2>3. /\ row \in BackupRow /\ row.at = "verifying" /\ row.rows = asset /\ row.used = reference
        /\ row.schema = recorded /\ row.snapshot = "open"
    BY <1>0, <2>2 DEF BackupRow
  <2>4. backup'[b] = row
    BY <1>0, <2>1
  <2> HIDE DEF row
  <2> QED
    BY <2>1, <2>2, <2>3, <2>4
<1>2. CASE \/ SnapshotRefused(b) \/ (\E allowMissing \in BOOLEAN : FilesVerified(b, allowMissing))
           \/ Release(b) \/ PublishBackup(b)
  <2>1. /\ recorded' = recorded
        /\ \/ /\ backup' = [backup EXCEPT ![b].at = "failed"] /\ backup[b].at = "unused"
              /\ locker' = locker
           \/ /\ backup' = [backup EXCEPT ![b].at = "dumping"] /\ backup[b].at = "verifying"
              /\ backup[b].rows = backup[b].verified \cup backup[b].missing /\ locker' = locker
           \/ /\ backup' = [backup EXCEPT ![b].at = "packing"] /\ backup[b].at = "dumped"
              /\ backup[b].snapshot = "open"
           \/ /\ backup' = [backup EXCEPT ![b].at = "published"] /\ backup[b].at = "packing"
              /\ backup[b].packed = backup[b].verified /\ locker' = locker
    BY <1>2 DEF SnapshotRefused, FilesVerified, Release, PublishBackup, BackupGoesOn, Others,
       OthersButLock, migrationVars
  <2> QED
    BY <1>0, <2>1, BackupGoing
<1>3. ASSUME NEW p \in Pictures, VerifyFile(b, p)
      PROVE  backup'[b] \in BackupRow /\ Sound(b)'
  <2>1. /\ recorded' = recorded /\ locker' = locker /\ backup[b].at = "verifying"
        /\ \/ backup' = [backup EXCEPT ![b].verified = @ \cup {p}]
           \/ backup' = [backup EXCEPT ![b].missing = @ \cup {p}]
    BY <1>3 DEF VerifyFile, Others, migrationVars
  <2> QED
    BY <1>0, <2>1 DEF BackupRow
<1>4. ASSUME NEW p \in Pictures, Pack(b, p)
      PROVE  backup'[b] \in BackupRow /\ Sound(b)'
  <2>1. /\ recorded' = recorded /\ locker' = locker /\ backup[b].at = "packing"
        /\ backup' = [backup EXCEPT ![b].packed = @ \cup {p}]
    BY <1>4 DEF Pack, Others, migrationVars
  <2> QED
    BY <1>0, <2>1 DEF BackupRow
<1>5. CASE Dump(b)
  <2> DEFINE row == [backup[b] EXCEPT !.at = "dumped", !.dumpedOver = recorded]
  <2>1. /\ recorded' = recorded /\ locker' = locker /\ backup[b].at = "dumping"
        /\ backup' = [backup EXCEPT ![b] = row]
    BY <1>5 DEF Dump, Others, migrationVars
  <2>2. /\ row \in BackupRow /\ row.at = "dumped" /\ row.dumpedOver = recorded
        /\ row.rows = backup[b].rows /\ row.used = backup[b].used /\ row.schema = backup[b].schema
        /\ row.verified = backup[b].verified /\ row.missing = backup[b].missing
        /\ row.snapshot = backup[b].snapshot
    BY <1>0 DEF BackupRow
  <2>3. backup'[b] = row
    BY <1>0, <2>1
  <2> HIDE DEF row
  <2> QED
    BY <1>0, <2>1, <2>2, <2>3
<1>6. CASE BackupFails(b) \/ SnapshotLost(b)
  <2>1. PICK to \in {"failed", backup[b].at} :
           backup' = [backup EXCEPT ![b] = [backup[b] EXCEPT !.at = to, !.snapshot = "closed"]]
    BY <1>0, <1>6 DEF BackupFails, SnapshotLost, BackupRow
  <2> DEFINE row == [backup[b] EXCEPT !.at = to, !.snapshot = "closed"]
  <2>2. /\ row \in BackupRow /\ row.at = to /\ row.dumpedOver = backup[b].dumpedOver
        /\ row.rows = backup[b].rows /\ row.used = backup[b].used /\ row.schema = backup[b].schema
        /\ row.verified = backup[b].verified /\ row.missing = backup[b].missing
        /\ row.packed = backup[b].packed /\ row.snapshot = "closed"
    BY <1>0 DEF BackupRow
  <2>3. backup'[b] = row
    BY <1>0, <2>1
  <2> HIDE DEF row
  <2> QED
    BY <1>0, <2>2, <2>3
<1> QED
  BY <1>1, <1>2, <1>3, <1>4, <1>5, <1>6 DEF BackupAct, BackupStep

\* What one backup does to the others is waiting for the lock, and giving it back.
LEMMA OtherBackups ==
    ASSUME BackupInv, NEW b \in Backups, BackupAct(b), NEW c \in Backups, c # b
    PROVE  backup'[c] = backup[c] /\ Sound(c)'
<1>1. /\ backup'[c] = backup[c] /\ recorded' = recorded
      /\ locker' = locker \/ locker' = locker \ {b} \/ locker = {}
  BY DEF BackupAct, OpenSnapshot, SnapshotRefused, BackupStep, SnapshotLost, VerifyFile, Pack,
     FilesVerified, Dump, Release, PublishBackup, BackupFails, Others, OthersButLock,
     migrationVars, Unlocks, BackupGoesOn, BackupInv
<1>2. Sound(c)
  BY DEF BackupInv
<1> QED
  BY <1>1, <1>2 DEF Sound, Watches

\* No migration commits while a backup watches the schema.
LEMMA BackupsKept ==
    ASSUME MigrationTyped, RunsInv, SchemaInv, PictureInv, BackupInv, [NextDeployment]_deploymentVars
    PROVE  BackupInv'
<1>1. CASE NextBackup
  <2>1. PICK b \in Backups : BackupAct(b)
    BY <1>1 DEF NextBackup, BackupAct
  <2>2. backup' \in [Backups -> BackupRow]
    <3>1. DOMAIN backup' = Backups /\ backup' = [c \in Backups |-> backup'[c]]
      BY <2>1 DEF BackupAct, OpenSnapshot, SnapshotRefused, BackupStep, SnapshotLost, VerifyFile,
         Pack, FilesVerified, Dump, Release, PublishBackup, BackupFails, BackupGoesOn, BackupInv
    <3>2. \A c \in Backups : backup'[c] \in BackupRow
      BY <2>1, BackupSound, OtherBackups DEF BackupInv
    <3> QED
      BY <3>1, <3>2
  <2> QED
    BY <2>1, <2>2, BackupSound, OtherBackups DEF BackupInv
<1>2. CASE NextMigration /\ UNCHANGED backupVars
  <2>1. PICK a \in Attempts : StepOf(a)
    BY <1>2, SomeRun
  <2>2. ASSUME NEW c \in Backups
        PROVE  Sound(c)'
    <3>1. Sound(c) /\ backup' = backup
      BY <1>2 DEF BackupInv, backupVars
    <3>2. ASSUME Watches(c)
          PROVE  locker' = {c} /\ recorded' = recorded
      <4>1. locker = {c} /\ a # c
        BY <3>1, <3>2, BackupAssumption DEF Sound
      <4>2. ~ Commit(a)
        BY <4>1, CommitAdds DEF RunsInv
      <4>3. recorded' = recorded
        BY <2>1, <4>2, RanSteps
      <4>4. locker' = locker \/ locker' = locker \ {a} \/ locker = {}
        BY <2>1, LockSteps
      <4> QED
        BY <4>1, <4>3, <4>4
    <3> QED
      BY <3>1, <3>2 DEF Sound, Watches
  <2> QED
    BY <1>2, <2>2 DEF BackupInv, backupVars
<1>3. CASE UNCHANGED <<locker, recorded, backup>>
  BY <1>3 DEF BackupInv, Sound, Watches
<1> QED
  BY <1>1, <1>2, <1>3 DEF NextDeployment, deploymentVars, migrationVars, backupVars

-----------------------------------------------------------------------------
(* The theorems                                                             *)

DeploymentInv ==
    /\ MigrationTyped /\ RunsInv /\ LoginInv /\ SchemaInv /\ WebInv
    /\ SecretInv /\ PictureInv /\ BackupInv

\* An installation starts empty, or with one build's list run to its end.
LEMMA DeploymentStarts ==
    ASSUME InitDeployment
    PROVE  DeploymentInv
<1>1. PICK b \in Builds \cup {Nobody} :
         /\ web = b
         /\ ran = IF b = Nobody THEN <<>>
                  ELSE [i \in DOMAIN Ships[b] |-> [file |-> Ships[b][i], by |-> Nobody]]
         /\ recorded = {ran[i].file : i \in DOMAIN ran}
  BY DEF InitDeployment, InitMigration
<1>0. /\ attempt = [a \in Attempts |-> Unused] /\ session = [a \in Attempts |-> "none"]
      /\ secret = [s \in SecretNames |-> IF web = Nobody THEN "absent" ELSE "flushed"]
      /\ partial = [s \in SecretNames |-> "absent"]
      /\ backup = [c \in Backups |-> NoBackup] /\ InitPictures
  BY DEF InitDeployment, InitMigration, InitBackup
<1> DEFINE Row == [file : Files, by : Attempts \cup {Nobody}]
<1>2. ASSUME b = Nobody
      PROVE  ran \in Seq(Row) /\ SchemaInv /\ WebInv
  <2>1. ran = <<>> /\ Len(ran) = 0 /\ ran \in Seq(Row) /\ DOMAIN ran = {}
    <3>1. <<>> \in Seq(Row) /\ Len(<<>>) = 0
      BY EmptySeq
    <3>2. DOMAIN <<>> = {}
      OBVIOUS
    <3> QED
      BY <1>1, <1>2, <3>1, <3>2
  <2>2. PICK c \in Builds : TRUE
    BY ShipsAssumption
  <2>3. Len(ran) <= Len(Ships[c])
    BY <2>1, ShipsShape
  <2>4. SchemaInv /\ WebInv
    BY <1>1, <1>2, <2>1, <2>3 DEF SchemaInv, WebInv, Agrees
  <2> QED
    BY <1>1, <1>2, <2>1, <2>4
<1>3. ASSUME b # Nobody
      PROVE  ran \in Seq(Row) /\ SchemaInv /\ WebInv
  <2>1. /\ b \in Builds
        /\ ran = [i \in 1 .. Len(Ships[b]) |-> [file |-> Ships[b][i], by |-> Nobody]]
        /\ Len(Ships[b]) \in Nat /\ DOMAIN Ships[b] = 1 .. Len(Ships[b])
        /\ \A i \in 1 .. Len(Ships[b]) : Ships[b][i] \in Files
    BY <1>1, <1>3, ShipsShape
  <2>2. \A i \in 1 .. Len(Ships[b]) : [file |-> Ships[b][i], by |-> Nobody] \in Row
    <3> HIDE DEF Files
    <3> QED
      BY <2>1
  <2>3. ran \in Seq(Row) /\ Len(ran) = Len(Ships[b]) /\ DOMAIN ran = DOMAIN Ships[b]
    <3> HIDE DEF Row
    <3>1. ran \in [1 .. Len(Ships[b]) -> Row]
      BY <2>1, <2>2
    <3>2. ran \in Seq(Row) /\ DOMAIN ran = 1 .. Len(Ships[b])
      <4>1. DOMAIN ran = 1 .. Len(Ships[b])
        BY <2>1
      <4> DEFINE n == Len(Ships[b])
      <4>2. n \in Nat /\ ran \in [1 .. n -> Row]
        BY <2>1, <3>1
      <4> HIDE DEF n
      <4>3. ran \in Seq(Row)
        BY <4>2, SeqDef
      <4> QED
        BY <4>1, <4>3
    <3>3. Len(ran) \in Nat /\ DOMAIN ran = 1 .. Len(ran)
      BY <3>2, LenProperties
    <3> QED
      BY <2>1, <3>2, <3>3
  <2>4. \A i \in DOMAIN ran : ran[i].file = Ships[b][i]
    BY <2>1, <2>3
  <2>5. SchemaInv /\ WebInv
    BY <1>1, <2>1, <2>3, <2>4 DEF SchemaInv, WebInv, Agrees, Covered
  <2> QED
    BY <1>1, <2>1, <2>3, <2>5
<1>4. ran \in Seq(Row) /\ SchemaInv /\ WebInv
  BY <1>2, <1>3
<1>5. \A i \in DOMAIN ran : ran[i].by = Nobody
  BY <1>1
<1>6. Unused \in Attempt /\ NoBackup \in BackupRow
  BY DEF Unused, Attempt, Stages, Kinds, NoBackup, BackupRow
<1>7. MigrationTyped
  <2> HIDE DEF Row
  <2>1. attempt \in [Attempts -> Attempt] /\ session \in [Attempts -> Sessions]
    BY <1>0, <1>6 DEF Sessions
  <2> QED
    BY <1>1, <1>4, <2>1 DEF MigrationTyped, Row
<1>8. RunsInv
  <2>1. ASSUME NEW a \in Attempts
        PROVE  Locked(a) /\ Planned(a) /\ InStep(a) /\ SaysTrue(a)
    <3>1. /\ attempt[a].at = "unused" /\ attempt[a].said = "nothing" /\ attempt[a].committed = 0
          /\ session[a] = "none"
      BY <1>0 DEF Unused
    <3>2. ~ \E i \in DOMAIN ran : ran[i].by = a
      BY <1>5, ShipsAssumption
    <3> QED
      BY <3>1, <3>2 DEF Locked, Planned, InStep, SaysTrue, Holds, Plans
  <2> QED
    BY <2>1 DEF RunsInv
<1>9. SecretInv /\ PictureInv
  BY <1>0 DEF SecretInv, PictureInv, Content, InitPictures
<1>10. BackupInv
  <2>1. backup \in [Backups -> BackupRow]
    BY <1>0, <1>6
  <2>2. \A c \in Backups : Sound(c)
    BY <1>0 DEF Sound, Watches, NoBackup
  <2> QED
    BY <2>1, <2>2 DEF BackupInv
<1>11. LoginInv
  <2>1. LoginLock = {}
    BY <1>0 DEF LoginLock
  <2>2. firstLogin = {} \/ firstLogin = {Nobody}
    BY DEF InitDeployment, InitMigration
  <2> QED
    BY <2>1, <2>2 DEF LoginInv
<1> QED
  BY <1>4, <1>7, <1>8, <1>9, <1>10, <1>11 DEF DeploymentInv

\* Every step of a deployment keeps all of it.
THEOREM DeploymentKept == SpecDeployment => []DeploymentInv
<1>1. DeploymentInv /\ [NextDeployment]_deploymentVars => DeploymentInv'
  BY MigrationStaysTyped, RunsKept, LoginKept, SchemaKept, WebKept, SecretsKept, PicturesKept,
     BackupsKept
     DEF DeploymentInv
<1> QED
  BY <1>1, DeploymentStarts, PTL DEF SpecDeployment

\* A secret that has its name is whole, whatever killed the init service and
\* whatever a power failure took. (init-secrets.ts)
THEOREM SecretsStayWhole == SpecDeployment => []SecretsAreWhole
<1>1. DeploymentInv => SecretsAreWhole
  BY DEF DeploymentInv, SecretInv, SecretsAreWhole
<1> QED
  BY <1>1, DeploymentKept, PTL

\* The database is at some point of one build's list of migrations, and says so,
\* for any number of migrate commands, any builds, lost connections and retries.
\* (migrator.ts applyMigrations)
THEOREM SchemaStaysOneBuilds == SpecDeployment => []SchemaIsOneBuilds
<1>1. ASSUME DeploymentInv
      PROVE  SchemaIsOneBuilds
  <2> DEFINE files == [i \in DOMAIN ran |-> ran[i].file]
  <2>1. MigrationTyped /\ SchemaInv
    BY <1>1 DEF DeploymentInv
  <2>2. PICK b \in Builds : Agrees(b) /\ Len(ran) <= Len(Ships[b])
    BY <2>1 DEF SchemaInv
  <2>3. /\ Len(ran) \in Nat /\ DOMAIN ran = 1 .. Len(ran)
        /\ Ships[b] \in Seq(Files) /\ Len(Ships[b]) \in Nat
        /\ DOMAIN Ships[b] = 1 .. Len(Ships[b])
        /\ \A i \in 1 .. Len(ran) : ran[i].file \in Files
    BY <2>1, RanShape, ShipsShape
  <2>4. files \in Seq(Files) /\ Len(files) = Len(ran) /\ DOMAIN files = 1 .. Len(ran)
    <3> HIDE DEF Files
    <3>1. files \in [1 .. Len(ran) -> Files]
      BY <2>3
    <3> QED
      BY <2>3, <3>1, SeqDef, LenProperties
  <2>5. \A i \in 1 .. Len(ran) : files[i] = Ships[b][i]
    BY <2>2, <2>3 DEF Agrees
  <2>6. SubSeq(files, 1, Len(files)) = SubSeq(Ships[b], 1, Len(files))
    <3> DEFINE n == Len(ran)
    <3>1. SubSeq(files, 1, n) = [i \in 1 .. n |-> files[i]]
      <4> HIDE DEF files, Files
      <4> QED
        BY <2>3, <2>4, SubSeqProperties
    <3>2. SubSeq(Ships[b], 1, n) = [i \in 1 .. n |-> Ships[b][i]]
      <4> HIDE DEF files, Files
      <4> QED
        BY <2>2, <2>3, SubSeqProperties
    <3> HIDE DEF files
    <3> QED
      BY <2>4, <2>5, <3>1, <3>2
  <2>7. IsPrefix(files, Ships[b])
    BY <2>2, <2>4, <2>6 DEF IsPrefix
  <2>8. recorded = ToSet(files)
    BY <2>1 DEF SchemaInv, ToSet
  <2> QED
    BY <2>7, <2>8 DEF SchemaIsOneBuilds
<1> QED
  BY <1>1, DeploymentKept, PTL

\* The build that serves finds every migration it ships, and none edited.
\* (compose.yaml web.depends_on, health.ts)
THEOREM WebStaysMatched == SpecDeployment => []WebMatchesSchema
<1>1. ASSUME DeploymentInv, web # Nobody
      PROVE  Health(web) = "ready"
  <2>1. MigrationTyped /\ SchemaInv /\ Covered(web) /\ web \in Builds
    BY <1>1 DEF DeploymentInv, WebInv, MigrationTyped
  <2>2. PICK b \in Builds : Agrees(b) /\ Len(ran) <= Len(Ships[b])
    BY <2>1 DEF SchemaInv
  <2>3. /\ Len(ran) \in Nat /\ DOMAIN ran = 1 .. Len(ran)
        /\ DOMAIN Ships[b] = 1 .. Len(Ships[b]) /\ Len(Ships[b]) \in Nat
        /\ DOMAIN Ships[web] = 1 .. Len(Ships[web]) /\ Len(Ships[web]) \in Nat \ {0}
    BY <2>1, RanShape, ShipsShape
  <2>4. \A i \in DOMAIN ran : i \in DOMAIN Ships[b] /\ ran[i].file = Ships[b][i]
    BY <2>2, <2>3 DEF Agrees
  <2>5. /\ recorded = {ran[i].file : i \in DOMAIN ran}
        /\ \A i \in DOMAIN Ships[web] : i \in DOMAIN ran /\ ran[i].file = Ships[web][i]
    BY <2>1 DEF SchemaInv, Covered
  <2>6. recorded # {} /\ ToSet(Ships[web]) \subseteq recorded
    BY <2>3, <2>5 DEF ToSet
  <2>7. ~ \E f \in ToSet(Ships[web]), g \in recorded : f.name = g.name /\ f # g
    <3> SUFFICES ASSUME NEW i \in DOMAIN Ships[web], NEW j \in DOMAIN ran,
                        Ships[web][i].name = ran[j].file.name
                 PROVE  Ships[web][i] = ran[j].file
      BY <2>5 DEF ToSet
    <3>1. i = j
      BY <2>1, <2>4, ShipsAssumption
    <3> QED
      BY <2>5, <3>1
  <2> QED
    BY <2>6, <2>7 DEF Health, SchemaState
<1> QED
  BY <1>1, DeploymentKept, PTL DEF WebMatchesSchema

\* A command that says it changed nothing applied no migration, then or later; the
\* one thing it may have made, when the answer to that COMMIT was lost, is the first
\* account of an installation that had none. (migrate.ts:86-99, setup.ts:44-67)
THEOREM UnchangedStaysTrue == SpecDeployment => []UnchangedIsTrue
<1>1. ASSUME DeploymentInv, NEW a \in Attempts, attempt[a].said = "unchanged"
      PROVE  \A i \in DOMAIN ran : ran[i].by # a
  BY <1>1 DEF DeploymentInv, RunsInv, SaysTrue
<1>2. ASSUME DeploymentInv, NEW a \in firstLogin
      PROVE  firstLogin = {a}
  BY <1>2 DEF DeploymentInv, LoginInv
<1>3. DeploymentInv => UnchangedIsTrue
  BY <1>1, <1>2 DEF UnchangedIsTrue
<1> QED
  BY <1>3, DeploymentKept, PTL

\* A row stands for a whole file, whatever died, but where nobody heard whether it
\* was committed. (assets/route.ts:48-55)
THEOREM PicturesStayBehindRows == SpecDeployment => []PicturesBehindRows
<1>1. DeploymentInv => PicturesBehindRows
  BY DEF DeploymentInv, PictureInv, PicturesBehindRows
<1> QED
  BY <1>1, DeploymentKept, PTL

\* A backup that can be found is whole and of one schema. (backup.ts:94-240)
THEOREM BackupsStayWhole == SpecDeployment => []BackupsAreWhole
<1>1. DeploymentInv => BackupsAreWhole
  BY DEF DeploymentInv, BackupInv, Sound, BackupsAreWhole
<1> QED
  BY <1>1, DeploymentKept, PTL
=============================================================================
