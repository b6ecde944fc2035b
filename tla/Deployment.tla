----------------------------- MODULE Deployment -----------------------------
(***************************************************************************)
(* One installation and everything its operator runs around the web         *)
(* service: the init service, migrations, the proxy's notices, picture      *)
(* uploads in progress, and backups, with the faults each may meet.         *)
(***************************************************************************)
EXTENDS Backup

deploymentVars == <<migrationVars, secretVars, pictureVars, backupVars>>

InitDeployment == InitMigration /\ InitPictures /\ InitBackup

NextDeployment ==
    \/ NextMigration /\ UNCHANGED <<pictureVars, backupVars>>
    \/ NextSecrets /\ UNCHANGED <<migrationVars, pictureVars, backupVars>>
    \/ NextPictures /\ UNCHANGED <<migrationVars, secretVars, backupVars>>
    \/ NextBackup

SpecDeployment == InitDeployment /\ [][NextDeployment]_deploymentVars

\* Processes that run go on, the database answers, and it notices when nobody is
\* there any more (TCP keepalive); nothing says that anybody starts anything, or
\* that anything fails.
Fairness ==
    /\ WF_deploymentVars(SecretStep /\ UNCHANGED <<migrationVars, pictureVars, backupVars>>)
    /\ \A a \in Attempts : WF_deploymentVars(MigrateStep(a) /\ UNCHANGED <<pictureVars, backupVars>>)
    /\ \A b \in Backups : WF_deploymentVars(BackupStep(b))

FairDeployment == SpecDeployment /\ Fairness

\* Every migrate command ends and the migration lock is free again, whatever else
\* is started, killed or cut off. (migrator.ts:80-159, lifecycle.ts:170-208)
CommandsEnd ==
    <>[](locker = {} /\ \A a \in Attempts : attempt[a].at \in Ended)
=============================================================================
