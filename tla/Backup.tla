------------------------------- MODULE Backup -------------------------------
(***************************************************************************)
(* `passdown backup` (commands/backup.ts, lifecycle.ts openBackupSnapshot)  *)
(* while the installation goes on: pictures are uploaded and discarded, and *)
(* somebody may start a migration.  The snapshot holds the migration lock   *)
(* until the dump is written; the pictures are read after that.             *)
(***************************************************************************)
EXTENDS Migration, Pictures

CONSTANTS Backups,      \* runs of backup
          Operator      \* the build they run with

ASSUME BackupAssumption == Attempts \cap Backups = {}

VARIABLE backup
backupVars == <<backup>>

NoBackup == [at |-> "unused", rows |-> {}, used |-> {}, schema |-> {}, dumpedOver |-> {},
             missing |-> {}, verified |-> {}, packed |-> {}, snapshot |-> "closed"]
InitBackup == backup = [b \in Backups |-> NoBackup]

Others == <<migrationVars, secretVars, pictureVars>>
OthersButLock == <<ran, recorded, attempt, session, firstLogin, notices, web, lastServed,
                   secretVars, pictureVars>>

BackupGoesOn(b, from, to) ==
    backup[b].at = from /\ backup' = [backup EXCEPT ![b].at = to]

\* Its connection ends, by release() or because it is lost, and its locks with it.
Unlocks(b) == locker' = locker \ {b}

\* pg_try_advisory_lock, and one repeatable-read transaction for all that is
\* read. Refused: another holder, other migrations than this build's, a picture
\* reference without a row.
OpenSnapshot(b) ==
    /\ backup[b].at = "unused" /\ locker = {}
    /\ recorded = ToSet(Ships[Operator])
    /\ reference \subseteq asset
    /\ locker' = {b}
    /\ backup' = [backup EXCEPT ![b].at = "verifying", ![b].rows = asset, ![b].used = reference,
                                ![b].schema = recorded, ![b].snapshot = "open"]
    /\ UNCHANGED OthersButLock

SnapshotRefused(b) ==
    /\ locker # {} \/ recorded # ToSet(Ships[Operator]) \/ ~ reference \subseteq asset
    /\ BackupGoesOn(b, "unused", "failed")
    /\ UNCHANGED Others

\* verifyMediaFiles: one file at a time. Damage refuses the backup.
VerifyFile(b, p) ==
    /\ backup[b].at = "verifying"
    /\ p \in backup[b].rows \ (backup[b].verified \cup backup[b].missing)
    /\ \/ display[p] = "whole" /\ backup' = [backup EXCEPT ![b].verified = @ \cup {p}]
       \/ display[p] = "none" /\ backup' = [backup EXCEPT ![b].missing = @ \cup {p}]
    /\ UNCHANGED Others

FilesVerified(b, allowMissing) ==
    /\ backup[b].rows = backup[b].verified \cup backup[b].missing
    /\ backup[b].missing # {} => allowMissing
    /\ BackupGoesOn(b, "verifying", "dumping")
    /\ UNCHANGED Others

\* pg_dump of the snapshot ends.
Dump(b) ==
    /\ backup[b].at = "dumping"
    /\ backup' = [backup EXCEPT ![b].at = "dumped", ![b].dumpedOver = recorded]
    /\ UNCHANGED Others

\* snapshot.release() rejects when the connection was lost since.
Release(b) ==
    /\ backup[b].snapshot = "open"
    /\ BackupGoesOn(b, "dumped", "packing")
    /\ Unlocks(b)
    /\ UNCHANGED OthersButLock

\* Mutant: a file is packed as it is found.
PackAsFound(b, p) ==
    /\ backup[b].at = "packing" /\ p \in backup[b].verified \ backup[b].packed
    /\ backup' = [backup EXCEPT ![b].verified = @ \ {p},
                                ![b].packed = IF display[p] = "whole" THEN @ \cup {p} ELSE @]
    /\ UNCHANGED Others

\* Each file is opened and hashed again as it is packed.
Pack(b, p) ==
    /\ backup[b].at = "packing" /\ p \in backup[b].verified \ backup[b].packed
    /\ display[p] = "whole"
    /\ backup' = [backup EXCEPT ![b].packed = @ \cup {p}]
    /\ UNCHANGED Others

\* The manifest is written last, and the directory renamed (or, by backup.sh,
\* the checked file moved) to the name under which a backup is found.
PublishBackup(b) ==
    /\ backup[b].packed = backup[b].verified
    /\ BackupGoesOn(b, "packing", "published")
    /\ UNCHANGED Others

\* Any error, an interruption, a file that is damaged, missing or changed: what
\* was written is removed and no backup is there.
BackupFails(b) ==
    /\ backup[b].at \in {"verifying", "dumping", "dumped", "packing"}
    /\ backup' = [backup EXCEPT ![b].at = "failed", ![b].snapshot = "closed"]
    /\ Unlocks(b)
    /\ UNCHANGED OthersButLock

\* The idle connection is lost while pg_dump, on another, goes on.
SnapshotLost(b) ==
    /\ backup[b].snapshot = "open" /\ backup[b].at \in {"verifying", "dumping", "dumped"}
    /\ backup' = [backup EXCEPT ![b].snapshot = "closed"]
    /\ Unlocks(b)
    /\ UNCHANGED OthersButLock

BackupStep(b) ==
    \/ \E p \in Pictures : VerifyFile(b, p) \/ Pack(b, p)
    \/ \E allowMissing \in BOOLEAN : FilesVerified(b, allowMissing)
    \/ Dump(b) \/ Release(b) \/ PublishBackup(b) \/ BackupFails(b)
NextBackup ==
    \E b \in Backups :
        OpenSnapshot(b) \/ SnapshotRefused(b) \/ BackupStep(b) \/ SnapshotLost(b)

\* A backup that can be found is whole: the pictures of its rows are in it, whole,
\* but those it names as missing; every picture its guides show has a row in it;
\* and no migration ran between its snapshot and its dump. (backup.ts:94-240)
BackupsAreWhole ==
    \A b \in Backups : backup[b].at = "published" =>
        /\ backup[b].rows = backup[b].packed \cup backup[b].missing
        /\ backup[b].used \subseteq backup[b].rows
        /\ backup[b].schema = backup[b].dumpedOver
=============================================================================
