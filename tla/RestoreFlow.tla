----------------------------- MODULE RestoreFlow -----------------------------
(***************************************************************************)
(* Restoring an installation from a backup (restore-flow.ts), with the      *)
(* progress it keeps in two places: a checkpoint in the comment of the      *)
(* target database, changed in the transactions that do the work            *)
(* (restore.ts), and a file on the picture volume that follows it           *)
(* (staging.ts).  The operator runs `restore`, `restore --activate` and     *)
(* `restore --discard`; an advisory lock lets one of them run at a time.    *)
(* Any of them may fail at any step, which the code answers, or just stop   *)
(* there, which it cannot.  A command that refuses before it changes        *)
(* anything is no step.                                                     *)
(***************************************************************************)
EXTENDS Naturals

CONSTANTS
    Workspaces,     \* the workspaces whose pictures the backup holds
    RestoreIds      \* identities a restore can get (randomUUID)

VARIABLES
    db,         \* the comment on the target database
    data,       \* what the target database holds
    connect,    \* may the runtime role connect to it?
    online,     \* is the runtime role connected?
    file,       \* .passdown-restore/state.json on the picture volume
    place,      \* where each workspace's directory of pictures is
    whole,      \* the workspaces whose directory has all its pictures
    control,    \* what else is in .passdown-restore
    at,         \* where the operator command under way stands, or "idle"
    memo,       \* the file's state as that command holds it
    mine        \* createdHere: it began this restore itself

vars == <<db, data, connect, online, file, place, whole, control, at, memo, mine>>

Checkpoint == {"receiving", "loaded", "verified", "access-reset", "media-moved", "active",
               "verification-failed"}

\* order.indexOf: what is not in the list comes before all of it.
Rank == [cp \in Checkpoint |->
            IF cp = "receiving" THEN 1 ELSE IF cp = "loaded" THEN 2 ELSE
            IF cp = "verified" THEN 3 ELSE IF cp = "access-reset" THEN 4 ELSE
            IF cp = "media-moved" THEN 5 ELSE IF cp = "active" THEN 6 ELSE 0]

\* The backup's identity is 'pending' until the archive has named itself.
Backup == {"pending", "known"}
Comment == [id : RestoreIds, cp : Checkpoint, backup : Backup]
FileState == [id : RestoreIds, cp : Checkpoint, backup : Backup,
              previous : BOOLEAN, workspaces : SUBSET Workspaces]
None == [id |-> "none"]

Place == {"idle", "claim", "makeRun", "publish", "unclaim", "begin", "terminate", "receive",
          "register", "extract", "unpack", "loaded", "note", "step", "probe", "kick",
          "wipe", "unmove", "sweep", "forget", "finish"}

Takes(where, state) == at' = where /\ memo' = state /\ mine' = FALSE
Learns(where, state) == at' = where /\ memo' = state /\ mine' = mine
GoTo(where) == Learns(where, memo)
Ends == Takes("idle", None)
Stage(cp) == at = "step" /\ memo.cp = cp

Init ==
    /\ db = None
    /\ data = "nothing"
    /\ connect \in BOOLEAN
    /\ online = FALSE
    /\ file = None
    /\ place = [w \in Workspaces |-> "nowhere"] /\ whole = {}
    /\ control = {}
    /\ at = "idle" /\ memo = None /\ mine = FALSE

-----------------------------------------------------------------------------
(* What the steps are made of: restore.ts, staging.ts, verify-files.ts.     *)

\* The target database is empty and not being restored.
Preflight == db = None /\ data = "nothing"

\* Nothing is in the picture volume but an empty .passdown-restore.
RootIsEmpty == file = None /\ control = {} /\ \A w \in Workspaces : place[w] # "moved"

Matching(id) == file # None /\ file.id = id

Required(id, cps) == db # None /\ db.id = id /\ db.cp \in cps

\* Mutant: the state is written for whatever restore the file is of.
WriteStateLate(state) == "run" \in control /\ file' = [state EXCEPT !.cp = file.cp]

\* Mutant: persist does not ask for the staging directory.
WriteStateAnyhow(state) == Matching(state.id) /\ file' = state

\* writeRestoreState, whose persist checks that the staging directory is there
\* (checkedPaths).
WriteState(state) == Matching(state.id) /\ "run" \in control /\ file' = state

\* session.checkpoint: only these four steps are changed by it.
SetCheckpoint(expected, next) ==
    /\ <<expected, next>> \in {<<"receiving", "loaded">>, <<"loaded", "verified">>,
                               <<"loaded", "verification-failed">>,
                               <<"access-reset", "media-moved">>}
    /\ Required(memo.id, {expected})
    /\ db.backup = "known"
    /\ db' = [db EXCEPT !.cp = next]

\* Every display file the rows name is in root: the staging directory, or the
\* picture volume.
PicturesIn(where) == \A w \in Workspaces : place[w] = where /\ w \in whole

\* restoreVerification: rows and pictures are what the manifest says.
RestoredSound == data = "raw" /\ PicturesIn("staged")

\* Mutant: only new connections are cut off.
CutOffNothing == UNCHANGED online

\* pg_terminate_backend, and a look that nobody is left.
CutOff == online' = FALSE

\* rm -r of a workspace's directory: what is in it, and then the directory.
Erase(w) ==
    \/ w \in whole /\ whole' = whole \ {w} /\ UNCHANGED place
    \/ w \notin whole /\ place' = [place EXCEPT ![w] = "nowhere"] /\ UNCHANGED whole

\* rm -r of the staging directory: the workspaces' directories in it, and then
\* itself, after which the command goes on.
RemoveRun(next) ==
    \/ /\ \E w \in Workspaces : place[w] = "staged" /\ Erase(w)
       /\ UNCHANGED <<control, at, memo, mine>>
    \/ /\ \A w \in Workspaces : place[w] # "staged"
       /\ control' = control \ {"run"}
       /\ GoTo(next)
       /\ UNCHANGED <<place, whole>>

-----------------------------------------------------------------------------
(* restore: claim the volume, close the target, receive, unpack, load.      *)

StartRestore ==
    /\ at = "idle"
    /\ Preflight /\ RootIsEmpty
    /\ \E r \in RestoreIds :
          Takes("claim", [id |-> r, cp |-> "receiving", backup |-> "pending",
                          previous |-> connect, workspaces |-> {}])
    /\ UNCHANGED <<db, data, connect, online, file, place, whole, control>>

\* initialize.lock, with the restore's identity in it.
Claim ==
    /\ at = "claim" /\ RootIsEmpty
    /\ control' = {"claim"}
    /\ GoTo("makeRun")
    /\ UNCHANGED <<db, data, connect, online, file, place, whole>>

MakeRun ==
    /\ at = "makeRun"
    /\ control' = control \cup {"run"}
    /\ GoTo("publish")
    /\ UNCHANGED <<db, data, connect, online, file, place, whole>>

Publish ==
    /\ at = "publish" /\ file = None
    /\ file' = memo
    /\ GoTo("unclaim")
    /\ UNCHANGED <<db, data, connect, online, place, whole, control>>

Unclaim ==
    /\ at = "unclaim"
    /\ control' = control \ {"claim"}
    /\ at' = "begin" /\ mine' = TRUE /\ UNCHANGED memo
    /\ UNCHANGED <<db, data, connect, online, file, place, whole>>

\* beginRestore's transaction: everything is looked at again.
Begin ==
    /\ at = "begin" /\ Preflight /\ connect = memo.previous
    /\ connect' = FALSE
    /\ db' = [id |-> memo.id, cp |-> "receiving", backup |-> "pending"]
    /\ GoTo("terminate")
    /\ UNCHANGED <<data, online, file, place, whole, control>>

Terminate ==
    /\ at = "terminate"
    /\ CutOff
    /\ GoTo("receive")
    /\ UNCHANGED <<db, data, connect, file, place, whole, control>>

\* receiveBackup: the archive came through whole and names itself.
Receive ==
    /\ at = "receive"
    /\ LET known == [memo EXCEPT !.backup = "known"]
       IN  WriteState(known) /\ Learns("register", known)
    /\ UNCHANGED <<db, data, connect, online, place, whole, control>>

Register ==
    /\ at = "register" /\ Required(memo.id, {"receiving"})
    /\ db' = [db EXCEPT !.backup = "known"]
    /\ GoTo("extract")
    /\ UNCHANGED <<data, connect, online, file, place, whole, control>>

\* A workspace is in the journal before it has a directory.
Journal(w) ==
    /\ at = "extract" /\ w \notin memo.workspaces
    /\ LET known == [memo EXCEPT !.workspaces = @ \cup {w}]
       IN  WriteState(known) /\ Learns("unpack", known)
    /\ UNCHANGED <<db, data, connect, online, place, whole, control>>

Unpack(w) ==
    /\ at = "unpack" /\ w \in memo.workspaces /\ place[w] = "nowhere"
    /\ "run" \in control
    /\ place' = [place EXCEPT ![w] = "staged"] /\ whole' = whole \cup {w}
    /\ GoTo("extract")
    /\ UNCHANGED <<db, data, connect, online, file, control>>

\* pg_restore --single-transaction: the dump matches its manifest, or not.
Load ==
    /\ at = "extract" /\ memo.workspaces = Workspaces
    /\ data' \in {"raw", "unsound"}
    /\ GoTo("loaded")
    /\ UNCHANGED <<db, connect, online, file, place, whole, control>>

MarkLoaded ==
    /\ at = "loaded"
    /\ SetCheckpoint("receiving", "loaded")
    /\ Learns("note", [memo EXCEPT !.cp = "loaded"])
    /\ UNCHANGED <<data, connect, online, file, place, whole, control>>

-----------------------------------------------------------------------------
(* What a restore and a resumed one do after that: the database's           *)
(* checkpoint with each step, then the file's.                              *)

Note ==
    /\ at = "note"
    /\ WriteState(memo)
    /\ IF memo.cp = "verification-failed" THEN Ends ELSE GoTo("step")
    /\ UNCHANGED <<db, data, connect, online, place, whole, control>>

Verify ==
    /\ Stage("loaded")
    /\ LET next == IF RestoredSound THEN "verified" ELSE "verification-failed"
       IN  /\ SetCheckpoint("loaded", next)
           /\ Learns("note", [memo EXCEPT !.cp = next])
    /\ UNCHANGED <<data, connect, online, file, place, whole, control>>

\* Mutant: what is restored is opened with its sessions and links.
ResetNothing ==
    /\ Stage("verified")
    /\ Required(memo.id, {"verified"})
    /\ db' = [db EXCEPT !.cp = "access-reset"]
    /\ Learns("note", [memo EXCEPT !.cp = "access-reset"])
    /\ UNCHANGED <<data, connect, online, file, place, whole, control>>

\* applyCredentialPolicy: sessions, invitations and reset links go.
ResetAccess ==
    /\ Stage("verified")
    /\ Required(memo.id, {"verified", "access-reset", "media-moved", "active"})
    /\ IF db.cp = "verified"
       THEN data' = "clean" /\ db' = [db EXCEPT !.cp = "access-reset"]
       ELSE UNCHANGED <<data, db>>
    /\ Learns("note", [memo EXCEPT !.cp = "access-reset"])
    /\ UNCHANGED <<connect, online, file, place, whole, control>>

\* moveRestoreMedia, a rename at a time; a directory moved before is accepted.
Move(w) ==
    /\ Stage("access-reset") /\ Matching(memo.id) /\ "run" \in control
    /\ w \in file.workspaces /\ place[w] = "staged"
    /\ place' = [place EXCEPT ![w] = "moved"]
    /\ UNCHANGED <<db, data, connect, online, file, whole, control, at, memo, mine>>

\* Mutant: pictures left in the staging directory are not missed.
MarkMovedEarly ==
    /\ Stage("access-reset")
    /\ SetCheckpoint("access-reset", "media-moved")
    /\ Learns("note", [memo EXCEPT !.cp = "media-moved"])
    /\ UNCHANGED <<data, connect, online, file, place, whole, control>>

MarkMoved ==
    /\ Stage("access-reset") /\ "run" \in control
    /\ PicturesIn("moved")
    /\ SetCheckpoint("access-reset", "media-moved")
    /\ Learns("note", [memo EXCEPT !.cp = "media-moved"])
    /\ UNCHANGED <<data, connect, online, file, place, whole, control>>

Activate ==
    /\ Stage("media-moved") /\ Required(memo.id, {"media-moved"})
    /\ connect' = TRUE
    /\ db' = [db EXCEPT !.cp = "active"]
    /\ GoTo("probe")
    /\ UNCHANGED <<data, online, file, place, whole, control>>

ProbeSucceeds ==
    /\ at = "probe"
    /\ Learns("note", [memo EXCEPT !.cp = "active"])
    /\ UNCHANGED <<db, data, connect, online, file, place, whole, control>>

\* The runtime role cannot read the target: close it again.
ProbeFails ==
    /\ at = "probe" /\ Required(memo.id, {"active"})
    /\ connect' = FALSE
    /\ db' = [db EXCEPT !.cp = "media-moved"]
    /\ GoTo("kick")
    /\ UNCHANGED <<data, online, file, place, whole, control>>

Kick ==
    /\ at = "kick"
    /\ CutOff
    /\ Ends
    /\ UNCHANGED <<db, data, connect, file, place, whole, control>>

\* cleanupRestoreFiles without the moved pictures: the staging directory, then
\* the file itself.
Sweep ==
    /\ at = "sweep" \/ Stage("active")
    /\ Matching(memo.id)
    /\ RemoveRun("forget")
    /\ UNCHANGED <<db, data, connect, online, file>>

Forget ==
    /\ at = "forget" /\ Matching(memo.id)
    /\ file' = None
    /\ control' = control \ {"claim"}
    /\ IF memo.cp = "active" THEN GoTo("finish") ELSE Ends
    /\ UNCHANGED <<db, data, connect, online, place, whole>>

Finish ==
    /\ at = "finish" /\ db # None /\ db.cp = "active"
    /\ db' = None
    /\ Ends
    /\ UNCHANGED <<data, connect, online, file, place, whole, control>>

-----------------------------------------------------------------------------
(* restore --activate *)

\* The database and the file are at the same step, or the file one behind.
AtMostOneAhead == Rank[db.cp] \in {Rank[file.cp], Rank[file.cp] + 1}

ResumeCleanup ==
    /\ at = "idle" /\ db # None /\ db.cp = "active" /\ file = None
    /\ Takes("finish", None)
    /\ UNCHANGED <<db, data, connect, online, file, place, whole, control>>

Resume ==
    /\ at = "idle"
    /\ db # None /\ file # None /\ db.id = file.id /\ db.backup = file.backup
    /\ file.backup = "known"
    /\ db.cp \notin {"receiving", "verification-failed"}
    /\ AtMostOneAhead
    /\ Takes(IF db.cp = "active" THEN "step" ELSE "note", [file EXCEPT !.cp = db.cp])
    /\ UNCHANGED <<db, data, connect, online, file, place, whole, control>>

StartActivate == ResumeCleanup \/ Resume

-----------------------------------------------------------------------------
(* restore --discard *)

\* Mutant: a file without its database is left to the operator.
DiscardNoMirror == FALSE /\ UNCHANGED vars

\* Only the file is left, and the target is as it was.
DiscardMirror ==
    /\ at = "idle"
    /\ db = None /\ file # None /\ file.cp # "active"
    /\ data = "nothing" /\ connect = file.previous
    /\ Takes("sweep", file)
    /\ UNCHANGED <<db, data, connect, online, file, place, whole, control>>

DiscardUnfinished ==
    /\ at = "idle"
    /\ db # None /\ db.cp # "active" /\ file # None /\ file.id = db.id
    /\ Takes("wipe", file)
    /\ UNCHANGED <<db, data, connect, online, file, place, whole, control>>

StartDiscard == DiscardMirror \/ DiscardUnfinished

\* cleanupRestoreFiles with the moved pictures: the staging directory first.
Wipe ==
    /\ at = "wipe" /\ Matching(memo.id) /\ file.cp # "active"
    /\ RemoveRun("unmove")
    /\ UNCHANGED <<db, data, connect, online, file>>

Unmove(w) ==
    /\ at = "unmove" /\ w \in file.workspaces /\ place[w] = "moved"
    /\ Erase(w)
    /\ UNCHANGED <<db, data, connect, online, file, control, at, memo, mine>>

\* Mutant: connections are left as the restore made them.
WipeDataOnly ==
    /\ at = "unmove" /\ \A w \in file.workspaces : place[w] # "moved"
    /\ Required(memo.id, Checkpoint \ {"active"})
    /\ data' = "nothing" /\ db' = None
    /\ GoTo("sweep")
    /\ UNCHANGED <<connect, online, file, place, whole, control>>

\* session.discard: one transaction, and what the web service had open is gone
\* with the tables.
WipeData ==
    /\ at = "unmove" /\ \A w \in file.workspaces : place[w] # "moved"
    /\ Required(memo.id, Checkpoint \ {"active"})
    /\ data' = "nothing"
    /\ connect' = memo.previous
    /\ db' = None
    /\ GoTo("sweep")
    /\ UNCHANGED <<online, file, place, whole, control>>

-----------------------------------------------------------------------------
(* What can go wrong, and the web service. *)

SettingUp == at = "claim" \/ at = "makeRun" \/ at = "publish" \/ at = "unclaim"

\* An error while .passdown-restore is being set up takes its directories away,
\* unless the state is already there.
FailSetup ==
    /\ SettingUp
    /\ control' = IF file = None THEN {} ELSE control \ {"claim"}
    /\ Ends
    /\ UNCHANGED <<db, data, connect, online, file, place, whole>>

RollsBack == mine /\ Required(memo.id, {"receiving"})

\* An error anywhere else: a restore this command began and that has not loaded
\* is rolled back; an error in that is the end of it.
Abort ==
    /\ IF RollsBack THEN Takes("wipe", file)
       ELSE IF mine /\ db = None THEN Takes("sweep", memo)
       ELSE Ends
    /\ UNCHANGED <<db, data, connect, online, file, place, whole, control>>

\* moveRestoreMedia, and the check after it, refuse: a directory is in neither
\* place, the staging directory is gone, or pictures are missing where they were
\* moved.
CannotMove ==
    /\ Stage("access-reset")
    /\ \/ "run" \notin control
       \/ \E w \in Workspaces : place[w] = "nowhere"
       \/ (\A w \in Workspaces : place[w] = "moved") /\ whole # Workspaces

\* A resumed restore cannot write its state any more: a discard began.
CannotWrite == at = "note" /\ "run" \notin control

CannotGoOn == CannotMove \/ CannotWrite
GiveUp == CannotGoOn /\ Abort

Fail == at # "idle" /\ ~ SettingUp /\ ~ CannotGoOn /\ Abort

\* The process is gone, and may leave the temporary copy of a state it wrote.
Crash ==
    /\ at # "idle"
    /\ control' \in IF at = "publish" \/ at = "receive" \/ at = "extract" \/ at = "note"
                    THEN {control, control \cup {"tmp"}} ELSE {control}
    /\ Ends
    /\ UNCHANGED <<db, data, connect, online, file, place, whole>>

WebConnects ==
    /\ connect /\ ~ online
    /\ online' = TRUE
    /\ UNCHANGED <<db, data, connect, file, place, whole, control, at, memo, mine>>

WebLeaves ==
    /\ online
    /\ online' = FALSE
    /\ UNCHANGED <<db, data, connect, file, place, whole, control, at, memo, mine>>

Receiving == Claim \/ MakeRun \/ Publish \/ Unclaim \/ Begin \/ Terminate \/ Receive \/ Register
             \/ (\E w \in Workspaces : Journal(w) \/ Unpack(w)) \/ Load \/ MarkLoaded
Resuming == Note \/ Verify \/ ResetAccess \/ (\E w \in Workspaces : Move(w)) \/ MarkMoved
            \/ GiveUp \/ Activate \/ ProbeSucceeds \/ Kick \/ Sweep \/ Forget \/ Finish
Discarding == Wipe \/ (\E w \in Workspaces : Unmove(w)) \/ WipeData
Work == Receiving \/ Resuming \/ Discarding
Fault == FailSetup \/ Fail \/ Crash \/ ProbeFails

Next == Work \/ Fault \/ StartRestore \/ StartActivate \/ StartDiscard
        \/ WebConnects \/ WebLeaves

Spec == Init /\ [][Next]_vars
FairSpec == Spec /\ WF_vars(Work)

-----------------------------------------------------------------------------
(* Properties *)

\* Rows, file and command keep their domains.
TypeOK ==
    /\ db \in Comment \cup {None}
    /\ data \in {"nothing", "raw", "unsound", "clean"}
    /\ connect \in BOOLEAN /\ online \in BOOLEAN
    /\ file \in FileState \cup {None}
    /\ place \in [Workspaces -> {"nowhere", "staged", "moved"}] /\ whole \subseteq Workspaces
    /\ control \subseteq {"claim", "run", "tmp"}
    /\ at \in Place /\ memo \in FileState \cup {None} /\ mine \in BOOLEAN

\* The database is at most one step ahead of the file, whatever was interrupted
\* and resumed, and the file never ahead of it: what restore-flow.ts:95-97
\* relies on to tell its own steps from others.
DatabaseLeadsByOne ==
    db # None =>
        \/ db.cp = "active" /\ file = None
        \/ /\ file # None /\ file.id = db.id
           /\ \/ Rank[db.cp] \in {Rank[file.cp], Rank[file.cp] + 1}
              \/ db.cp = "verification-failed" /\ file.cp = "loaded"

\* The web service has a connection to restored data only once they are
\* verified and their sessions, invitations and links removed: after the target
\* is closed it is not opened before.
NobodyReadsUnfinished == online /\ data # "nothing" => data = "clean"

\* Access is open only over complete pictures: however often moving them was
\* interrupted, and although a discard that stopped half way may have removed
\* some, after which the restore can still be told to activate.  backups.md:110
\* "New missing pictures, damaged files or dangling references prevent
\* activation."
OpenOnlyWithPictures == db # None /\ db.cp = "active" => PicturesIn("moved")

\* Who may connect is never in doubt: nobody while a restore is unfinished, and
\* as before it when only its file is left, which is what lets the last discard
\* accept it.
AccessIsAccountedFor ==
    /\ db # None => (connect <=> db.cp = "active")
    /\ db = None /\ file # None => data = "nothing" /\ connect = file.previous

\* Once commands stop failing and nothing new is restored, an operator who keeps
\* activating and discarding ends with nothing unfinished recorded.
Persistent == SF_vars(StartActivate) /\ SF_vars(StartDiscard)
RetriesSettle ==
    <>[][~ (Fault \/ StartRestore)]_vars /\ Persistent => <>[](db = None /\ file = None)

\* The promise of a restore, as SafeRestore states it.
Phase == IF db # None THEN (IF db.cp = "active" THEN "installed" ELSE "underway")
         ELSE IF data = "nothing" THEN "target" ELSE "installed"
Content == IF data = "unsound" THEN "raw" ELSE data
Reader == online /\ data # "nothing"
Promise == INSTANCE SafeRestore WITH phase <- Phase, content <- Content, reader <- Reader
ImplementsSafeRestore == Promise!Spec
=============================================================================
