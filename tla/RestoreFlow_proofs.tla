-------------------------- MODULE RestoreFlow_proofs --------------------------
(***************************************************************************)
(* Proofs about RestoreFlow, for any workspaces and identities: types, the  *)
(* lead of the database over the file, who may connect and what they find,  *)
(* and the refinement of SafeRestore.                                       *)
(***************************************************************************)
EXTENDS RestoreFlow, TLAPS

\* Types, with the flags apart.
RestTyped ==
    /\ db \in Comment \cup {None}
    /\ data \in {"nothing", "raw", "unsound", "clean"}
    /\ file \in FileState \cup {None}
    /\ place \in [Workspaces -> {"nowhere", "staged", "moved"}] /\ whole \subseteq Workspaces
    /\ control \subseteq {"claim", "run", "tmp"}
    /\ at \in Place /\ memo \in FileState \cup {None}

FlagsTyped == connect \in BOOLEAN /\ online \in BOOLEAN /\ mine \in BOOLEAN

\* The file as the command holds it, but for the checkpoint it is about to note.
Follows == file # None /\ memo = [file EXCEPT !.cp = memo.cp]

\* Where the command stands says how far the restore has come.
SettingUpInv ==
    SettingUp \/ at = "begin" =>
        /\ db = None /\ data = "nothing" /\ memo # None
        /\ connect = memo.previous /\ memo.cp = "receiving" /\ memo.backup = "pending"
        /\ IF at = "unclaim" \/ at = "begin" THEN file = memo ELSE file = None

ReceivingInv ==
    at = "terminate" \/ at = "receive" \/ at = "register" \/ at = "extract" \/ at = "unpack"
        \/ at = "loaded" =>
        /\ file = memo /\ memo # None /\ memo.cp = "receiving"
        /\ db # None /\ db.id = memo.id /\ db.cp = "receiving"
        /\ at = "loaded" => data \in {"raw", "unsound"}
        /\ at # "loaded" => data = "nothing"
        /\ at # "terminate" => ~ online

ResumingInv ==
    /\ at \in {"note", "step"} =>
          /\ Follows
          /\ db # None /\ db.id = memo.id /\ db.cp = memo.cp
          /\ memo.cp # "receiving"
    /\ at = "step" => memo.cp = "active" \/ file = memo
    /\ at = "probe" \/ at = "kick" =>
          /\ file = memo /\ memo # None /\ memo.cp = "media-moved"
          /\ db # None /\ db.id = memo.id
          /\ db.cp = IF at = "probe" THEN "active" ELSE "media-moved"

DiscardingInv ==
    /\ at = "wipe" \/ at = "unmove" =>
          /\ file = memo /\ memo # None /\ db # None /\ db.cp # "active" /\ db.id = memo.id
    /\ at = "sweep" => file = memo /\ memo # None /\ memo.cp # "active" /\ db = None
    /\ at = "forget" =>
          /\ Follows
          /\ memo.cp = "active" => db # None /\ db.id = memo.id /\ db.cp = "active"
          /\ memo.cp # "active" => file = memo /\ db = None
    /\ at = "finish" => file = None /\ db # None /\ db.cp = "active"

\* Only the command that began a restore has it to roll back, and once.
MineInv ==
    /\ at # "idle" /\ mine /\ db = None => at = "begin"
    /\ at = "wipe" \/ at = "unmove" => ~ mine

\* What the database holds at each checkpoint.
ContentInv ==
    /\ db = None => data \in {"nothing", "clean"}
    /\ db # None =>
          /\ db.cp = "receiving" => data # "clean"
          /\ db.cp \in {"loaded", "verification-failed"} => data \in {"raw", "unsound"}
          /\ db.cp = "verified" => data = "raw"
          /\ db.cp \in {"access-reset", "media-moved", "active"} => data = "clean"

\* What a command relies on once it may open the target: pictures are removed
\* from the volume only by a discard, which removes the staging directory before,
\* and without that no resumed command gets past writing its state.
PlaceInv ==
    /\ at = "unmove" => "run" \notin control
    /\ Stage("media-moved") => "run" \in control
    /\ db # None /\ db.cp = "media-moved" /\ "run" \in control => PicturesIn("moved")

\* Inductive: each part needs others.
IInv == /\ RestTyped /\ FlagsTyped
        /\ DatabaseLeadsByOne /\ NobodyReadsUnfinished /\ AccessIsAccountedFor
        /\ SettingUpInv /\ ReceivingInv /\ ResumingInv /\ DiscardingInv /\ MineInv /\ ContentInv
        /\ OpenOnlyWithPictures /\ PlaceInv

-----------------------------------------------------------------------------
(* One lemma for each part: the steps that disturb it need what other parts *)
(* say, and the rest leave it alone.                                        *)

\* Types, but for the flags.
LEMMA RestStaysTyped ==
    ASSUME RestTyped, FlagsTyped, SettingUpInv, ResumingInv, [Next]_vars
    PROVE  RestTyped'
  <1>1. CASE Claim \/ MakeRun \/ Publish \/ Unclaim \/ Terminate \/ Receive \/ Register \/ Load
        BY <1>1 DEF Backup, Checkpoint, Claim, Comment, CutOff, FileState, GoTo, Learns, Load,
           MakeRun, Matching, None, Place, Publish, Receive, Register, Required, RestTyped,
           RootIsEmpty, Terminate, Unclaim, WriteState
  <1>2. CASE Begin
        BY <1>2 DEF Backup, Begin, Checkpoint, Comment, FileState, GoTo, Learns, None, Place,
           Preflight, RestTyped, SettingUp, SettingUpInv
  <1>3. CASE MarkLoaded \/ Note \/ Verify \/ ResetAccess \/ MarkMoved \/ Activate \/
         ProbeSucceeds \/ Kick
    <2> USE DEF Backup, Checkpoint, Comment, FileState, None, Place, RestTyped
    <2>1. CASE MarkLoaded
      BY <2>1 DEF CutOff, GoTo, Learns, MarkLoaded, Matching, Required, SetCheckpoint, Stage,
         Takes, WriteState
    <2>2. CASE Note \/ Verify
      BY <2>2 DEF Ends, GoTo, Learns, Matching, Note, PicturesIn, Required, RestoredSound,
         SetCheckpoint, Stage, Takes, Verify, WriteState
    <2>3. CASE ResetAccess \/ MarkMoved
      BY <2>3 DEF GoTo, Learns, MarkMoved, Matching, PicturesIn, Required, ResetAccess,
         SetCheckpoint, Stage, Takes, WriteState
    <2>4. CASE Activate \/ ProbeSucceeds \/ Kick
      BY <2>4 DEF Activate, CutOff, Ends, GoTo, Kick, Learns, Matching, PicturesIn,
         ProbeSucceeds, Required, SetCheckpoint, Stage, Takes, WriteState
    <2> QED
      BY <1>3, <2>1, <2>2, <2>3, <2>4
  <1>4. CASE Sweep \/ Forget \/ Finish \/ Wipe \/ WipeData \/ GiveUp \/ Fail \/ Crash
    <2> USE DEF Backup, Checkpoint, Comment, FileState, None, Place, RestTyped
    <2>1. CASE Sweep \/ Wipe
      BY <2>1 DEF Erase, GoTo, Learns, Matching, RemoveRun, Stage, Sweep, Wipe
    <2>2. CASE Forget \/ Finish \/ WipeData
      BY <2>2 DEF Ends, Finish, Forget, GoTo, Learns, Matching, Required, Takes, WipeData
    <2>3. ASSUME Abort PROVE RestTyped'
      BY <2>3 DEF Abort, Ends, Required, RollsBack, Takes
    <2>4. CASE GiveUp \/ Fail
      BY <2>3, <2>4 DEF Fail, GiveUp
    <2>5. CASE Crash
      BY <2>5 DEF Crash, Ends, Takes
    <2> QED
      BY <1>4, <2>1, <2>2, <2>4, <2>5
  <1>5. CASE FailSetup
        BY <1>5 DEF Backup, Checkpoint, Comment, Ends, FailSetup, FileState, Follows, None,
           Place, RestTyped, ResumingInv, SettingUp, Takes
  <1>6. CASE ProbeFails \/ ResumeCleanup \/ Resume \/ DiscardMirror \/ DiscardUnfinished \/
         WebConnects \/ WebLeaves \/ (\E w \in Workspaces : Journal(w))
    <2> USE DEF Backup, Checkpoint, Comment, FileState, None, Place, RestTyped
    <2>1. CASE ProbeFails \/ ResumeCleanup \/ Resume
      BY <2>1 DEF AtMostOneAhead, GoTo, Learns, Matching, ProbeFails, Rank, Required, Resume,
         ResumeCleanup, Takes
    <2>2. CASE DiscardMirror \/ DiscardUnfinished
      BY <2>2 DEF DiscardMirror, DiscardUnfinished, Learns, Matching, Required, Takes,
         WriteState
    <2>3. CASE WebConnects \/ WebLeaves \/ (\E w \in Workspaces : Journal(w))
      BY <2>3 DEF GoTo, Journal, Learns, Matching, WebConnects, WebLeaves, WriteState
    <2> QED
      BY <1>6, <2>1, <2>2, <2>3
  <1>7. CASE StartRestore
        BY <1>7 DEF Backup, Checkpoint, Comment, FileState, FlagsTyped, None, Place, Preflight,
           RestTyped, RootIsEmpty, StartRestore, Takes
  <1>8. CASE (\E w \in Workspaces : Unpack(w) \/ Move(w) \/ Unmove(w)) \/ UNCHANGED vars
    <2> USE DEF Backup, Checkpoint, Comment, FileState, None, Place, RestTyped
    <2>1. ASSUME NEW w \in Workspaces, Unpack(w) PROVE RestTyped'
      BY <2>1 DEF GoTo, Learns, Matching, Unpack
    <2>2. ASSUME NEW w \in Workspaces, Move(w) \/ Unmove(w) PROVE RestTyped'
      BY <2>2 DEF Erase, Matching, Move, Stage, Unmove
    <2>3. CASE UNCHANGED vars
      BY <2>3 DEF vars
    <2> QED
      BY <1>8, <2>1, <2>2, <2>3
  <1> QED BY <1>1, <1>2, <1>3, <1>4, <1>5, <1>6, <1>7, <1>8 DEF Next, Work, Receiving, Resuming,
         Discarding, Fault, StartActivate, StartDiscard

\* The flags stay flags.
LEMMA FlagsStayTyped ==
    ASSUME RestTyped, FlagsTyped, DiscardingInv, [Next]_vars
    PROVE  FlagsTyped'
  <1>1. CASE Claim \/ MakeRun \/ Publish \/ Unclaim \/ Begin \/ Terminate \/ Receive \/ Register
        BY <1>1 DEF Begin, Claim, CutOff, FlagsTyped, GoTo, Learns, MakeRun, Matching, None,
           Preflight, Publish, Receive, Register, Required, RootIsEmpty, Terminate, Unclaim,
           WriteState
  <1>2. CASE Load \/ MarkLoaded \/ Note \/ Verify \/ ResetAccess \/ MarkMoved \/ Activate \/
         ProbeSucceeds
        BY <1>2 DEF Activate, Ends, FlagsTyped, GoTo, Learns, Load, MarkLoaded, MarkMoved,
           Matching, None, Note, PicturesIn, ProbeSucceeds, Required, ResetAccess, RestoredSound,
           SetCheckpoint, Stage, Takes, Verify, WriteState
  <1>3. CASE Kick \/ Sweep \/ Forget \/ Finish \/ Wipe \/ FailSetup \/ GiveUp \/ Fail
        BY <1>3 DEF Abort, CutOff, Ends, Fail, FailSetup, Finish, FlagsTyped,
           Forget, GiveUp, GoTo, Kick, Learns, Matching, None, RemoveRun, Required, RollsBack,
           SettingUp, Stage, Sweep, Takes, Wipe
  <1>4. CASE WipeData
        BY <1>4 DEF Backup, Checkpoint, Comment, DiscardingInv, FileState, FlagsTyped, Follows,
           GoTo, Learns, None, Place, Required, RestTyped, WipeData
  <1>5. CASE Crash \/ ProbeFails \/ StartRestore \/ ResumeCleanup \/ Resume \/ DiscardMirror \/
         DiscardUnfinished \/ WebConnects
        BY <1>5 DEF AtMostOneAhead, Checkpoint, Crash, DiscardMirror, DiscardUnfinished, Ends,
           FlagsTyped, GoTo, Learns, None, Preflight, ProbeFails, Rank, Required, Resume,
           ResumeCleanup, RootIsEmpty, StartRestore, Takes, WebConnects
  <1>6. CASE WebLeaves \/ (\E w \in Workspaces : Journal(w) \/ Unpack(w) \/ Move(w) \/
         Unmove(w)) \/ UNCHANGED vars
        BY <1>6 DEF FlagsTyped, GoTo, Journal, Learns, Matching, Move, None, Stage, Unmove,
           Unpack, WebLeaves, WriteState, vars
  <1> QED BY <1>1, <1>2, <1>3, <1>4, <1>5, <1>6 DEF Next, Work, Receiving, Resuming, Discarding,
         Fault, StartActivate, StartDiscard

\* The file is at the checkpoint of the database, or one before it.
LEMMA DatabaseLeadsByOneKept ==
    ASSUME RestTyped, DatabaseLeadsByOne, SettingUpInv, ReceivingInv, ResumingInv, DiscardingInv,
           [Next]_vars
    PROVE  DatabaseLeadsByOne'
  <1>1. CASE Claim \/ MakeRun \/ Unclaim \/ Terminate
        BY <1>1 DEF Checkpoint, Claim, CutOff, DatabaseLeadsByOne, GoTo, Learns, MakeRun, None,
           Rank, RootIsEmpty, Terminate, Unclaim
  <1>2. CASE Publish \/ Begin
        BY <1>2 DEF Backup, Begin, Checkpoint, Comment, DatabaseLeadsByOne, FileState, GoTo,
           Learns, None, Place, Preflight, Publish, Rank, RestTyped, SettingUp, SettingUpInv
  <1>3. CASE Receive \/ MarkLoaded \/ (\E w \in Workspaces : Journal(w))
        BY <1>3 DEF Backup, Checkpoint, Comment, DatabaseLeadsByOne, FileState, Journal, Learns,
           MarkLoaded, Matching, None, Place, Rank, Receive, ReceivingInv, Required, RestTyped,
           SetCheckpoint, WriteState
  <1>4. CASE Register
        BY <1>4 DEF Checkpoint, DatabaseLeadsByOne, GoTo, Learns, None, Rank, Register, Required
  <1>5. CASE Load
        BY <1>5 DEF Checkpoint, DatabaseLeadsByOne, GoTo, Learns, Load, None, Rank
  <1>6. CASE Note \/ Verify \/ ResetAccess \/ MarkMoved \/ Activate \/ ProbeFails
    <2> USE DEF Backup, Checkpoint, Comment, DatabaseLeadsByOne, FileState, Follows, None, Place,
                Rank, RestTyped, ResumingInv
    <2>1. CASE Note
      BY <2>1 DEF Ends, GoTo, Learns, Matching, Note, Takes, WriteState
    <2>2. CASE Verify
      BY <2>2 DEF Learns, PicturesIn, Required, RestoredSound, SetCheckpoint, Stage, Verify
    <2>3. CASE ResetAccess \/ MarkMoved
      BY <2>3 DEF Learns, MarkMoved, PicturesIn, Required, ResetAccess, SetCheckpoint, Stage
    <2>4. CASE Activate \/ ProbeFails
      BY <2>4 DEF Activate, GoTo, Learns, ProbeFails, Required, Stage
    <2> QED
      BY <1>6, <2>1, <2>2, <2>3, <2>4
  <1>7. CASE ProbeSucceeds \/ Kick
        BY <1>7 DEF Checkpoint, CutOff, DatabaseLeadsByOne, Ends, Kick, Learns, None,
           ProbeSucceeds, Rank, Takes
  <1>8. CASE Sweep \/ Finish \/ Wipe \/ WipeData \/ FailSetup \/ GiveUp \/ Fail \/ Crash
        BY <1>8 DEF Abort, Checkpoint, Crash, DatabaseLeadsByOne, Ends, Fail,
           FailSetup, Finish, GiveUp, GoTo, Learns, Matching, None, Rank, RemoveRun, Required,
           RollsBack, SettingUp, Stage, Sweep, Takes, Wipe, WipeData
  <1>9. CASE Forget
        BY <1>9 DEF Backup, Checkpoint, Comment, DatabaseLeadsByOne, DiscardingInv, Ends,
           FileState, Follows, Forget, GoTo, Learns, Matching, None, Place, Rank, RestTyped, Takes
  <1>10. CASE StartRestore \/ ResumeCleanup \/ Resume \/ DiscardMirror \/ DiscardUnfinished \/
         WebConnects \/ WebLeaves \/ (\E w \in Workspaces : Unpack(w))
        BY <1>10 DEF AtMostOneAhead, Checkpoint, DatabaseLeadsByOne, DiscardMirror,
           DiscardUnfinished, GoTo, Learns, None, Preflight, Rank, Resume, ResumeCleanup,
           RootIsEmpty, StartRestore, Takes, Unpack, WebConnects, WebLeaves
  <1>11. CASE (\E w \in Workspaces : Move(w) \/ Unmove(w)) \/ UNCHANGED vars
        BY <1>11 DEF Checkpoint, DatabaseLeadsByOne, Matching, Move, None, Rank, Stage, Unmove,
           vars
  <1> QED BY <1>1, <1>2, <1>3, <1>4, <1>5, <1>6, <1>7, <1>8, <1>9, <1>10, <1>11 DEF Next, Work,
         Receiving, Resuming, Discarding, Fault, StartActivate, StartDiscard

\* The web service has nothing open to data that are not ready.
LEMMA NobodyReadsUnfinishedKept ==
    ASSUME RestTyped, NobodyReadsUnfinished, AccessIsAccountedFor, ReceivingInv, ContentInv, [Next]_vars
    PROVE  NobodyReadsUnfinished'
  <1>1. CASE Claim \/ MakeRun \/ Publish \/ Unclaim \/ Begin \/ Terminate \/ Receive \/ Register
        BY <1>1 DEF Begin, Claim, CutOff, GoTo, Learns, MakeRun, Matching,
           NobodyReadsUnfinished, None, Preflight, Publish, Receive, Register, Required,
           RootIsEmpty, Terminate, Unclaim, WriteState
  <1>2. CASE Load
        BY <1>2 DEF Backup, Checkpoint, Comment, FileState, GoTo, Learns, Load,
           NobodyReadsUnfinished, None, Place, ReceivingInv, RestTyped
  <1>3. CASE MarkLoaded \/ Note \/ Verify \/ ResetAccess \/ MarkMoved \/ Activate \/
         ProbeSucceeds \/ Kick
        BY <1>3 DEF Activate, CutOff, Ends, GoTo, Kick, Learns, MarkLoaded, MarkMoved, Matching,
           NobodyReadsUnfinished, None, Note, PicturesIn, ProbeSucceeds, Required, ResetAccess,
           RestoredSound, SetCheckpoint, Stage, Takes, Verify, WriteState
  <1>4. CASE Sweep \/ Forget \/ Finish \/ Wipe \/ WipeData \/ FailSetup \/ GiveUp \/ Fail
        BY <1>4 DEF Abort, Checkpoint, Ends, Fail, FailSetup, Finish, Forget,
           GiveUp, GoTo, Learns, Matching, NobodyReadsUnfinished, None, RemoveRun, Required,
           RollsBack, SettingUp, Stage, Sweep, Takes, Wipe, WipeData
  <1>5. CASE Crash \/ ProbeFails \/ StartRestore \/ ResumeCleanup \/ Resume \/ DiscardMirror \/
         DiscardUnfinished \/ WebLeaves
        BY <1>5 DEF AtMostOneAhead, Checkpoint, Crash, DiscardMirror, DiscardUnfinished, Ends,
           GoTo, Learns, NobodyReadsUnfinished, None, Preflight, ProbeFails, Rank, Required,
           Resume, ResumeCleanup, RootIsEmpty, StartRestore, Takes, WebLeaves
  <1>6. CASE WebConnects
        BY <1>6 DEF AccessIsAccountedFor, ContentInv, NobodyReadsUnfinished, None, WebConnects
  <1>7. CASE (\E w \in Workspaces : Journal(w) \/ Unpack(w) \/ Move(w) \/ Unmove(w)) \/
         UNCHANGED vars
        BY <1>7 DEF GoTo, Journal, Learns, Matching, Move, NobodyReadsUnfinished, None, Stage,
           Unmove, Unpack, WriteState, vars
  <1> QED BY <1>1, <1>2, <1>3, <1>4, <1>5, <1>6, <1>7 DEF Next, Work, Receiving, Resuming,
         Discarding, Fault, StartActivate, StartDiscard

\* Connecting is allowed when it is active, or as it was before.
LEMMA AccessIsAccountedForKept ==
    ASSUME RestTyped, AccessIsAccountedFor, SettingUpInv, ReceivingInv, ResumingInv, DiscardingInv,
           [Next]_vars
    PROVE  AccessIsAccountedFor'
  <1>1. CASE Claim \/ MakeRun \/ Unclaim \/ Begin \/ Terminate \/ ProbeSucceeds \/ Kick \/ Sweep
        BY <1>1 DEF AccessIsAccountedFor, Begin, Claim, CutOff, Ends, GoTo, Kick, Learns,
           MakeRun, Matching, None, Preflight, ProbeSucceeds, RemoveRun, RootIsEmpty, Stage, Sweep,
           Takes, Terminate, Unclaim
  <1>2. CASE Publish
        BY <1>2 DEF AccessIsAccountedFor, Backup, Checkpoint, Comment, FileState, GoTo, Learns,
           None, Place, Publish, RestTyped, SettingUp, SettingUpInv
  <1>3. CASE Receive \/ Load \/ (\E w \in Workspaces : Journal(w))
        BY <1>3 DEF AccessIsAccountedFor, Backup, Checkpoint, Comment, FileState, GoTo, Journal,
           Learns, Load, Matching, None, Place, Receive, ReceivingInv, RestTyped, WriteState
  <1>4. CASE Register \/ MarkLoaded \/ Verify \/ ResetAccess \/ MarkMoved \/ Activate \/
         ProbeFails
        BY <1>4 DEF AccessIsAccountedFor, Activate, Backup, Checkpoint, Comment, FileState,
           GoTo, Learns, MarkLoaded, MarkMoved, None, PicturesIn, Place, ProbeFails, Register,
           Required, ResetAccess, RestTyped, RestoredSound, SetCheckpoint, Stage, Verify
  <1>5. CASE Note
        BY <1>5 DEF AccessIsAccountedFor, Backup, Checkpoint, Comment, Ends, FileState, Follows,
           GoTo, Learns, Matching, None, Note, Place, RestTyped, ResumingInv, Takes, WriteState
  <1>6. CASE Forget \/ Wipe \/ FailSetup \/ GiveUp \/ Fail \/ Crash \/ StartRestore \/
         ResumeCleanup
        BY <1>6 DEF Abort, AccessIsAccountedFor, Crash, Ends, Fail, FailSetup,
           Forget, GiveUp, GoTo, Learns, Matching, None, Preflight, RemoveRun, Required,
           ResumeCleanup, RollsBack, RootIsEmpty, SettingUp, Stage, StartRestore, Takes, Wipe
  <1>7. CASE Finish \/ WipeData
        BY <1>7 DEF AccessIsAccountedFor, Backup, Checkpoint, Comment, DiscardingInv, Ends,
           FileState, Finish, Follows, GoTo, Learns, None, Place, Required, RestTyped, Takes,
           WipeData
  <1>8. CASE Resume \/ DiscardMirror \/ DiscardUnfinished \/ WebConnects \/ WebLeaves \/ (\E w
         \in Workspaces : Unpack(w) \/ Move(w) \/ Unmove(w))
        BY <1>8 DEF AccessIsAccountedFor, AtMostOneAhead, Checkpoint, DiscardMirror,
           DiscardUnfinished, GoTo, Learns, Matching, Move, None, Rank, Resume, Stage, Takes,
           Unmove, Unpack, WebConnects, WebLeaves
  <1>9. CASE UNCHANGED vars
        BY <1>9 DEF AccessIsAccountedFor, None, vars
  <1> QED BY <1>1, <1>2, <1>3, <1>4, <1>5, <1>6, <1>7, <1>8, <1>9 DEF Next, Work, Receiving,
         Resuming, Discarding, Fault, StartActivate, StartDiscard

\* While the volume is claimed nothing else has changed.
LEMMA SettingUpInvKept ==
    ASSUME SettingUpInv, [Next]_vars
    PROVE  SettingUpInv'
  <1>1. CASE Claim \/ MakeRun \/ Publish \/ Unclaim \/ Begin \/ Terminate \/ Receive \/ Register
        BY <1>1 DEF Begin, Claim, CutOff, GoTo, Learns, MakeRun, Matching, None, Preflight,
           Publish, Receive, Register, Required, RootIsEmpty, SettingUp, SettingUpInv, Terminate,
           Unclaim, WriteState
  <1>2. CASE Load \/ MarkLoaded \/ Note \/ Verify \/ ResetAccess \/ MarkMoved \/ Activate \/
         ProbeSucceeds
        BY <1>2 DEF Activate, Ends, GoTo, Learns, Load, MarkLoaded, MarkMoved, Matching, None,
           Note, PicturesIn, ProbeSucceeds, Required, ResetAccess, RestoredSound, SetCheckpoint,
           SettingUp, SettingUpInv, Stage, Takes, Verify, WriteState
  <1>3. CASE Kick \/ Sweep \/ Forget \/ Finish \/ Wipe \/ WipeData \/ FailSetup \/ GiveUp
        BY <1>3 DEF Abort, Checkpoint, CutOff, Ends, FailSetup, Finish, Forget,
           GiveUp, GoTo, Kick, Learns, Matching, None, RemoveRun, Required, RollsBack, SettingUp,
           SettingUpInv, Stage, Sweep, Takes, Wipe, WipeData
  <1>4. CASE Fail \/ Crash \/ ProbeFails \/ StartRestore \/ ResumeCleanup \/ Resume \/
         DiscardMirror \/ DiscardUnfinished
        BY <1>4 DEF Abort, AtMostOneAhead, Checkpoint, Crash, DiscardMirror,
           DiscardUnfinished, Ends, Fail, GoTo, Learns, None, Preflight, ProbeFails, Rank,
           Required, Resume, ResumeCleanup, RollsBack, RootIsEmpty, SettingUp, SettingUpInv, Stage,
           StartRestore, Takes
  <1>5. CASE WebConnects \/ WebLeaves \/ (\E w \in Workspaces : Journal(w) \/ Unpack(w) \/
         Move(w) \/ Unmove(w)) \/ UNCHANGED vars
        BY <1>5 DEF GoTo, Journal, Learns, Matching, Move, None, SettingUp, SettingUpInv, Stage,
           Unmove, Unpack, WebConnects, WebLeaves, WriteState, vars
  <1> QED BY <1>1, <1>2, <1>3, <1>4, <1>5 DEF Next, Work, Receiving, Resuming, Discarding,
         Fault, StartActivate, StartDiscard

\* While the backup is received database and file are at the first checkpoint.
LEMMA ReceivingInvKept ==
    ASSUME RestTyped, AccessIsAccountedFor, SettingUpInv, ReceivingInv, [Next]_vars
    PROVE  ReceivingInv'
  <1>1. CASE Claim \/ MakeRun \/ Publish \/ Unclaim \/ Terminate \/ Load \/ MarkLoaded \/ Note
        BY <1>1 DEF Claim, CutOff, Ends, GoTo, Learns, Load, MakeRun, MarkLoaded, Matching,
           None, Note, Publish, ReceivingInv, Required, RootIsEmpty, SetCheckpoint, Takes,
           Terminate, Unclaim, WriteState
  <1>2. CASE Begin
        BY <1>2 DEF Backup, Begin, Checkpoint, Comment, FileState, GoTo, Learns, None, Place,
           Preflight, ReceivingInv, RestTyped, SettingUp, SettingUpInv
  <1>3. CASE Receive \/ Register \/ (\E w \in Workspaces : Journal(w))
        BY <1>3 DEF Backup, Checkpoint, Comment, FileState, GoTo, Journal, Learns, Matching,
           None, Place, Receive, ReceivingInv, Register, Required, RestTyped, WriteState
  <1>4. CASE Verify \/ ResetAccess \/ MarkMoved \/ Activate \/ ProbeSucceeds \/ Kick \/ Sweep \/
         Forget
        BY <1>4 DEF Activate, CutOff, Ends, Forget, GoTo, Kick, Learns, MarkMoved, Matching,
           None, PicturesIn, ProbeSucceeds, ReceivingInv, RemoveRun, Required, ResetAccess,
           RestoredSound, SetCheckpoint, Stage, Sweep, Takes, Verify
  <1>5. CASE Finish \/ Wipe \/ WipeData \/ FailSetup \/ GiveUp \/ Fail \/ Crash \/ ProbeFails
        BY <1>5 DEF Abort, Checkpoint, Crash, Ends, Fail, FailSetup, Finish, GiveUp,
           GoTo, Learns, Matching, None, ProbeFails, ReceivingInv, RemoveRun, Required, RollsBack,
           SettingUp, Stage, Takes, Wipe, WipeData
  <1>6. CASE StartRestore \/ ResumeCleanup \/ Resume \/ DiscardMirror \/ DiscardUnfinished \/
         WebLeaves \/ (\E w \in Workspaces : Unpack(w) \/ Move(w))
        BY <1>6 DEF AtMostOneAhead, Checkpoint, DiscardMirror, DiscardUnfinished, GoTo, Learns,
           Matching, Move, None, Preflight, Rank, ReceivingInv, Resume, ResumeCleanup, RootIsEmpty,
           Stage, StartRestore, Takes, Unpack, WebLeaves
  <1>7. CASE WebConnects
        BY <1>7 DEF AccessIsAccountedFor, Backup, Checkpoint, Comment, FileState, None, Place,
           ReceivingInv, RestTyped, WebConnects
  <1>8. CASE (\E w \in Workspaces : Unmove(w)) \/ UNCHANGED vars
        BY <1>8 DEF None, ReceivingInv, Unmove, vars
  <1> QED BY <1>1, <1>2, <1>3, <1>4, <1>5, <1>6, <1>7, <1>8 DEF Next, Work, Receiving, Resuming,
         Discarding, Fault, StartActivate, StartDiscard

\* Every later step starts from the checkpoint the command holds.
LEMMA ResumingInvKept ==
    ASSUME RestTyped, ReceivingInv, ResumingInv, [Next]_vars
    PROVE  ResumingInv'
  <1>1. CASE Claim \/ MakeRun \/ Publish \/ Unclaim \/ Begin \/ Terminate \/ Receive \/ Register
        BY <1>1 DEF Begin, Claim, CutOff, Follows, GoTo, Learns, MakeRun, Matching, None,
           Preflight, Publish, Receive, Register, Required, ResumingInv, RootIsEmpty, Terminate,
           Unclaim, WriteState
  <1>2. CASE Load
        BY <1>2 DEF Follows, GoTo, Learns, Load, None, ResumingInv
  <1>3. CASE MarkLoaded
        BY <1>3 DEF Backup, Checkpoint, Comment, FileState, Follows, Learns, MarkLoaded, None,
           Place, ReceivingInv, Required, RestTyped, ResumingInv, SetCheckpoint
  <1>4. CASE Note \/ Verify \/ ResetAccess \/ MarkMoved \/ Activate \/ ProbeFails
        BY <1>4 DEF Activate, Backup, Checkpoint, Comment, Ends, FileState, Follows, GoTo,
           Learns, MarkMoved, Matching, None, Note, PicturesIn, Place, ProbeFails, Required,
           ResetAccess, RestTyped, RestoredSound, ResumingInv, SetCheckpoint, Stage, Takes, Verify,
           WriteState
  <1>5. CASE ProbeSucceeds
        BY <1>5 DEF Follows, Learns, None, ProbeSucceeds, ResumingInv
  <1>6. CASE Kick \/ Sweep
        BY <1>6 DEF CutOff, Ends, Follows, GoTo, Kick, Learns, Matching, None, RemoveRun,
           ResumingInv, Stage, Sweep, Takes
  <1>7. CASE Forget \/ Finish \/ Wipe \/ WipeData
        BY <1>7 DEF Checkpoint, Ends, Finish, Follows, Forget, GoTo, Learns, Matching, None,
           RemoveRun, Required, ResumingInv, Takes, Wipe, WipeData
  <1>8. CASE FailSetup \/ GiveUp \/ Fail \/ Crash
        BY <1>8 DEF Abort, Crash, Ends, Fail, FailSetup, Follows, GiveUp, None,
           Required, ResumingInv, RollsBack, SettingUp, Stage, Takes
  <1>9. CASE StartRestore \/ ResumeCleanup
        BY <1>9 DEF Follows, None, Preflight, ResumeCleanup, ResumingInv, RootIsEmpty,
           StartRestore, Takes
  <1>10. CASE Resume
        BY <1>10 DEF AtMostOneAhead, Checkpoint, Follows, None, Rank, Resume, ResumingInv, Takes
  <1>11. CASE DiscardMirror
        BY <1>11 DEF DiscardMirror, Follows, None, ResumingInv, Takes
  <1>12. CASE DiscardUnfinished \/ WebConnects \/ WebLeaves \/ (\E w \in Workspaces : Journal(w)
         \/ Unpack(w) \/ Move(w) \/ Unmove(w)) \/ UNCHANGED vars
        BY <1>12 DEF DiscardUnfinished, Follows, GoTo, Journal, Learns, Matching, Move, None,
           ResumingInv, Stage, Takes, Unmove, Unpack, WebConnects, WebLeaves, WriteState, vars
  <1> QED BY <1>1, <1>2, <1>3, <1>4, <1>5, <1>6, <1>7, <1>8, <1>9, <1>10, <1>11, <1>12 DEF Next,
         Work, Receiving, Resuming, Discarding, Fault, StartActivate, StartDiscard

\* A discard knows which restore it takes away.
LEMMA DiscardingInvKept ==
    ASSUME RestTyped, DatabaseLeadsByOne, SettingUpInv, ResumingInv, DiscardingInv, MineInv, [Next]_vars
    PROVE  DiscardingInv'
  <1>1. CASE Claim \/ MakeRun \/ Publish \/ Unclaim \/ Begin \/ Terminate \/ Receive \/ Register
        BY <1>1 DEF Begin, Claim, CutOff, DiscardingInv, Follows, GoTo, Learns, MakeRun,
           Matching, None, Preflight, Publish, Receive, Register, Required, RootIsEmpty, Terminate,
           Unclaim, WriteState
  <1>2. CASE Load \/ MarkLoaded \/ Note \/ Verify \/ ResetAccess \/ MarkMoved \/ Activate \/
         ProbeSucceeds
        BY <1>2 DEF Activate, DiscardingInv, Ends, Follows, GoTo, Learns, Load, MarkLoaded,
           MarkMoved, Matching, None, Note, PicturesIn, ProbeSucceeds, Required, ResetAccess,
           RestoredSound, SetCheckpoint, Stage, Takes, Verify, WriteState
  <1>3. CASE Kick \/ Forget \/ Finish \/ Wipe \/ FailSetup \/ Crash \/ ProbeFails \/
         StartRestore
        BY <1>3 DEF Crash, CutOff, DiscardingInv, Ends, FailSetup, Finish, Follows, Forget,
           GoTo, Kick, Learns, Matching, None, Preflight, ProbeFails, RemoveRun, Required,
           RootIsEmpty, SettingUp, StartRestore, Takes, Wipe
  <1>4. CASE Sweep \/ GiveUp
        BY <1>4 DEF Abort, Backup, CannotGoOn, CannotMove, CannotWrite, Checkpoint, Comment,
           DiscardingInv, Ends,
           FileState, Follows, GiveUp, GoTo, Learns, Matching, None, Place, RemoveRun, Required,
           RestTyped, ResumingInv, RollsBack, Stage, Sweep, Takes
  <1>5. CASE WipeData
        BY <1>5 DEF Backup, Checkpoint, Comment, DatabaseLeadsByOne, DiscardingInv, FileState,
           Follows, GoTo, Learns, None, Place, Rank, Required, RestTyped, WipeData
  <1>6. CASE Fail
        BY <1>6 DEF Abort, Checkpoint, DatabaseLeadsByOne, DiscardingInv, Ends,
           Fail, Follows, MineInv, None, Rank, Required, RollsBack, SettingUp, SettingUpInv, Stage,
           Takes
  <1>7. CASE ResumeCleanup \/ Resume \/ DiscardMirror \/ DiscardUnfinished \/ WebConnects \/
         WebLeaves \/ (\E w \in Workspaces : Journal(w) \/ Unpack(w))
        BY <1>7 DEF AtMostOneAhead, Checkpoint, DiscardMirror, DiscardUnfinished, DiscardingInv,
           Follows, GoTo, Journal, Learns, Matching, None, Rank, Resume, ResumeCleanup, Takes,
           Unpack, WebConnects, WebLeaves, WriteState
  <1>8. CASE (\E w \in Workspaces : Move(w) \/ Unmove(w)) \/ UNCHANGED vars
        BY <1>8 DEF DiscardingInv, Follows, Matching, Move, None, Stage, Unmove, vars
  <1> QED BY <1>1, <1>2, <1>3, <1>4, <1>5, <1>6, <1>7, <1>8 DEF Next, Work, Receiving, Resuming,
         Discarding, Fault, StartActivate, StartDiscard

\* What is rolled back is there to be rolled back.
LEMMA MineInvKept ==
    ASSUME RestTyped, MineInv, [Next]_vars
    PROVE  MineInv'
  <1>1. CASE Claim \/ MakeRun \/ Publish \/ Unclaim \/ Begin \/ Terminate \/ Receive \/ Load
        BY <1>1 DEF Begin, Claim, CutOff, GoTo, Learns, Load, MakeRun, Matching, MineInv, None,
           Preflight, Publish, Receive, RootIsEmpty, Terminate, Unclaim, WriteState
  <1>2. CASE Register \/ MarkLoaded \/ Verify \/ ResetAccess \/ MarkMoved \/ Activate \/
         ProbeFails
        BY <1>2 DEF Activate, Backup, Checkpoint, Comment, FileState, GoTo, Learns, MarkLoaded,
           MarkMoved, MineInv, None, PicturesIn, Place, ProbeFails, Register, Required,
           ResetAccess, RestTyped, RestoredSound, SetCheckpoint, Stage, Verify
  <1>3. CASE Note \/ ProbeSucceeds \/ Kick \/ Sweep \/ Forget \/ Finish \/ Wipe \/ WipeData
        BY <1>3 DEF Checkpoint, CutOff, Ends, Finish, Forget, GoTo, Kick, Learns, Matching,
           MineInv, None, Note, ProbeSucceeds, RemoveRun, Required, Stage, Sweep, Takes, Wipe,
           WipeData, WriteState
  <1>4. CASE FailSetup \/ GiveUp \/ Fail \/ Crash \/ StartRestore \/ ResumeCleanup \/ Resume \/
         DiscardMirror
        BY <1>4 DEF Abort, AtMostOneAhead, Checkpoint, Crash, DiscardMirror, Ends,
           Fail, FailSetup, GiveUp, MineInv, None, Preflight, Rank, Required, Resume,
           ResumeCleanup, RollsBack, RootIsEmpty, SettingUp, Stage, StartRestore, Takes
  <1>5. CASE DiscardUnfinished \/ WebConnects \/ WebLeaves \/ (\E w \in Workspaces : Journal(w)
         \/ Unpack(w) \/ Move(w) \/ Unmove(w)) \/ UNCHANGED vars
        BY <1>5 DEF DiscardUnfinished, GoTo, Journal, Learns, Matching, MineInv, Move, None,
           Stage, Takes, Unmove, Unpack, WebConnects, WebLeaves, WriteState, vars
  <1> QED BY <1>1, <1>2, <1>3, <1>4, <1>5 DEF Next, Work, Receiving, Resuming, Discarding,
         Fault, StartActivate, StartDiscard

\* What the database holds at each checkpoint.
LEMMA ContentInvKept ==
    ASSUME RestTyped, ReceivingInv, ContentInv, [Next]_vars
    PROVE  ContentInv'
  <1>1. CASE Claim \/ MakeRun \/ Publish \/ Unclaim \/ Begin \/ Terminate \/ Receive \/ Note
        BY <1>1 DEF Begin, Claim, ContentInv, CutOff, Ends, GoTo, Learns, MakeRun, Matching,
           None, Note, Preflight, Publish, Receive, RootIsEmpty, Takes, Terminate, Unclaim,
           WriteState
  <1>2. CASE Register \/ Verify \/ ResetAccess
        BY <1>2 DEF Backup, Checkpoint, Comment, ContentInv, FileState, GoTo, Learns, None,
           PicturesIn, Place, Register, Required, ResetAccess, RestTyped, RestoredSound,
           SetCheckpoint, Stage, Verify
  <1>3. CASE Load \/ MarkLoaded
        BY <1>3 DEF Backup, Checkpoint, Comment, ContentInv, FileState, GoTo, Learns, Load,
           MarkLoaded, None, Place, ReceivingInv, Required, RestTyped, SetCheckpoint
  <1>4. CASE MarkMoved
        BY <1>4 DEF ContentInv, Learns, MarkMoved, None, PicturesIn, Required, SetCheckpoint,
           Stage
  <1>5. CASE Activate
        BY <1>5 DEF Activate, ContentInv, GoTo, Learns, None, Required, Stage
  <1>6. CASE ProbeSucceeds \/ Kick
        BY <1>6 DEF ContentInv, CutOff, Ends, Kick, Learns, None, ProbeSucceeds, Takes
  <1>7. CASE Sweep \/ Forget \/ Finish \/ Wipe
        BY <1>7 DEF ContentInv, Ends, Finish, Forget, GoTo, Learns, Matching, None, RemoveRun,
           Stage, Sweep, Takes, Wipe
  <1>8. CASE WipeData \/ FailSetup \/ GiveUp \/ Fail
        BY <1>8 DEF Abort, Checkpoint, ContentInv, Ends, Fail, FailSetup, GiveUp,
           GoTo, Learns, None, Required, RollsBack, SettingUp, Stage, Takes, WipeData
  <1>9. CASE Crash
        BY <1>9 DEF ContentInv, Crash, Ends, None, Takes
  <1>10. CASE ProbeFails
        BY <1>10 DEF ContentInv, GoTo, Learns, None, ProbeFails, Required
  <1>11. CASE StartRestore \/ ResumeCleanup
        BY <1>11 DEF ContentInv, None, Preflight, ResumeCleanup, RootIsEmpty, StartRestore,
           Takes
  <1>12. CASE Resume \/ DiscardMirror \/ DiscardUnfinished \/ WebConnects \/ WebLeaves \/ (\E w
         \in Workspaces : Journal(w) \/ Unpack(w) \/ Move(w))
        BY <1>12 DEF AtMostOneAhead, Checkpoint, ContentInv, DiscardMirror, DiscardUnfinished,
           GoTo, Journal, Learns, Matching, Move, None, Rank, Resume, Stage, Takes, Unpack,
           WebConnects, WebLeaves, WriteState
  <1>13. CASE (\E w \in Workspaces : Unmove(w)) \/ UNCHANGED vars
        BY <1>13 DEF ContentInv, None, Unmove, vars
  <1> QED BY <1>1, <1>2, <1>3, <1>4, <1>5, <1>6, <1>7, <1>8, <1>9, <1>10, <1>11, <1>12, <1>13
         DEF Next, Work, Receiving, Resuming, Discarding, Fault, StartActivate, StartDiscard

\* The steps that leave the pictures where they are, and what the database and
\* the staging directory say of them.
LEMMA PicturesStay ==
    ASSUME RestTyped, OpenOnlyWithPictures, PlaceInv,
           UNCHANGED <<place, whole>>, "run" \in control' => "run" \in control,
           db' = None \/ (db # None /\ db'.cp = db.cp) \/ db'.cp \notin {"media-moved", "active"}
    PROVE  /\ OpenOnlyWithPictures'
           /\ db' # None /\ db'.cp = "media-moved" /\ "run" \in control' => PicturesIn("moved")'
BY DEF OpenOnlyWithPictures, PlaceInv, PicturesIn

\* Access is open only over complete pictures, and a discard gives up the staging
\* directory before any of them.
LEMMA PicturesKept ==
    ASSUME RestTyped, SettingUpInv, ReceivingInv, ResumingInv, DiscardingInv,
           OpenOnlyWithPictures, PlaceInv, [Next]_vars
    PROVE  OpenOnlyWithPictures' /\ PlaceInv'
  <1> USE DEF None
  <1>1. CASE Claim \/ Publish \/ Unclaim \/ Begin \/ Terminate \/ Receive \/ Register \/ Load
    <2>1. /\ UNCHANGED <<place, whole>>
          /\ "run" \in control' => "run" \in control
          /\ at' # "unmove" /\ at' # "step"
          /\ (db # None /\ db' # None /\ db'.cp = db.cp) \/ db' = db \/ db'.cp = "receiving"
      BY <1>1 DEF Claim, Publish, Unclaim, Begin, Terminate, Receive, Register, Load, GoTo,
         Learns, Required, RestTyped, Comment
    <2> QED
      BY <2>1, PicturesStay DEF PlaceInv, Stage
  <1>2. CASE MakeRun
    <2>1. db' = db /\ db = None /\ at' = "publish"
      BY <1>2 DEF MakeRun, GoTo, Learns, SettingUpInv, SettingUp
    <2> QED
      BY <2>1 DEF PlaceInv, OpenOnlyWithPictures, Stage
  <1>3. CASE MarkLoaded \/ Verify \/ ResetAccess \/ ProbeSucceeds
    <2>1. UNCHANGED <<place, whole, control>> /\ at' = "note"
      BY <1>3 DEF MarkLoaded, Verify, ResetAccess, ProbeSucceeds, Learns
    <2>2. (db # None /\ db'.cp = db.cp) \/ db' = db \/ db'.cp \notin {"media-moved", "active"}
      BY <1>3 DEF MarkLoaded, Verify, ResetAccess, ProbeSucceeds, SetCheckpoint, Required,
         RestTyped, Comment
    <2> QED
      BY <2>1, <2>2, PicturesStay DEF PlaceInv, Stage
  <1>4. CASE Note
    <2>1. UNCHANGED <<place, whole, control, db>> /\ "run" \in control /\ at' # "unmove"
      BY <1>4 DEF Note, WriteState, Ends, Takes, GoTo, Learns
    <2> QED
      BY <2>1, PicturesStay DEF PlaceInv, Stage
  <1>5. CASE MarkMoved
    <2>1. PicturesIn("moved") /\ UNCHANGED <<place, whole>> /\ at' = "note"
      BY <1>5 DEF MarkMoved, Learns
    <2> QED
      BY <2>1 DEF PlaceInv, OpenOnlyWithPictures, PicturesIn, Stage
  <1>6. CASE Activate
    <2>1. PicturesIn("moved") /\ UNCHANGED <<place, whole>> /\ at' = "probe"
      BY <1>6 DEF Activate, Required, PlaceInv, GoTo, Learns
    <2> QED
      BY <2>1 DEF PlaceInv, OpenOnlyWithPictures, PicturesIn, Stage
  <1>7. CASE ProbeFails
    <2>1. PicturesIn("moved") /\ UNCHANGED <<place, whole>> /\ at' = "kick"
      BY <1>7 DEF ProbeFails, Required, OpenOnlyWithPictures, GoTo, Learns
    <2> QED
      BY <2>1 DEF PlaceInv, OpenOnlyWithPictures, PicturesIn, Stage
  <1>8. CASE Kick \/ Finish \/ WipeData \/ FailSetup \/ Crash \/ Forget
    <2>1. /\ UNCHANGED <<place, whole>>
          /\ db' = db \/ db' = None
          /\ "run" \in control' => "run" \in control
          /\ at' \notin {"unmove", "step"}
      BY <1>8 DEF Kick, Finish, WipeData, FailSetup, Crash, Forget, Ends, Takes, GoTo, Learns
    <2> QED
      BY <2>1, PicturesStay DEF PlaceInv, Stage
  <1>9. CASE Sweep \/ Wipe
    <2>1. /\ UNCHANGED db
          /\ at = "sweep" \/ at = "wipe" \/ Stage("active")
          /\ RemoveRun("forget") \/ RemoveRun("unmove")
      BY <1>9 DEF Sweep, Wipe
    <2>2. CASE (\E w \in Workspaces : place[w] = "staged" /\ Erase(w))
               /\ UNCHANGED <<control, at, memo, mine>>
      <3>1. ~ PicturesIn("moved")
        BY <2>2 DEF PicturesIn
      <3> QED
        BY <2>1, <2>2, <3>1 DEF PlaceInv, OpenOnlyWithPictures, Stage
    <2>3. CASE /\ control' = control \ {"run"}
               /\ UNCHANGED <<place, whole>>
               /\ at' = "forget" \/ at' = "unmove"
      BY <2>1, <2>3, PicturesStay DEF PlaceInv, Stage
    <2> QED
      BY <2>1, <2>2, <2>3 DEF RemoveRun, GoTo, Learns
  <1>10. ASSUME NEW w \in Workspaces, Unmove(w)
         PROVE  OpenOnlyWithPictures' /\ PlaceInv'
    <2>1. /\ UNCHANGED <<db, control, at, memo>> /\ at = "unmove" /\ "run" \notin control
          /\ db.cp # "active"
      BY <1>10 DEF Unmove, PlaceInv, DiscardingInv
    <2> QED
      BY <2>1 DEF PlaceInv, OpenOnlyWithPictures, Stage
  <1>11. ASSUME NEW w \in Workspaces, Unpack(w)
         PROVE  OpenOnlyWithPictures' /\ PlaceInv'
    <2>1. UNCHANGED <<db, control>> /\ at' = "extract" /\ db.cp = "receiving"
      BY <1>11 DEF Unpack, ReceivingInv, GoTo, Learns
    <2> QED
      BY <2>1 DEF PlaceInv, OpenOnlyWithPictures, Stage
  <1>12. ASSUME NEW w \in Workspaces, Move(w)
         PROVE  OpenOnlyWithPictures' /\ PlaceInv'
    <2>1. /\ UNCHANGED <<db, control, at, memo>> /\ at = "step" /\ db.cp = "access-reset"
          /\ memo.cp = "access-reset"
      BY <1>12 DEF Move, Stage, ResumingInv
    <2> QED
      BY <2>1 DEF PlaceInv, OpenOnlyWithPictures, Stage
  <1>13. CASE GiveUp \/ Fail
    <2>1. UNCHANGED <<place, whole, control, db>> /\ at' \in {"wipe", "sweep", "idle"}
      BY <1>13 DEF GiveUp, Fail, Abort, Ends, Takes
    <2> QED
      BY <2>1, PicturesStay DEF PlaceInv, Stage
  <1>14. CASE StartRestore \/ StartActivate \/ StartDiscard \/ (\E w \in Workspaces : Journal(w))
    <2>1. /\ UNCHANGED <<place, whole, control, db>> /\ at' # "unmove"
          /\ at' = "step" => memo'.cp = "active"
      BY <1>14 DEF StartRestore, StartActivate, StartDiscard, ResumeCleanup, Resume,
         DiscardMirror, DiscardUnfinished, Journal, Takes, Learns, RestTyped, FileState
    <2> QED
      BY <2>1, PicturesStay DEF PlaceInv, Stage
  <1>15. CASE WebConnects \/ WebLeaves \/ UNCHANGED vars
    <2>1. UNCHANGED <<place, whole, control, db, at, memo>>
      BY <1>15 DEF WebConnects, WebLeaves, vars
    <2> QED
      BY <2>1, PicturesStay DEF PlaceInv, Stage
  <1> QED BY <1>1, <1>2, <1>3, <1>4, <1>5, <1>6, <1>7, <1>8, <1>9, <1>10, <1>11, <1>12, <1>13,
         <1>14, <1>15 DEF Next, Work, Receiving, Resuming, Discarding, Fault

-----------------------------------------------------------------------------
LEMMA InitIInv == ASSUME Init PROVE IInv
  <1>1. RestTyped
        BY DEF Init, RestTyped, Comment, FileState, Place, None
  <1>2. FlagsTyped
        BY DEF Init, FlagsTyped
  <1>3. /\ DatabaseLeadsByOne /\ NobodyReadsUnfinished /\ AccessIsAccountedFor
        /\ MineInv /\ OpenOnlyWithPictures
        BY DEF Init, DatabaseLeadsByOne, NobodyReadsUnfinished, AccessIsAccountedFor, MineInv,
           OpenOnlyWithPictures, None
  <1>4. SettingUpInv /\ ReceivingInv /\ ResumingInv /\ DiscardingInv
        BY DEF Init, SettingUpInv, ReceivingInv, ResumingInv, DiscardingInv, SettingUp, None
  <1>5. ContentInv /\ PlaceInv
        BY DEF Init, ContentInv, PlaceInv, Stage, None
  <1> QED BY <1>1, <1>2, <1>3, <1>4, <1>5 DEF IInv

LEMMA NextIInv == ASSUME IInv, [Next]_vars PROVE IInv'
  <1>1. /\ RestTyped /\ FlagsTyped
        /\ DatabaseLeadsByOne /\ NobodyReadsUnfinished /\ AccessIsAccountedFor
        /\ SettingUpInv /\ ReceivingInv /\ ResumingInv /\ DiscardingInv /\ MineInv /\ ContentInv
        /\ OpenOnlyWithPictures /\ PlaceInv
        BY DEF IInv
  <1>2. RestTyped' /\ FlagsTyped'
        BY <1>1, RestStaysTyped, FlagsStayTyped
  <1>3. DatabaseLeadsByOne' /\ NobodyReadsUnfinished' /\ AccessIsAccountedFor'
        BY <1>1, DatabaseLeadsByOneKept, NobodyReadsUnfinishedKept, AccessIsAccountedForKept
  <1>4. SettingUpInv' /\ ReceivingInv' /\ ResumingInv' /\ DiscardingInv'
        BY <1>1, SettingUpInvKept, ReceivingInvKept, ResumingInvKept, DiscardingInvKept
  <1>5. MineInv' /\ ContentInv'
        BY <1>1, MineInvKept, ContentInvKept
  <1>6. OpenOnlyWithPictures' /\ PlaceInv'
        BY <1>1, PicturesKept
  <1> QED BY <1>2, <1>3, <1>4, <1>5, <1>6 DEF IInv

LEMMA Invariant == Spec => []IInv
  <1>1. Init => IInv
        BY InitIInv
  <1>2. IInv /\ [Next]_vars => IInv'
        BY NextIInv
  <1> QED BY <1>1, <1>2, PTL DEF Spec

-----------------------------------------------------------------------------
(* What follows for the runs' properties. *)

\* Database, volume and command keep their domains, for any set of workspaces.
THEOREM RestoreTyped == Spec => []TypeOK
  <1>1. IInv => TypeOK
        BY DEF IInv, RestTyped, FlagsTyped, TypeOK
  <1> QED BY <1>1, Invariant, PTL

\* The database's checkpoint is the file's or the next one, whatever crashed.
THEOREM CheckpointsStayClose == Spec => []DatabaseLeadsByOne
  <1>1. IInv => DatabaseLeadsByOne
        BY DEF IInv
  <1> QED BY <1>1, Invariant, PTL

\* Restored data are read only once access to them was reset.
THEOREM ReadsAreSafe == Spec => []NobodyReadsUnfinished
  <1>1. IInv => NobodyReadsUnfinished
        BY DEF IInv
  <1> QED BY <1>1, Invariant, PTL

\* Access is open only over complete pictures, although removing a directory may
\* stop anywhere. (staging.ts:468, backups.md:110)
THEOREM PicturesAreComplete == Spec => []OpenOnlyWithPictures
  <1>1. IInv => OpenOnlyWithPictures
        BY DEF IInv
  <1> QED BY <1>1, Invariant, PTL

\* Whether the runtime role may connect follows from database and file.
THEOREM AccessIsKnown == Spec => []AccessIsAccountedFor
  <1>1. IInv => AccessIsAccountedFor
        BY DEF IInv
  <1> QED BY <1>1, Invariant, PTL

-----------------------------------------------------------------------------
(* The refinement of SafeRestore. *)

MapOf == <<Phase, Content, Reader>>

\* The steps that the promise does not see.
LEMMA HiddenSteps ==
    ASSUME RestTyped, FlagsTyped, ContentInv,
           \/ Claim \/ MakeRun \/ Publish \/ Unclaim \/ Receive \/ Register \/ MarkLoaded
           \/ (\E w \in Workspaces : Journal(w) \/ Unpack(w))
           \/ Note \/ Verify \/ (\E w \in Workspaces : Move(w)) \/ MarkMoved
           \/ GiveUp \/ ProbeSucceeds \/ Sweep \/ Forget \/ Finish
           \/ Wipe \/ (\E w \in Workspaces : Unmove(w)) \/ FailSetup \/ Fail \/ Crash
           \/ StartRestore \/ StartActivate \/ StartDiscard \/ UNCHANGED vars
    PROVE  UNCHANGED MapOf
  <1>1. CASE Claim \/ MakeRun \/ Publish \/ Unclaim \/ Receive
        BY <1>1 DEF MapOf, Phase, Content, Reader, Claim, MakeRun, Publish, Unclaim, Receive
  <1>2. CASE Note \/ Sweep \/ Forget \/ Wipe
        BY <1>2 DEF MapOf, Phase, Content, Reader, Note, Sweep, Forget, Wipe
  <1>3. CASE \E w \in Workspaces : Journal(w) \/ Unpack(w) \/ Move(w) \/ Unmove(w)
        BY <1>3 DEF MapOf, Phase, Content, Reader, Journal, Unpack, Move, Unmove
  <1>4. CASE GiveUp \/ ProbeSucceeds \/ FailSetup \/ Fail \/ Crash \/ UNCHANGED vars
        BY <1>4 DEF MapOf, Phase, Content, Reader, GiveUp, Abort, ProbeSucceeds, FailSetup, Fail,
           Crash, vars
  <1>5. CASE StartRestore \/ StartActivate \/ StartDiscard
        BY <1>5 DEF MapOf, Phase, Content, Reader, StartRestore, StartActivate, ResumeCleanup,
           Resume, StartDiscard, DiscardMirror, DiscardUnfinished
  <1>6. CASE Register \/ MarkLoaded \/ Verify \/ MarkMoved
        BY <1>6 DEF MapOf, Phase, Content, Reader, Register, MarkLoaded, Verify, MarkMoved,
           SetCheckpoint, Required, RestTyped, Comment, Backup, Checkpoint, None
  <1>7. CASE Finish
        BY <1>7 DEF MapOf, Phase, Content, Reader, Finish, RestTyped, ContentInv, None
  <1> QED BY <1>1, <1>2, <1>3, <1>4, <1>5, <1>6, <1>7

LEMMA StepRefines == ASSUME IInv, [Next]_vars PROVE [Promise!Next]_(Promise!vars)
  <1>1. RestTyped /\ FlagsTyped /\ ContentInv /\ ReceivingInv /\ AccessIsAccountedFor
        /\ SettingUpInv /\ DiscardingInv /\ ResumingInv
        BY DEF IInv
  <1>2. CASE Begin
    <2>1. Promise!Begin
          BY <1>1, <1>2 DEF Promise!Begin, Phase, Content, Reader, Begin, Preflight, None
    <2> QED BY <2>1 DEF Promise!Next
  <1>3. CASE Load
    <2>1. Promise!Load
          BY <1>1, <1>3 DEF Promise!Load, Phase, Content, Reader, Load, ReceivingInv, None
    <2> QED BY <2>1 DEF Promise!Next
  <1>4. CASE ResetAccess
    <2>1. Promise!Clean \/ UNCHANGED MapOf
          BY <1>1, <1>4 DEF Promise!Clean, MapOf, Phase, Content, Reader, ResetAccess, Required,
             ContentInv, RestTyped, Comment, Checkpoint, Backup, None
    <2> QED BY <2>1 DEF Promise!Next, Promise!vars, MapOf
  <1>5. CASE Activate
    <2>1. Promise!Open
          BY <1>1, <1>5 DEF Promise!Open, Phase, Content, Reader, Activate, Required,
             ContentInv, RestTyped, Comment, Checkpoint, Backup, None
    <2> QED BY <2>1 DEF Promise!Next
  <1>6. CASE ProbeFails
    <2>1. Promise!CloseAgain
          BY <1>1, <1>6 DEF Promise!CloseAgain, Phase, Content, Reader, ProbeFails, Required,
             ContentInv, RestTyped, Comment, Checkpoint, Backup, None
    <2> QED BY <2>1 DEF Promise!Next
  <1>7. CASE WipeData
    <2>1. Promise!Discard
          BY <1>1, <1>7 DEF Promise!Discard, Phase, Content, Reader, WipeData, Required, None
    <2> QED BY <2>1 DEF Promise!Next
  <1>8. CASE WebConnects
    <2>1. Promise!Connect \/ UNCHANGED MapOf
          BY <1>1, <1>8 DEF Promise!Connect, MapOf, Phase, Content, Reader, WebConnects,
             AccessIsAccountedFor, None
    <2> QED BY <2>1 DEF Promise!Next, Promise!vars, MapOf
  <1>9. CASE WebLeaves \/ Terminate \/ Kick
    <2>1. Promise!Leave \/ UNCHANGED MapOf
          BY <1>1, <1>9 DEF Promise!Leave, MapOf, Phase, Content, Reader, WebLeaves, Terminate,
             Kick, CutOff, FlagsTyped
    <2> QED BY <2>1 DEF Promise!Next, Promise!vars, MapOf
  <1>10. CASE UNCHANGED MapOf
         BY <1>10 DEF Promise!vars, MapOf
  <1> QED BY <1>1, <1>2, <1>3, <1>4, <1>5, <1>6, <1>7, <1>8, <1>9, <1>10, HiddenSteps
          DEF Next, Work, Receiving, Resuming, Discarding, Fault

\* Every restore, whatever is interrupted, is a behaviour of SafeRestore.
THEOREM RestoreKeepsItsPromise == Spec => ImplementsSafeRestore
  <1>1. Init => Promise!Init
        BY DEF Init, Promise!Init, Phase, Content, Reader, None
  <1>2. IInv /\ [Next]_vars => [Promise!Next]_(Promise!vars)
        BY StepRefines
  <1> QED BY <1>1, <1>2, Invariant, PTL DEF Spec, ImplementsSafeRestore, Promise!Spec
=============================================================================
