------------------------------ MODULE Pictures ------------------------------
(***************************************************************************)
(* Uploaded pictures: the file (lib/media.ts) is written before its row     *)
(* (store.ts createAsset) is committed, by one request of the web service   *)
(* (the assets route), which may die or lose its connection to the          *)
(* database at any step.  Guides may then show the picture.                *)
(***************************************************************************)
CONSTANT Pictures       \* identifiers, each drawn at random for one upload

VARIABLES
    display,    \* the file of each picture: "none", "partial" or "whole"
    asset,      \* app.asset: the pictures with a row
    reference,  \* app.asset_reference: those a saved guide shows
    upload,     \* the request that uploads it
    inserting,  \* its transaction at the database
    unanswered  \* history: pictures whose COMMIT's answer was lost

pictureVars == <<display, asset, reference, upload, inserting, unanswered>>

InitPictures ==
    /\ display = [p \in Pictures |-> "none"]
    /\ upload = [p \in Pictures |-> "none"]
    /\ inserting = [p \in Pictures |-> "none"]
    /\ asset = {} /\ reference = {} /\ unanswered = {}

UploadGoesTo(p, from, to) == upload[p] \in from /\ upload' = [upload EXCEPT ![p] = to]
Write(p, content) == display' = [display EXCEPT ![p] = content]
Transaction(p, to) == inserting' = [inserting EXCEPT ![p] = to]

\* The caller manages the workspace, and the image decodes: refusals before this
\* write nothing.
StartUpload(p) ==
    /\ UploadGoesTo(p, {"none"}, "writing")
    /\ Write(p, "partial")
    /\ UNCHANGED <<asset, reference, inserting, unanswered>>

StoreUpload(p) ==
    /\ UploadGoesTo(p, {"writing"}, "stored")
    /\ Write(p, "whole")
    /\ UNCHANGED <<asset, reference, inserting, unanswered>>

\* The file cannot be written to its end. Nothing removes what was.
WriteFails(p) ==
    /\ UploadGoesTo(p, {"writing"}, "refused")
    /\ UNCHANGED <<display, asset, reference, inserting, unanswered>>

CreateAsset(p) ==
    /\ UploadGoesTo(p, {"stored"}, "committing")
    /\ Transaction(p, "sent")
    /\ UNCHANGED <<display, asset, reference, unanswered>>

\* Mutant: the row does not wait for the file.
InsertEarly(p) ==
    /\ upload[p] \in {"writing", "committing"} /\ p \notin asset
    /\ Transaction(p, "committed")
    /\ asset' = asset \cup {p}
    /\ UNCHANGED <<display, reference, upload, unanswered>>

\* The database commits, whether or not the request still waits.
InsertCommits(p) ==
    /\ inserting[p] = "sent"
    /\ Transaction(p, "committed")
    /\ asset' = asset \cup {p}
    /\ UNCHANGED <<display, reference, upload, unanswered>>

UploadDone(p) ==
    /\ inserting[p] = "committed"
    /\ UploadGoesTo(p, {"committing"}, "done")
    /\ UNCHANGED <<display, asset, reference, inserting, unanswered>>

\* createAsset rejects: nothing was inserted ...
InsertRefused(p) ==
    /\ inserting[p] # "committed"
    /\ UploadGoesTo(p, {"stored", "committing"}, "discarding")
    /\ Transaction(p, "rolled back")
    /\ UNCHANGED <<display, asset, reference, unanswered>>

\* ... or the answer to COMMIT is lost, and something may have been.
InsertLost(p) ==
    /\ UploadGoesTo(p, {"committing"}, "discarding")
    /\ unanswered' = unanswered \cup {p}
    /\ UNCHANGED <<display, asset, reference, inserting>>

InsertRollsBack(p) ==
    /\ inserting[p] = "sent" /\ upload[p] # "committing"
    /\ Transaction(p, "rolled back")
    /\ UNCHANGED <<display, asset, reference, upload, unanswered>>

DiscardStoredAsset(p) ==
    /\ UploadGoesTo(p, {"discarding"}, "refused")
    /\ Write(p, "none")
    /\ UNCHANGED <<asset, reference, inserting, unanswered>>

\* The web service is stopped: its requests end where they are.
WebDies ==
    /\ \E p \in Pictures : upload[p] \in {"writing", "stored", "committing", "discarding"}
    /\ upload' = [p \in Pictures |->
                     IF upload[p] \in {"none", "done", "refused"} THEN upload[p] ELSE "abandoned"]
    /\ UNCHANGED <<display, asset, reference, inserting, unanswered>>

\* A save (validateMedia, projectMedia) names pictures the workspace has a row
\* for, and gives up those it does not name any more.
SaveWith(ps) ==
    /\ ps # reference
    /\ reference' = ps
    /\ UNCHANGED <<display, asset, upload, inserting, unanswered>>

PictureStep(p) ==
    \/ StoreUpload(p) \/ CreateAsset(p) \/ InsertCommits(p) \/ UploadDone(p)
    \/ InsertRollsBack(p) \/ DiscardStoredAsset(p)
PictureFault(p) == WriteFails(p) \/ InsertRefused(p) \/ InsertLost(p)
NextPictures ==
    \/ \E p \in Pictures :
          PictureStep(p) \/ PictureFault(p) \/ StartUpload(p)
    \/ \E ps \in SUBSET asset : SaveWith(ps)
    \/ WebDies

\* Whatever dies on the way, a row stands for a whole file, and so does all that
\* guides refer to, but where the answer to the row's COMMIT was lost: the route
\* then removes the file, and the row may be there. (assets/route.ts:48-55)
PicturesBehindRows ==
    asset \cup reference \subseteq {p \in Pictures : display[p] = "whole"} \cup unanswered
=============================================================================
