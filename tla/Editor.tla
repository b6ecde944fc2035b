------------------------------- MODULE Editor -------------------------------
(***************************************************************************)
(* One browser tab of the guide editor                                      *)
(* (apps/web/components/studio/editor.tsx), the server's draft behind it,   *)
(* and the other people and tabs that work on the same guide.                *)
(*                                                                          *)
(* Every request is three steps: the tab sends it with what the screen      *)
(* shows at the click, the server decides on what the draft is by then, and *)
(* the answer arrives, in any order among the requests under way and        *)
(* whatever the author did in the meantime.  A request or its answer may    *)
(* also be lost.                                                            *)
(***************************************************************************)
EXTENDS GuideDraft

CONSTANT GivenUp    \* PostgreSQL may give a transaction up (deadlock, serialization)

ASSUME GivenUpAssumption == GivenUp \in BOOLEAN

VARIABLES
    opened,     \* a guide is on the screen
    screen,     \* what the tab shows of it; base is the version whose text the
                \* text on the screen was made from, and sources says whether its
                \* section and its revision came with one answer (neither is kept
                \* by the code)
    baseline,   \* the text that counts as saved
    conflict,   \* "Save conflict"
    license,    \* a licence is chosen in the publication dialog
    dialog,     \* the modal dialog that is open
    observed,   \* what the withdrawal dialog was opened on
    call,       \* the requests under way, one of each kind
    delivered,  \* the versions this screen got from the server (not kept by the code)
    typed       \* what the author wrote last, unless a reload took its place
                \* (not kept by the code)

tabVars == <<opened, screen, baseline, conflict, license, dialog, observed, call,
             delivered, typed>>
editorVars == <<draft, released, tabVars>>

Kinds == {"load", "save", "publish", "act", "reread", "refresh", "move", "item", "upload"}

OnScreen(row, base) ==
    [content |-> row.content, version |-> row.version, state |-> row.state,
     audience |-> row.audience, release |-> row.release, published |-> row.published,
     revision |-> row.revision, base |-> base, sources |-> "one"]

Blank == OnScreen(Absent, 0)

\* What a request says of the screen it was sent from.
TextShown == [Blank EXCEPT !.content = screen.content, !.version = screen.version,
                           !.audience = screen.audience, !.base = screen.base]
PublicationShown == [Blank EXCEPT !.state = screen.state, !.audience = screen.audience,
                                  !.release = screen.release, !.revision = screen.revision,
                                  !.sources = screen.sources]
AllShown == [PublicationShown EXCEPT !.content = screen.content, !.version = screen.version]

\* asked is what the request said, reply what the server answered, and overtaken
\* that a reload replaced the screen in between.
Idle == [stage |-> "idle", asked |-> Blank, outcome |-> "none", reply |-> Absent,
         overtaken |-> FALSE]
Sent(shown) == [Idle EXCEPT !.stage = "sent", !.asked = shown]

UnderWay(kind) == call[kind].stage # "idle"
AnsweredWith(kind, outcome) == call[kind].stage = "answered" /\ call[kind].outcome = outcome
Reply(kind) == call[kind].reply
Asked(kind) == call[kind].asked

\* The editor's own flag: one of save, publish, withdraw and reinstate at a time.
Saving == \E kind \in {"save", "publish", "act", "reread"} : UnderWay(kind)
Dirty == opened /\ screen.content # baseline

EditorInit ==
    /\ \E content \in Contents, audience \in Sections :
         draft = [Absent EXCEPT !.content = content, !.version = 1, !.state = "draft",
                                !.audience = audience]
    /\ released = <<>>
    /\ opened = FALSE
    /\ screen = Blank
    /\ baseline = NoContent
    /\ conflict = FALSE
    /\ license = FALSE
    /\ dialog = "none"
    /\ observed = Blank
    /\ call = [kind \in Kinds |-> IF kind = "load" THEN Sent(Blank) ELSE Idle]
    /\ delivered = {}
    /\ typed = NoContent

-----------------------------------------------------------------------------
(* The server *)

\* The part of an answer that the tab uses: the draft, or only where it stands.
Told(kind) ==
    IF kind \in {"load", "save"} THEN draft' ELSE [draft' EXCEPT !.content = NoContent]

Answer(kind, outcome) ==
    call' = [call EXCEPT ![kind].stage = "answered", ![kind].outcome = outcome,
                         ![kind].reply = IF outcome = "done" THEN Told(kind) ELSE Absent]

Asks(kind) == call[kind].stage = "sent"

\* GET .../guides/[guide], for the page, for a reload and after a refusal.
ServeRead(kind) ==
    /\ kind \in {"load", "reread", "refresh"}
    /\ Asks(kind)
    /\ UNCHANGED draftVars
    /\ Answer(kind, "done")

ServeSave ==
    /\ Asks("save")
    /\ \/ Save(Asked("save").version, Asked("save").content) /\ Answer("save", "done")
       \/ /\ draft.version # Asked("save").version
          /\ UNCHANGED draftVars
          /\ Answer("save", "conflict")

ServePublish ==
    LET asked == Asked("publish")
    IN  /\ Asks("publish")
        /\ \/ Publish(asked) /\ Answer("publish", "done")
           \/ /\ draft.revision # asked.revision
              /\ UNCHANGED draftVars
              /\ Answer("publish", "changed")
           \/ /\ draft.revision = asked.revision
              /\ draft.version # asked.version \/ draft.published = draft.version
              /\ UNCHANGED draftVars
              /\ Answer("publish", IF draft.state = "withdrawn" /\ draft.published = draft.version
                                   THEN "failed" ELSE "conflict")

ServeAct ==
    LET asked == Asked("act")
    IN  /\ Asks("act")
        /\ \/ /\ IF asked.state = "published" THEN Withdraw(asked) ELSE Reinstate(asked)
              /\ Answer("act", "done")
           \/ /\ ~(Seen(asked) /\ draft.state = asked.state)
              /\ UNCHANGED draftVars
              /\ Answer("act", "changed")

OtherSection(audience) == IF audience = "public" THEN "members" ELSE "public"

ServeMove ==
    LET asked == Asked("move")
        audience == OtherSection(asked.audience)
    IN  /\ Asks("move")
        /\ \/ Move(audience, asked.release) /\ Answer("move", "done")
           \/ /\ draft.state # "withdrawn" /\ draft.release = asked.release
              /\ draft.audience = audience
              /\ UNCHANGED draftVars
              /\ Answer("move", "done")

\* An item of the catalog, and a picture: neither is part of the guide yet.
ServeApart(kind) ==
    /\ kind \in {"item", "upload"}
    /\ Asks(kind)
    /\ UNCHANGED draftVars
    /\ Answer(kind, "done")

\* A validation, a missing permission, a blocker, or no service; and of a save or a
\* publication also the transaction PostgreSQL gave up, which the store answers as
\* it answers a changed guide.
Refuse(kind) ==
    /\ Asks(kind)
    /\ UNCHANGED draftVars
    /\ \/ Answer(kind, "failed")
       \/ GivenUp /\ kind \in {"save", "publish"} /\ Answer(kind, "conflict")

\* The request, or the answer to a request that took effect, does not arrive.
Lose(kind) ==
    /\ UnderWay(kind)
    /\ ~AnsweredWith(kind, "failed")
    /\ call' = [call EXCEPT ![kind].stage = "answered", ![kind].outcome = "failed",
                            ![kind].reply = Absent]
    /\ UNCHANGED draftVars

Serve ==
    /\ \/ \E kind \in Kinds : ServeRead(kind) \/ ServeApart(kind) \/ Refuse(kind) \/ Lose(kind)
       \/ ServeSave
       \/ ServePublish
       \/ ServeAct
       \/ ServeMove
    /\ UNCHANGED <<opened, screen, baseline, conflict, license, dialog, observed, delivered, typed>>

\* Somebody else, or the author in another tab.
Colleague ==
    /\ \/ \E content \in Contents : Save(draft.version, content)
       \/ Publish(draft)
       \/ Withdraw(draft)
       \/ Reinstate(draft)
       \/ \E audience \in Sections : Move(audience, draft.release)
    /\ UNCHANGED tabVars

-----------------------------------------------------------------------------
(* What an answer does to the screen *)

\* Mutant: the version of the state that was asked for comes along.
MergePublicationStateAndVersion(latest, current) ==
    [latest EXCEPT !.audience = current.audience, !.state = current.state,
                   !.release = current.release, !.published = current.published,
                   !.revision = current.revision, !.version = current.version,
                   !.sources = "one"]

\* mergePublicationState: the draft stays, what readers get is the server's.
MergePublicationState(latest, current) ==
    [latest EXCEPT !.audience = current.audience, !.state = current.state,
                   !.release = current.release, !.published = current.published,
                   !.revision = current.revision, !.sources = "one"]

ApplyPublicationState(current) ==
    /\ license' = FALSE
    /\ screen' = IF opened THEN MergePublicationState(screen, current) ELSE screen

Done(kind) == call' = [call EXCEPT ![kind] = Idle]

\* What problem() does with a failed save or publication: a publication that
\* changed closes the dialog and asks for the state without waiting for it (when
\* an earlier such question is still open, one of the two is lost), any other 409
\* is a conflict, and the rest is a message.
Problem(kind) ==
    /\ conflict' = (conflict \/ AnsweredWith(kind, "conflict"))
    /\ dialog' = IF AnsweredWith(kind, "changed") THEN "none" ELSE dialog
    /\ call' = [call EXCEPT ![kind] = Idle,
                            !["refresh"] = IF AnsweredWith(kind, "changed") /\ ~UnderWay("refresh")
                                           THEN Sent(Blank) ELSE @]
    /\ UNCHANGED <<opened, screen, baseline, license, observed, delivered, typed>>

Failed(kind) == call[kind].stage = "answered" /\ call[kind].outcome # "done"

-----------------------------------------------------------------------------
(* Opening, and reloading after a conflict *)

ReplaceScreen(row) ==
    /\ opened' = TRUE
    /\ screen' = OnScreen(row, row.version)
    /\ baseline' = row.content
    /\ delivered' = delivered \cup {row.version}
    /\ typed' = NoContent
    /\ call' = [kind \in Kinds |->
         IF kind = "load" THEN Idle
         ELSE IF UnderWay(kind) THEN [call[kind] EXCEPT !.overtaken = TRUE] ELSE Idle]

Loaded ==
    /\ AnsweredWith("load", "done")
    /\ ReplaceScreen(Reply("load"))
    /\ UNCHANGED <<conflict, license, dialog, observed>>

LoadFails ==
    /\ Failed("load")
    /\ Done("load")
    /\ UNCHANGED <<opened, screen, baseline, conflict, license, dialog, observed, delivered, typed>>

TryAgain ==
    /\ ~opened
    /\ ~UnderWay("load")
    /\ call' = [call EXCEPT !["load"] = Sent(Blank)]
    /\ UNCHANGED <<opened, screen, baseline, conflict, license, dialog, observed, delivered, typed>>

\* "Reload saved draft", confirmed.  An answer to an earlier load is no longer
\* waited for; the editor stays as it is until the new one arrives.
Reload ==
    /\ conflict
    /\ dialog = "none"
    /\ conflict' = FALSE
    /\ call' = [call EXCEPT !["load"] = Sent(Blank)]
    /\ UNCHANGED <<opened, screen, baseline, license, dialog, observed, delivered, typed>>

-----------------------------------------------------------------------------
(* Writing *)

Write(content) ==
    /\ screen' = [screen EXCEPT !.content = content]
    /\ typed' = content

Type(content) ==
    /\ opened
    /\ dialog = "none"
    /\ content # screen.content
    /\ Write(content)
    /\ UNCHANGED <<opened, baseline, conflict, license, dialog, observed, call, delivered>>

\* A cover or a new picture goes to the server first and into the draft when the
\* answer arrives, whatever is open by then.
Upload ==
    /\ opened
    /\ dialog = "none"
    /\ ~UnderWay("upload")
    /\ call' = [call EXCEPT !["upload"] = Sent(Blank)]
    /\ UNCHANGED <<opened, screen, baseline, conflict, license, dialog, observed, delivered, typed>>

Uploaded(content) ==
    /\ AnsweredWith("upload", "done")
    /\ content # screen.content
    /\ Write(content)
    /\ Done("upload")
    /\ UNCHANGED <<opened, baseline, conflict, license, dialog, observed, delivered>>

UploadFails ==
    /\ Failed("upload")
    /\ Done("upload")
    /\ UNCHANGED <<opened, screen, baseline, conflict, license, dialog, observed, delivered, typed>>

\* "Create catalog item" in the picker of the guide's requirements.
OpenItemForm ==
    /\ opened
    /\ dialog = "none"
    /\ dialog' = "item"
    /\ UNCHANGED <<opened, screen, baseline, conflict, license, observed, call, delivered, typed>>

CreateItem ==
    /\ dialog = "item"
    /\ ~UnderWay("item")
    /\ call' = [call EXCEPT !["item"] = Sent(TextShown)]
    /\ UNCHANGED <<opened, screen, baseline, conflict, license, dialog, observed, delivered, typed>>

\* The form is left: an answer that still comes selects nothing (useFormRequest).
LeaveItemForm ==
    /\ dialog = "item"
    /\ dialog' = "none"
    /\ Done("item")
    /\ UNCHANGED <<opened, screen, baseline, conflict, license, observed, delivered, typed>>

\* The item is added to the document the form was sent from, and that document
\* becomes the draft.
ItemCreated(content) ==
    /\ AnsweredWith("item", "done")
    /\ content # Asked("item").content
    /\ screen' = [screen EXCEPT !.content = content,
                                !.base = IF call["item"].overtaken THEN Asked("item").base ELSE @]
    /\ typed' = content
    /\ dialog' = "none"
    /\ Done("item")
    /\ UNCHANGED <<opened, baseline, conflict, license, observed, delivered>>

ItemFails ==
    /\ Failed("item")
    /\ Done("item")
    /\ UNCHANGED <<opened, screen, baseline, conflict, license, dialog, observed, delivered, typed>>

-----------------------------------------------------------------------------
(* Saving *)

SaveDraft ==
    /\ dialog = "none"
    /\ Dirty
    /\ ~conflict
    /\ ~Saving
    /\ call' = [call EXCEPT !["save"] = Sent(TextShown)]
    /\ UNCHANGED <<opened, screen, baseline, conflict, license, dialog, observed, delivered, typed>>

\* Mutant: the stored draft takes the place of what was typed since.
StoredOnScreen(stored, sent) ==
    OnScreen(stored, stored.version)

\* The stored draft, or what was typed since the save was sent, now on the new version.
AfterSave(stored, sent) ==
    IF screen.content = sent.content THEN OnScreen(stored, stored.version)
    ELSE [MergePublicationState(screen, stored) EXCEPT
            !.version = stored.version,
            !.base = IF call["save"].overtaken THEN @ ELSE stored.version]

Saved ==
    LET stored == Reply("save")
        sent == Asked("save")
    IN  /\ AnsweredWith("save", "done")
        /\ license' = (license /\ stored.audience = sent.audience)
        /\ baseline' = stored.content
        /\ screen' = AfterSave(stored, sent)
        /\ conflict' = FALSE
        /\ delivered' = delivered \cup {stored.version}
        /\ Done("save")
        /\ UNCHANGED <<opened, dialog, observed, typed>>

SaveFails == Failed("save") /\ Problem("save")

-----------------------------------------------------------------------------
(* Publishing *)

OpenPublication ==
    /\ opened
    /\ dialog = "none"
    /\ ~Dirty /\ ~Saving /\ ~conflict
    /\ screen.published # screen.version
    /\ dialog' = "publish"
    /\ UNCHANGED <<opened, screen, baseline, conflict, license, observed, call, delivered, typed>>

ChooseLicense ==
    /\ dialog = "publish"
    /\ screen.audience = "public"
    /\ ~license
    /\ license' = TRUE
    /\ UNCHANGED <<opened, screen, baseline, conflict, dialog, observed, call, delivered, typed>>

ClosePublication ==
    /\ dialog = "publish"
    /\ ~UnderWay("publish")
    /\ dialog' = "none"
    /\ UNCHANGED <<opened, screen, baseline, conflict, license, observed, call, delivered, typed>>

ConfirmPublication ==
    /\ dialog = "publish"
    /\ ~Dirty /\ ~Saving /\ ~conflict
    /\ screen.audience = "public" => license
    /\ call' = [call EXCEPT !["publish"] = Sent(AllShown)]
    /\ UNCHANGED <<opened, screen, baseline, conflict, license, dialog, observed, delivered, typed>>

Published ==
    LET result == Reply("publish")
    IN  /\ AnsweredWith("publish", "done")
        /\ screen' = [screen EXCEPT !.state = "published", !.revision = result.revision,
                                    !.release = result.release,
                                    !.published = Asked("publish").version,
                                    !.sources = "two"]
        /\ dialog' = "none"
        /\ Done("publish")
        /\ UNCHANGED <<opened, baseline, conflict, license, observed, delivered, typed>>

PublishFails == Failed("publish") /\ Problem("publish")

\* The answer to the question problem() asks.
Refreshed ==
    /\ AnsweredWith("refresh", "done")
    /\ ApplyPublicationState(Reply("refresh"))
    /\ Done("refresh")
    /\ UNCHANGED <<opened, baseline, conflict, dialog, observed, delivered, typed>>

RefreshFails ==
    /\ Failed("refresh")
    /\ Done("refresh")
    /\ UNCHANGED <<opened, screen, baseline, conflict, license, dialog, observed, delivered, typed>>

-----------------------------------------------------------------------------
(* Withdrawing and reinstating (publication-controls.tsx) *)

OpenWithdrawal ==
    /\ opened
    /\ dialog = "none"
    /\ ~Saving
    /\ screen.release # 0
    /\ dialog' = "act"
    /\ observed' = PublicationShown
    /\ UNCHANGED <<opened, screen, baseline, conflict, license, call, delivered, typed>>

CloseWithdrawal ==
    /\ dialog = "act"
    /\ ~Saving
    /\ dialog' = "none"
    /\ observed' = Blank
    /\ UNCHANGED <<opened, screen, baseline, conflict, license, call, delivered, typed>>

ConfirmWithdrawal ==
    /\ dialog = "act"
    /\ ~Saving
    /\ call' = [call EXCEPT !["act"] = Sent(observed)]
    /\ UNCHANGED <<opened, screen, baseline, conflict, license, dialog, observed, delivered, typed>>

\* The state the server answers with, at once or when it is asked after a refusal.
Acted(kind) ==
    /\ kind \in {"act", "reread"}
    /\ AnsweredWith(kind, "done")
    /\ ApplyPublicationState(Reply(kind))
    /\ dialog' = "none"
    /\ observed' = Blank
    /\ Done(kind)
    /\ UNCHANGED <<opened, baseline, conflict, delivered, typed>>

ActChanged ==
    /\ AnsweredWith("act", "changed")
    /\ call' = [call EXCEPT !["act"] = Idle, !["reread"] = Sent(Blank)]
    /\ UNCHANGED <<opened, screen, baseline, conflict, license, dialog, observed, delivered, typed>>

ActFails(kind) ==
    /\ kind \in {"act", "reread"}
    /\ Failed(kind)
    /\ ~AnsweredWith(kind, "changed")
    /\ Done(kind)
    /\ UNCHANGED <<opened, screen, baseline, conflict, license, dialog, observed, delivered, typed>>

-----------------------------------------------------------------------------
(* Moving between the sections (GuideSectionPicker, with a flag of its own) *)

MoveSection ==
    /\ opened
    /\ dialog = "none"
    /\ screen.state # "withdrawn"
    /\ ~UnderWay("move")
    /\ call' = [call EXCEPT !["move"] = Sent(PublicationShown)]
    /\ UNCHANGED <<opened, screen, baseline, conflict, license, dialog, observed, delivered, typed>>

\* Mutant: the new revision is taken without the section it belongs to.
MovedRevision(moved) ==
    [screen EXCEPT !.revision = moved.revision, !.sources = "one"]

MovedScreen(moved) ==
    [screen EXCEPT !.audience = moved.audience, !.revision = moved.revision, !.sources = "one"]

Moved ==
    /\ AnsweredWith("move", "done")
    /\ screen' = MovedScreen(Reply("move"))
    /\ Done("move")
    /\ UNCHANGED <<opened, baseline, conflict, license, dialog, observed, delivered, typed>>

MoveFails ==
    /\ Failed("move")
    /\ Done("move")
    /\ UNCHANGED <<opened, screen, baseline, conflict, license, dialog, observed, delivered, typed>>

-----------------------------------------------------------------------------
OpeningStep == Loaded \/ LoadFails \/ TryAgain \/ Reload
WritingStep ==
    \/ \E content \in Contents : Type(content) \/ Uploaded(content) \/ ItemCreated(content)
    \/ Upload \/ UploadFails
    \/ OpenItemForm \/ CreateItem \/ LeaveItemForm \/ ItemFails
SavingStep == SaveDraft \/ Saved \/ SaveFails
PublishingStep ==
    \/ OpenPublication \/ ChooseLicense \/ ClosePublication \/ ConfirmPublication
    \/ Published \/ PublishFails \/ Refreshed \/ RefreshFails
WithdrawingStep ==
    \/ OpenWithdrawal \/ CloseWithdrawal \/ ConfirmWithdrawal \/ ActChanged
    \/ \E kind \in Kinds : Acted(kind) \/ ActFails(kind)
MovingStep == MoveSection \/ Moved \/ MoveFails

Tab ==
    /\ OpeningStep \/ WritingStep \/ SavingStep \/ PublishingStep \/ WithdrawingStep \/ MovingStep
    /\ UNCHANGED draftVars

EditorNext == Tab \/ Serve \/ Colleague

EditorSpec == EditorInit /\ [][EditorNext]_editorVars

-----------------------------------------------------------------------------
(* Properties *)

\* What the author wrote stays on the screen through every answer - of a save that
\* was sent before it, of a publication, of a refusal, of a move - until the reload
\* the author confirmed takes its place.
WritingStays == typed # NoContent => screen.content = typed

\* A save takes the place of a version this screen got from the server, never of one
\* it has not seen: not even after the answers of other requests told it the state
\* of a guide that others have saved since.
SavesReplaceWhatWasDelivered ==
    AnsweredWith("save", "done") => Asked("save").version \in delivered

\* What is published is what the author confirmed: the release says what the screen
\* said at the click, to the readers it showed. The readers may be others only when
\* the screen had its revision from a publication that was overtaken by a reload,
\* and its section from another, late answer.
ReleasesAreAsConfirmed ==
    AnsweredWith("publish", "done") =>
        /\ released[Reply("publish").release] = Asked("publish").content
        /\ Asked("publish").sources = "one" => Reply("publish").audience = Asked("publish").audience

\* A save takes the place only of the version its own text was made from, as the
\* manual test of two tabs expects ("It cannot silently overwrite the winner").
SavesBuildOnWhatTheyReplace ==
    AnsweredWith("save", "done") => Asked("save").base = Asked("save").version
=============================================================================
