------------------------------ MODULE Authoring ------------------------------
(***************************************************************************)
(* Editing one guide in the tab: the steps with their instructions,         *)
(* prerequisites, pictures and requirements                                 *)
(* (apps/web/components/studio/editor.tsx, rich-text-editor.tsx,            *)
(* step-requirements.tsx, guide-requirements.tsx).                           *)
(*                                                                          *)
(* The instructions of the step on the screen are held by a visual editor   *)
(* of its own, which can hold text that the guide's format cannot: such     *)
(* text is kept beside the document, by step, and must hold back the save.  *)
(* What Editor calls the content of the screen is the document of this      *)
(* module; an author's click is one step, since React runs one handler at   *)
(* a time.                                                                  *)
(***************************************************************************)
EXTENDS Naturals, SequencesExt

CONSTANTS
    StepIds,        \* crypto.randomUUID(), as many as a run needs
    Texts, BlankText,  \* instructions the format can hold, and those of a new step
    Items,          \* catalog items
    Photos,         \* pictures of the workspace
    MaxSteps,       \* 100
    MaxPhotos,      \* 10
    SavedDocuments  \* what the server may answer a load with

Broken == "broken"  \* instructions over a content limit
Untyped == "untyped"
Closed == "closed"

ASSUME TextsAssumption == BlankText \in Texts /\ {Broken, Untyped, Closed} \cap Texts = {}
ASSUME LimitsAssumption == MaxSteps \in Nat \ {0} /\ MaxPhotos \in Nat

\* guideDocumentSchema: what a step says, and that a guide has steps, at most as many
\* as fit, each with an id of its own.
Pages == [text : Texts, earlier : SUBSET StepIds, uses : [Items -> {"none", "consume", "reuse"}],
          photos : SUBSET Photos]

WellFormed(document) ==
    /\ document.outline \in Seq(StepIds)
    /\ Len(document.outline) \in 1..MaxSteps
    /\ IsInjective(document.outline)
    /\ document.page \in [StepIds -> Pages]
    /\ document.prepared \in [Items -> {"none", "keep", "use"}]

ASSUME DocumentsAssumption == \A document \in SavedDocuments : WellFormed(document)

VARIABLES
    outline,    \* document.steps: the order
    page,       \* and what each says: text, prerequisites, usages, pictures
    prepared,   \* document.requirements: what the guide does with an item
    selected,   \* the step on the screen
    details,    \* "Guide details" is shown in its place
    preview,    \* or the reader's view of it
    kept,       \* editorDrafts: what the visual editor last held for a step
    errors,     \* editorErrors: the steps whose text cannot be saved
    canvas,     \* what the visual editor shows, when it is on the screen
    lastBody,   \* and the document text it last agreed with
    picture     \* the picture that is being added: none, sending, or its asset

documentVars == <<outline, page, prepared>>
viewVars == <<selected, details, preview>>
textVars == <<kept, errors, canvas, lastBody>>
authoringVars == <<documentVars, viewVars, textVars, picture>>

Document == [outline |-> outline, page |-> page, prepared |-> prepared]

NewStep == [text |-> BlankText, earlier |-> {}, uses |-> [item \in Items |-> "none"], photos |-> {}]

InOutline(id) == Contains(outline, id)
PlaceOf(id, order) == CHOOSE place \in DOMAIN order : order[place] = id
Before(id) == {outline[place] : place \in 1..(PlaceOf(id, outline) - 1)}
OnCanvas == ~details /\ ~preview
InvalidContent == \E id \in ToSet(outline) : id \in errors

ShowDocument(document) ==
    /\ outline' = document.outline
    /\ page' = document.page
    /\ prepared' = document.prepared

AuthoringInit ==
    \E document \in SavedDocuments :
        /\ outline = document.outline
        /\ page = document.page
        /\ prepared = document.prepared
        /\ selected = document.outline[1]
        /\ details = FALSE
        /\ preview = FALSE
        /\ kept = [id \in StepIds |-> Untyped]
        /\ errors = {}
        /\ canvas = document.page[document.outline[1]].text
        /\ lastBody = canvas
        /\ picture = "none"

-----------------------------------------------------------------------------
(* What is on the screen *)

\* Mutant: a step's editor opens on the document, whatever was typed there.
OpensOnDocument(id) == page'[id].text

\* What the editor of a step opens on: what was typed there, or the document.
OpensOn(id) == IF kept'[id] # Untyped THEN kept'[id] ELSE page'[id].text

\* Opening, the editor reports whether what it shows can be saved.
OpenReports(id, marked) == IF canvas' = Broken THEN marked \cup {id} ELSE marked \ {id}

\* The editor is keyed by the step: another step, or a return from the preview or
\* the details, is a new editor; otherwise the one on the screen stays as it is.
\* Leaving the step view drops a picture that is not added yet, changing step does not.
View(id, inDetails, inPreview, marked) ==
    /\ selected' = id
    /\ details' = inDetails
    /\ preview' = inPreview
    /\ IF inDetails \/ inPreview
       THEN /\ canvas' = Closed
            /\ UNCHANGED lastBody
            /\ errors' = marked
            /\ picture' = "none"
       ELSE /\ IF OnCanvas /\ selected = id THEN UNCHANGED <<canvas, lastBody>> /\ errors' = marked
               ELSE /\ canvas' = OpensOn(id)
                    /\ lastBody' = page'[id].text
                    /\ errors' = OpenReports(id, marked)
            /\ UNCHANGED picture

SelectStep(id) ==
    /\ InOutline(id)
    /\ UNCHANGED <<documentVars, kept>>
    /\ View(id, FALSE, preview, errors)

ShowDetails ==
    /\ ~details
    /\ UNCHANGED <<documentVars, kept>>
    /\ View(selected, TRUE, preview, errors)

TogglePreview ==
    /\ preview \/ ~InvalidContent
    /\ UNCHANGED <<documentVars, kept>>
    /\ View(selected, details, ~preview, errors)

-----------------------------------------------------------------------------
(* The instructions of the step on the screen *)

\* Every change of the visual editor is kept by step; it becomes the step's text
\* when the format can hold it, and marks the step when it cannot.
TypeInstructions(text) ==
    /\ OnCanvas
    /\ text # canvas
    /\ canvas' = text
    /\ kept' = [kept EXCEPT ![selected] = text]
    /\ IF text = Broken
       THEN /\ errors' = errors \cup {selected}
            /\ UNCHANGED <<page, lastBody>>
       ELSE /\ errors' = errors \ {selected}
            /\ page' = [page EXCEPT ![selected].text = text]
            /\ lastBody' = text
    /\ UNCHANGED <<outline, prepared, viewVars, picture>>

-----------------------------------------------------------------------------
(* Steps *)

\* An id nothing has ever referred to.
Fresh(id) ==
    /\ ~InOutline(id)
    /\ kept[id] = Untyped /\ id \notin errors
    /\ \A other \in ToSet(outline) : id \notin page[other].earlier

AddStep(id) ==
    /\ Len(outline) < MaxSteps
    /\ Fresh(id)
    /\ outline' = Append(outline, id)
    /\ page' = [page EXCEPT ![id] = NewStep]
    /\ UNCHANGED <<prepared, kept>>
    /\ View(id, FALSE, preview, errors)

MoveStep(delta) ==
    LET place == PlaceOf(selected, outline)
        target == place + delta
    IN  /\ OnCanvas
        /\ target \in DOMAIN outline
        /\ outline' = [outline EXCEPT ![place] = outline[target], ![target] = selected]
        /\ UNCHANGED <<page, prepared, viewVars, textVars, picture>>

DuplicateStep(id) ==
    /\ OnCanvas
    /\ Len(outline) < MaxSteps
    /\ Fresh(id)
    /\ outline' = InsertAt(outline, PlaceOf(selected, outline) + 1, id)
    /\ page' = [page EXCEPT ![id] = page[selected]]
    /\ kept' = [kept EXCEPT ![id] = kept[selected]]
    /\ UNCHANGED prepared
    /\ View(id, FALSE, FALSE, IF selected \in errors THEN errors \cup {id} ELSE errors)

\* Mutant: the steps that named the removed step as a prerequisite keep its name.
ForgetNothing(id) == [page EXCEPT ![id] = NewStep]

\* The steps that stay no longer require the one removed.
ForgetStep(id) ==
    [other \in StepIds |-> IF other = id THEN NewStep
                           ELSE [page[other] EXCEPT !.earlier = @ \ {id}]]

RemoveStep ==
    LET place == PlaceOf(selected, outline)
    IN  /\ OnCanvas
        /\ Len(outline) > 1
        /\ outline' = RemoveAt(outline, place)
        /\ page' = ForgetStep(selected)
        /\ kept' = [kept EXCEPT ![selected] = Untyped]
        /\ UNCHANGED prepared
        /\ View(outline[IF place = 1 THEN 2 ELSE place - 1], FALSE, FALSE, errors \ {selected})

-----------------------------------------------------------------------------
(* Prerequisites and requirements *)

Edits(newPage, newPrepared) ==
    /\ page' = newPage
    /\ prepared' = newPrepared
    /\ UNCHANGED <<outline, viewVars, textVars, picture>>

RequireStep(id) ==
    /\ OnCanvas
    /\ id \in Before(selected) \ page[selected].earlier
    /\ Edits([page EXCEPT ![selected].earlier = @ \cup {id}], prepared)

\* A prerequisite is unticked, or removed because it is not an earlier step any more.
DropPrerequisite(id) ==
    /\ OnCanvas
    /\ id \in page[selected].earlier
    /\ Edits([page EXCEPT ![selected].earlier = @ \ {id}], prepared)

\* What an item is kept for is reused, what it is used up for starts as consumed.
Mode(role) == IF role = "keep" THEN "reuse" ELSE "consume"

Used(id, item) == page[id].uses[item] # "none"
UsedIn(item) == {id \in ToSet(outline) : Used(id, item)}

\* In the guide's details: an item of the catalog for the preparation list; one that
\* is there already is only shown.
PrepareItem(item, role) ==
    /\ details
    /\ prepared[item] = "none"
    /\ Edits(page, [prepared EXCEPT ![item] = role])

\* Mutant: the steps go on using what the preparation list no longer has.
StillUsing(item) == page

WithoutUses(item) == [id \in StepIds |-> [page[id] EXCEPT !.uses[item] = "none"]]

RemoveItem(item) ==
    /\ details
    /\ prepared[item] # "none"
    /\ Edits(WithoutUses(item), [prepared EXCEPT ![item] = "none"])

\* Mutant: the steps that use the item are left as they are.
SameUses(item, role) == page

\* A thing you keep is reused, in every step that has it.
UsesOf(item, role) ==
    [id \in StepIds |->
        IF role = "keep" /\ Used(id, item) THEN [page[id] EXCEPT !.uses[item] = "reuse"]
        ELSE page[id]]

ChangeRole(item, role) ==
    /\ details
    /\ prepared[item] \notin {"none", role}
    /\ Edits(UsesOf(item, role), [prepared EXCEPT ![item] = role])

\* In a step: from the preparation list, or from the catalog, which prepares the
\* item as used up unless it is on the list already.
AssignItem(item) ==
    LET role == IF prepared[item] = "none" THEN "use" ELSE prepared[item]
    IN  /\ OnCanvas
        /\ ~Used(selected, item)
        /\ Edits([page EXCEPT ![selected].uses[item] = Mode(role)],
                 [prepared EXCEPT ![item] = role])

ChangeMode(item, mode) ==
    /\ OnCanvas
    /\ prepared[item] = "use"
    /\ page[selected].uses[item] \notin {"none", mode}
    /\ Edits([page EXCEPT ![selected].uses[item] = mode], prepared)

\* The last step that uses an item may remove it from the preparation list as well.
UnassignItem(item) ==
    /\ OnCanvas
    /\ Used(selected, item)
    /\ \/ Edits([page EXCEPT ![selected].uses[item] = "none"], prepared)
       \/ /\ UsedIn(item) = {selected}
          /\ Edits(WithoutUses(item), [prepared EXCEPT ![item] = "none"])

\* getRequirementIssues: what must be resolved before the guide can be published.
Issues(document) ==
    LET order == document.outline
        Steps == ToSet(order)
        Says(id) == document.page[id]
    IN  [deleted  : {id \in Steps : \E other \in Says(id).earlier : other \notin Steps}]
        \cup [later : {id \in Steps : \E other \in Says(id).earlier \cap Steps :
                           PlaceOf(other, order) >= PlaceOf(id, order)}]
        \cup [removed : {id \in Steps : \E item \in Items :
                           Says(id).uses[item] # "none" /\ document.prepared[item] = "none"}]
        \cup [usedUp : {id \in Steps : \E item \in Items :
                           Says(id).uses[item] = "consume" /\ document.prepared[item] = "keep"}]

\* "Before publishing": an issue leads to its step.
FollowIssue(id) ==
    /\ \E issue \in Issues(Document) : \E kind \in DOMAIN issue : issue[kind] = id
    /\ UNCHANGED <<documentVars, kept>>
    /\ View(id, FALSE, FALSE, errors)

-----------------------------------------------------------------------------
(* Pictures *)

\* Sent first and kept here until it has a description; one of the workspace's
\* pictures is picked at once.
SendPicture ==
    /\ OnCanvas
    /\ picture = "none"
    /\ Cardinality(page[selected].photos) < MaxPhotos
    /\ \/ picture' = "sending"
       \/ picture' \in Photos \ page[selected].photos
    /\ UNCHANGED <<documentVars, viewVars, textVars>>

\* The answer: the picture, or that it was stopped, refused or lost.
PictureSent ==
    /\ picture = "sending"
    /\ picture' \in Photos \cup {"none"}
    /\ UNCHANGED <<documentVars, viewVars, textVars>>

DiscardPicture ==
    /\ picture \in Photos
    /\ picture' = "none"
    /\ UNCHANGED <<documentVars, viewVars, textVars>>

\* Described, it goes into the step that is on the screen by then.
AddPicture ==
    /\ picture \in Photos
    /\ page' = [page EXCEPT ![selected].photos = @ \cup {picture}]
    /\ picture' = "none"
    /\ UNCHANGED <<outline, prepared, viewVars, textVars>>

RemovePicture(photo) ==
    /\ OnCanvas
    /\ photo \in page[selected].photos
    /\ Edits([page EXCEPT ![selected].photos = @ \ {photo}], prepared)

-----------------------------------------------------------------------------
(* A load *)

\* Mutant: the marks of the text that was on the screen stay.
MarksStay(marked) == marked

MarksAfterLoad(marked) == {}

\* The saved document takes the place of the one on the screen, with its first step
\* selected.  An editor that stays on the screen changes its text only when the
\* document's differs from the one it last agreed with.
LoadDocument(document) ==
    LET first == document.outline[1]
        text == document.page[first].text
        stays == OnCanvas /\ selected = first
    IN  /\ ShowDocument(document)
        /\ kept' = [id \in StepIds |-> Untyped]
        /\ errors' = MarksAfterLoad(errors)
        /\ selected' = first
        /\ UNCHANGED <<details, preview, picture>>
        /\ IF OnCanvas
           THEN /\ canvas' = IF stays /\ text = lastBody THEN canvas ELSE text
                /\ lastBody' = text
           ELSE UNCHANGED <<canvas, lastBody>>

-----------------------------------------------------------------------------
AuthoringNext ==
    \/ \E id \in StepIds :
         SelectStep(id) \/ AddStep(id) \/ DuplicateStep(id) \/ RequireStep(id)
         \/ DropPrerequisite(id) \/ FollowIssue(id)
    \/ ShowDetails \/ TogglePreview
    \/ \E text \in Texts \cup {Broken} : TypeInstructions(text)
    \/ MoveStep(1) \/ (PlaceOf(selected, outline) > 1 /\ MoveStep(-1))
    \/ RemoveStep
    \/ \E item \in Items :
         \/ RemoveItem(item) \/ AssignItem(item) \/ UnassignItem(item)
         \/ \E role \in {"keep", "use"} : PrepareItem(item, role) \/ ChangeRole(item, role)
         \/ \E mode \in {"consume", "reuse"} : ChangeMode(item, mode)
    \/ SendPicture \/ PictureSent \/ DiscardPicture \/ AddPicture
    \/ \E photo \in Photos : RemovePicture(photo)
    \/ \E document \in SavedDocuments : LoadDocument(document)

AuthoringSpec == AuthoringInit /\ [][AuthoringNext]_authoringVars

-----------------------------------------------------------------------------
(* Properties *)

\* While a save is offered, every step says in the document what was typed there
\* last, through any order of switching, duplicating, removing and reloading; text
\* that cannot be saved holds the save back, and nothing else does; and an editor
\* that opens on a step shows what was typed there.
WhatIsTypedIsSaved ==
    /\ \A id \in ToSet(outline) :
         /\ kept[id] = Broken <=> id \in errors
         /\ kept[id] \in Texts => page[id].text = kept[id]
    /\ canvas # Closed /\ kept[selected] # Untyped => canvas = kept[selected]

\* Of the issues between steps and with what is prepared (Issues; amounts, units and
\* optional items are not modelled) editing leaves only the order to repair: no sequence
\* of adding, moving, duplicating, removing and assigning makes a step require a
\* deleted step, use an item that is not prepared, or use up what the guide keeps.
OnlyTheOrderIsLeftToFix ==
    \A issue \in Issues(Document) : DOMAIN issue = {"later"}
=============================================================================
