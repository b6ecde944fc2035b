---------------------------- MODULE ManagementPage ----------------------------
(***************************************************************************)
(* The two pages on which managers keep things (categories) and catalog     *)
(* items: a table the server filters, pages and, for things, unfolds; a     *)
(* sheet over it with one record; and the forms that add and change         *)
(* records.  A request reads the server when it is answered there, and what *)
(* it read is used when the answer arrives.  Another manager works on the   *)
(* same records.                                                            *)
(***************************************************************************)
EXTENDS Naturals, FiniteSets

CONSTANTS
    Ids,
    Rank,           \* the order of siblings: [Ids -> Nat]
    UsedRecords,    \* the records guides use; a new one is not among them
    Top,            \* the parent of a record that lies in no other
    Entries,        \* what a form can be filled with
    Stored,         \* the records at the start
    Questions,      \* the settings of search and filters a viewer tries
    PageSize,
    MaxChanges      \* bound: changes made on the server

NoRecord == [version |-> 0]
Record == [version : Nat \ {0}, parent : Ids \cup {Top}, visibility : {"public", "members"},
           named : BOOLEAN, archived : BOOLEAN, picture : BOOLEAN]
Nothing == "nothing"

ASSUME ManagementAssumption ==
    /\ IsFiniteSet(Ids) /\ Top \notin Ids /\ Nothing \notin Ids
    /\ Stored \in [Ids -> Record \cup {NoRecord}]
    /\ \A id \in Ids : Stored[id] # NoRecord =>
          Stored[id].parent = Top \/ Stored[Stored[id].parent] # NoRecord
    /\ UsedRecords \subseteq {id \in Ids : Stored[id] # NoRecord}
    /\ PageSize \in Nat \ {0} /\ MaxChanges \in Nat

VARIABLES
    resource,   \* the page that is open: "categories" or "catalog"
    records,    \* app.category or app.catalog_item
    clock,      \* changes made so far, by anyone
    question,   \* filters, page, the row to place, and the branches opened and closed
    fetch,      \* the list request under way; the state it read once answered there
    overtaken,  \* answers to list requests no longer wanted, on their way
    result,     \* the last list taken over
    failed,     \* the last list request failed
    sheet,      \* the record open over the table, and the request for it
    form,       \* the form open over both, and its request
    upload,     \* a picture being set
    known,      \* when the last own change that was answered was made
    added       \* the row just added, while nothing else has happened

managementVars ==
    <<resource, records, clock, question, fetch, overtaken, result, failed,
      sheet, form, upload, known, added>>
listVars == <<question, fetch, overtaken, result, failed>>

Shut == [kind |-> "none"]
NoAnswer == [stage |-> "none"]
Requested == [stage |-> "sent"]

Present(recs) == {id \in Ids : recs[id].version > 0}
Parents(recs, id) == {recs[id].parent} \ {Top}

\* category_path: the record and everything it lies in.
Path(recs, id) ==
    LET above[n \in 0 .. Cardinality(Ids)] ==
          IF n = 0 THEN {id} ELSE above[n - 1] \cup UNION {Parents(recs, j) : j \in above[n - 1]}
    IN  above[Cardinality(Ids)]

\* check_category_tree, which any write of a row fires: its parent is active, and
\* there is a forest with nothing active below what is archived and nothing public
\* below what is not.
Fits(recs, id) ==
    /\ \A up \in Parents(recs, id) : up \in Present(recs) /\ ~recs[up].archived
    /\ \A j \in Present(recs) : \A up \in Parents(recs, j) :
          /\ j \notin Path(recs, up)
          /\ recs[up].archived => recs[j].archived
          /\ recs[j].visibility = "public" => recs[up].visibility = "public"

-----------------------------------------------------------------------------
(* What the server lists.                                                   *)

MatchesFilters(recs, q, id) ==
    /\ q.search => \E j \in Path(recs, id) : recs[j].named
    /\ q.visibility \in {"all", recs[id].visibility}
    /\ q.usage = "all" \/ (q.usage = "used") = (id \in UsedRecords)

Matched(recs, q) ==
    {id \in Present(recs) : /\ MatchesFilters(recs, q, id)
                            /\ q.status = "all" \/ recs[id].archived = (q.status = "inactive")}

\* nodes.expanded: the way to a match or to the placed row, and what the viewer
\* opened; in a search, what the viewer did not close.
Unfolded(recs, q, id) ==
    \/ id \notin Matched(recs, q)
    \/ q.placing \in Matched(recs, q) /\ id \in Path(recs, q.placing)
    \/ IF q.search THEN id \notin q.collapsed ELSE id \in q.expanded

\* Matches and what they lie in, as far down as branches are unfolded.
TreeRows(recs, q) ==
    {id \in UNION {Path(recs, m) : m \in Matched(recs, q)} :
        \A up \in Path(recs, id) \ {id} : Unfolded(recs, q, up)}

FlatRows(recs, q) == Matched(recs, q)

Rows(recs, q) == IF resource = "categories" THEN TreeRows(recs, q) ELSE FlatRows(recs, q)

\* A branch before what follows it, siblings by rank.
Precedes(recs, i, j) ==
    /\ i # j
    /\ \/ i \in Path(recs, j)
       \/ \E u \in Path(recs, i) \ Path(recs, j), v \in Path(recs, j) \ Path(recs, i) :
             recs[u].parent = recs[v].parent /\ Rank[u] < Rank[v]

PageOf(rows, recs, id) == Cardinality({j \in rows : Precedes(recs, j, id)}) \div PageSize + 1
Pages(rows) == IF rows = {} THEN 1 ELSE (Cardinality(rows) - 1) \div PageSize + 1

\* The page asked for, or the placed row's, within those there are; above it what
\* its rows lie in.
Listing(recs, q, at) ==
    LET rows == Rows(recs, q)
        relevant == UNION {Path(recs, m) : m \in Matched(recs, q)}
        wanted == IF q.placing \in rows THEN PageOf(rows, recs, q.placing) ELSE q.page
        turned == IF wanted > Pages(rows) THEN Pages(rows) ELSE wanted
    IN  [stage |-> "answered", question |-> q, page |-> turned, pages |-> Pages(rows), at |-> at,
         branches |-> {id \in Matched(recs, q) : \E j \in relevant : recs[j].parent = id},
         rows |-> [id \in UNION {Path(recs, j) : j \in {i \in rows : PageOf(rows, recs, i) = turned}} |->
                      recs[id]]]

-----------------------------------------------------------------------------
(* The list: every change of the question or of the data asks anew.         *)

\* setRevision or a new key: the request under way is no longer the wanted one.
Ask ==
    /\ fetch' = Requested
    /\ overtaken' = IF fetch.stage = "answered" THEN fetch ELSE overtaken
    /\ failed' = FALSE

\* Mutant: a request under way is good enough.
AskOnce ==
    /\ fetch' = IF fetch.stage = "none" THEN Requested ELSE fetch
    /\ failed' = FALSE
    /\ UNCHANGED overtaken

\* announceStructuredChange: the table and the open record are asked for again.
AskAgain == Ask

Loading == fetch.stage # "none"
Settled == ~Loading /\ ~failed
Mounted == form.kind # "none" /\ form.mounted
Uncovered == sheet = Shut /\ ~Mounted
Shown == IF failed \/ result = NoAnswer THEN {} ELSE DOMAIN result.rows

\* setQuestion with a key that is not the present one.
Turns(q) ==
    /\ Uncovered /\ q # question
    /\ question' = q
    /\ Ask
    /\ added' = Nothing
    /\ UNCHANGED <<resource, records, clock, result, sheet, form, upload, known>>

\* changeQuestion: back to the first page.
ChangeQuestion(filters) ==
    Turns([search |-> filters.search, status |-> filters.status, visibility |-> filters.visibility,
           usage |-> filters.usage, page |-> 1, placing |-> Nothing, expanded |-> question.expanded,
           collapsed |-> IF filters.search = question.search THEN question.collapsed ELSE {}])

Flipped(set, id) == IF id \in set THEN set \ {id} ELSE set \cup {id}

ToggleRow(id) ==
    /\ resource = "categories" /\ id \in Shown /\ id \in result.branches
    /\ Turns(IF question.search
             THEN [question EXCEPT !.placing = Nothing, !.collapsed = Flipped(@, id)]
             ELSE [question EXCEPT !.placing = Nothing, !.expanded = Flipped(@, id)])

\* Pager: not while loading; the things' one stays when a request has failed.
TurnPage ==
    /\ ~Loading /\ result # NoAnswer /\ (failed => resource = "categories")
    /\ \E next \in {result.page - 1, result.page + 1} \cap 1 .. result.pages :
          Turns([question EXCEPT !.placing = Nothing, !.page = next])

ListAgain ==
    /\ failed /\ Ask
    /\ UNCHANGED <<resource, records, clock, question, result, sheet, form, upload, known, added>>

\* One statement, one snapshot.
ListAnswered ==
    /\ fetch.stage = "sent"
    /\ fetch' = Listing(records, question, clock)
    /\ UNCHANGED <<resource, records, clock, question, overtaken, result, failed, sheet, form,
                   upload, known, added>>

\* Mutant: the page the answer is of is not turned to.
StayOnPage(list) == [question EXCEPT !.placing = Nothing]

\* The effect that follows a list: its page is the page, and nothing is placed.
TakePage(list) == [question EXCEPT !.placing = Nothing, !.page = list.page]

\* The answer is shown; if that alters the question, it is asked.
ListArrives ==
    /\ fetch.stage = "answered"
    /\ result' = fetch
    /\ question' = TakePage(fetch)
    /\ fetch' = IF question' = question THEN NoAnswer ELSE Requested
    /\ UNCHANGED <<resource, records, clock, overtaken, failed, sheet, form, upload, known, added>>

ListFails ==
    /\ Loading
    /\ fetch' = NoAnswer /\ failed' = TRUE
    /\ UNCHANGED <<resource, records, clock, question, overtaken, result, sheet, form, upload,
                   known, added>>

\* active is FALSE: an overtaken answer is dropped.
DropLateAnswer ==
    /\ overtaken.stage = "answered"
    /\ overtaken' = NoAnswer
    /\ UNCHANGED <<resource, records, clock, question, fetch, result, failed, sheet, form, upload,
                   known, added>>

-----------------------------------------------------------------------------
(* The sheet: the row as it was listed, replaced by the record as it is.    *)

\* useManagementRecord: shown as given, and asked for.
Sheet(id, record) ==
    [kind |-> "record", id |-> id, record |-> record, stage |-> "sent", answer |-> NoRecord]
Reread(open) == IF open = Shut THEN Shut ELSE [open EXCEPT !.stage = "sent", !.answer = NoRecord]

Open(id) ==
    /\ Uncovered /\ id \in Shown
    /\ sheet' = Sheet(id, result.rows[id])
    /\ UNCHANGED <<resource, records, clock, listVars, form, upload, known, added>>

CloseSheet ==
    /\ sheet # Shut /\ ~Mounted
    /\ sheet' = Shut
    /\ UNCHANGED <<resource, records, clock, listVars, form, upload, known, added>>

RecordAnswered ==
    /\ sheet # Shut /\ sheet.stage = "sent"
    /\ sheet' = [sheet EXCEPT !.stage = "answered", !.answer = records[sheet.id]]
    /\ UNCHANGED <<resource, records, clock, listVars, form, upload, known, added>>

\* A form gone from the page; its request, if it made one, goes on.
Dismissed == IF form.stage \in {"sent", "accepted", "refused"}
             THEN [form EXCEPT !.mounted = FALSE] ELSE Shut

\* Mutant: the detail is keyed by the record's identity alone.
SameDetail == form

\* The detail is keyed by id and version: what it had open is gone with a new one.
NewDetail ==
    IF Mounted /\ form.inside /\ sheet.answer.version # sheet.record.version
    THEN Dismissed ELSE form

RecordArrives ==
    /\ sheet # Shut /\ sheet.stage = "answered"
    /\ form' = NewDetail
    /\ sheet' = [sheet EXCEPT !.stage = "idle", !.record = sheet.answer, !.answer = NoRecord]
    /\ UNCHANGED <<resource, records, clock, listVars, upload, known, added>>

\* The open record is kept.
RecordFails ==
    /\ sheet # Shut /\ sheet.stage \in {"sent", "answered"}
    /\ sheet' = [sheet EXCEPT !.stage = "idle", !.answer = NoRecord]
    /\ UNCHANGED <<resource, records, clock, listVars, form, upload, known, added>>

-----------------------------------------------------------------------------
(* The forms and the picture.                                               *)

\* shown is what the form was filled from, wanted what is sent; saved, path and
\* found are what the answer says of the record.
Form(kind, id, shown, inside) ==
    [kind |-> kind, id |-> id, shown |-> shown, inside |-> inside, mounted |-> TRUE,
     stage |-> "open", wanted |-> NoRecord, saved |-> Nothing, path |-> {}, found |-> FALSE, at |-> 0]

\* The button above the table, the one in a row, and the one in the sheet.  Bound:
\* not while the request of a form that was left is under way.
OpenAdd(id) ==
    /\ form = Shut
    /\ \/ sheet = Shut /\ id = Top
       \/ resource = "categories" /\ sheet = Shut /\ id \in Shown /\ ~result.rows[id].archived
       \/ resource = "categories" /\ sheet # Shut /\ id = sheet.id /\ ~sheet.record.archived
    /\ form' = Form("add", id, NoRecord, sheet # Shut)
    /\ UNCHANGED <<resource, records, clock, listVars, sheet, upload, known, added>>

OpenChange(kind) ==
    /\ form = Shut /\ sheet # Shut
    /\ form' = Form(kind, sheet.id, sheet.record, TRUE)
    /\ UNCHANGED <<resource, records, clock, listVars, sheet, upload, known, added>>

\* A form can be left while its request is under way, the status dialog cannot.
Dismiss ==
    /\ Mounted
    /\ form.kind = "status" => form.stage = "open"
    /\ form' = Dismissed
    /\ UNCHANGED <<resource, records, clock, listVars, sheet, upload, known, added>>

Filled(f, record, version) ==
    [version |-> version, parent |-> f.parent, visibility |-> f.visibility, named |-> f.named,
     archived |-> record.archived, picture |-> record.picture]

\* What is sent: a new record lies where the form was opened; a change names the
\* version the page shows now; the status dialog sends that version back.
Wanted(f) ==
    CASE form.kind = "add" ->
           Filled([f EXCEPT !.parent = form.id], [archived |-> FALSE, picture |-> FALSE], 0)
      [] form.kind = "edit" -> Filled(f, sheet.record, sheet.record.version)
      [] form.kind = "status" -> [sheet.record EXCEPT !.archived = ~@]

SaveForm(f) ==
    /\ Mounted /\ form.stage = "open"
    /\ form.kind = "edit" => (resource = "categories" \/ f.parent = Top)
    /\ form' = [form EXCEPT !.stage = "sent", !.wanted = Wanted(f),
                            !.shown = IF form.kind = "status" THEN sheet.record ELSE @]
    /\ UNCHANGED <<resource, records, clock, listVars, sheet, upload, known, added>>

\* createCategory, createCatalogItem.
Created(id) ==
    /\ form.kind = "add" /\ records[id] = NoRecord
    /\ records' = [records EXCEPT ![id] = [form.wanted EXCEPT !.version = 1]]

\* updateCategory, updateCatalogItem: of the version that was sent.
Updated(id) ==
    /\ form.kind # "add" /\ id = form.id
    /\ records[id].version = form.wanted.version
    /\ records' = [records EXCEPT ![id] = [form.wanted EXCEPT !.version = @ + 1,
                                                              !.picture = records[id].picture]]

FormServed(id) ==
    /\ form.kind # "none" /\ form.stage = "sent" /\ clock < MaxChanges
    /\ Created(id) \/ Updated(id)
    /\ Fits(records', id)
    /\ clock' = clock + 1
    /\ form' = [form EXCEPT !.stage = "accepted", !.saved = id, !.path = Path(records', id),
                            !.found = \E j \in Path(records', id) : records'[j].named,
                            !.at = clock + 1]
    /\ added' = Nothing
    /\ UNCHANGED <<resource, listVars, sheet, upload, known>>

\* Refused, or the answer is lost: what was typed is still there.
FormFails ==
    /\ form.kind # "none" /\ form.stage \in {"sent", "accepted"}
    /\ form' = IF form.mounted THEN Form(form.kind, form.id, form.shown, form.inside) ELSE Shut
    /\ UNCHANGED <<resource, records, clock, listVars, sheet, upload, known, added>>

\* reveal and place: what would hide the new row is cleared, its branch opened.
Reveal(id, path, found, visibility) ==
    [question EXCEPT
        !.placing = id,
        !.expanded = @ \cup (path \ {id}), !.collapsed = @ \ (path \ {id}),
        !.search = @ /\ found,
        !.status = IF @ = "inactive" THEN "active" ELSE @,
        !.visibility = IF @ = visibility THEN @ ELSE "all",
        !.usage = IF @ = "used" THEN "all" ELSE @]

Later(at) == IF at > known THEN at ELSE known

\* A catalog item opens straight away.
AddAnswered ==
    /\ form.kind = "add" /\ form.mounted
    /\ question' = Reveal(form.saved, form.path, form.found, form.wanted.visibility)
    /\ sheet' = IF resource = "catalog"
                THEN Sheet(form.saved, [form.wanted EXCEPT !.version = 1]) ELSE Reread(sheet)
    /\ added' = IF clock = form.at THEN form.saved ELSE Nothing

\* A status change closes the sheet, whichever is open by then.
ChangeAnswered ==
    /\ form.kind # "add" \/ ~form.mounted
    /\ sheet' = IF form.kind = "status" THEN Shut ELSE Reread(sheet)
    /\ UNCHANGED <<question, added>>

FormArrives ==
    /\ form.kind # "none" /\ form.stage = "accepted"
    /\ AddAnswered \/ ChangeAnswered
    /\ AskAgain
    /\ form' = Shut
    /\ known' = Later(form.at)
    /\ UNCHANGED <<resource, records, clock, result, upload>>

\* ThingPicture: the file, then which picture the thing shows.  Bound: one at a time.
ChoosePicture(picture) ==
    /\ resource = "categories" /\ sheet # Shut /\ ~Mounted /\ upload = NoAnswer
    /\ picture \/ sheet.record.picture
    /\ upload' = [stage |-> "sent", id |-> sheet.id, picture |-> picture, at |-> 0]
    /\ UNCHANGED <<resource, records, clock, listVars, sheet, form, known, added>>

\* setCategoryImage: no version, of either kind, is asked for or raised.
PictureSet ==
    /\ upload.stage = "sent" /\ clock < MaxChanges
    /\ records' = [records EXCEPT ![upload.id].picture = upload.picture]
    /\ Fits(records', upload.id)
    /\ clock' = clock + 1
    /\ upload' = [upload EXCEPT !.stage = "stored", !.at = clock + 1]
    /\ UNCHANGED <<resource, listVars, sheet, form, known, added>>

PictureArrives ==
    /\ upload.stage = "stored"
    /\ upload' = NoAnswer
    /\ known' = Later(upload.at)
    /\ sheet' = Reread(sheet)
    /\ AskAgain
    /\ UNCHANGED <<resource, records, clock, question, result, form, added>>

PictureFails ==
    /\ upload.stage \in {"sent", "stored"}
    /\ upload' = NoAnswer
    /\ UNCHANGED <<resource, records, clock, listVars, sheet, form, known, added>>

\* Another manager adds a record or changes one.
OtherManager(id, f) ==
    /\ clock < MaxChanges
    /\ resource = "categories" \/ f.parent = Top
    /\ records' = [records EXCEPT ![id] =
          IF @ = NoRecord THEN Filled(f, [archived |-> FALSE, picture |-> FALSE], 1)
          ELSE [Filled(f, @, @.version + 1) EXCEPT !.archived = f.archived]]
    /\ Fits(records', id)
    /\ clock' = clock + 1
    /\ added' = Nothing
    /\ UNCHANGED <<resource, listVars, sheet, form, upload, known>>

-----------------------------------------------------------------------------
ManagementInit ==
    /\ resource \in {"categories", "catalog"}
    /\ records = [id \in Ids |-> IF Stored[id] = NoRecord \/ resource = "categories" THEN Stored[id]
                                 ELSE [Stored[id] EXCEPT !.parent = Top]]
    /\ clock = 0
    /\ question = [search |-> FALSE, status |-> "active", visibility |-> "all", usage |-> "all",
                   page |-> 1, placing |-> Nothing, expanded |-> {}, collapsed |-> {}]
    /\ fetch = Requested /\ overtaken = NoAnswer /\ result = NoAnswer /\ failed = FALSE
    /\ sheet = Shut /\ form = Shut /\ upload = NoAnswer
    /\ known = 0 /\ added = Nothing

ListStep ==
    \/ \E filters \in Questions : ChangeQuestion(filters)
    \/ \E id \in Ids : ToggleRow(id)
    \/ TurnPage \/ ListAgain
    \/ ListAnswered \/ ListArrives \/ ListFails \/ DropLateAnswer

SheetStep ==
    \/ \E id \in Ids : Open(id)
    \/ CloseSheet \/ RecordAnswered \/ RecordArrives \/ RecordFails

FormStep ==
    \/ \E id \in Ids \cup {Top} : OpenAdd(id)
    \/ \E kind \in {"edit", "status"} : OpenChange(kind)
    \/ \E f \in Entries : SaveForm(f)
    \/ \E id \in Ids : FormServed(id)
    \/ Dismiss \/ FormFails \/ FormArrives
    \/ \E picture \in BOOLEAN : ChoosePicture(picture)
    \/ PictureSet \/ PictureArrives \/ PictureFails

ManagementNext ==
    \/ ListStep \/ SheetStep \/ FormStep
    \/ \E id \in Ids, f \in Entries : OtherManager(id, f)

ManagementSpec == ManagementInit /\ [][ManagementNext]_managementVars

-----------------------------------------------------------------------------
\* When the page says it is up to date, the rows answer the question it shows
\* and were read after the last of its own changes: "Only the latest request may
\* replace a page".
ListIsCurrent ==
    Settled => result.stage = "answered" /\ result.question = question /\ result.at >= known

\* A row just added is on the page that is shown, whatever was searched and
\* filtered before: "one that does not appear reads as a creation that failed".
AddedRowsAreShown == added # Nothing /\ Settled => added \in DOMAIN result.rows

\* What a form replaces is what it was filled from, field for field, however the
\* sheet was refreshed under it and whatever the other manager did.
EditsReplaceWhatTheyShowed ==
    [][form.kind \in {"edit", "status"} /\ form'.kind = form.kind
          /\ form.stage = "sent" /\ form'.stage = "accepted"
       => [form.shown EXCEPT !.picture = FALSE] = [records[form.id] EXCEPT !.picture = FALSE]
      ]_managementVars
=============================================================================
