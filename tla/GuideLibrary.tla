---------------------------- MODULE GuideLibrary ----------------------------
(***************************************************************************)
(* The library of one workspace as the database keeps it: the category     *)
(* tree, the catalog of reusable items, the guides with their drafts and    *)
(* numbered releases, and the outbox.  Every action is one transaction of   *)
(* the application store (packages/database/src/store.ts and                *)
(* structured-store.ts) together with the triggers it fires.                *)
(*                                                                          *)
(* Each of those transactions takes the workspace's structured-edit         *)
(* advisory lock (key 719821007) before it reads what it decides on and     *)
(* keeps it until COMMIT, and the isolation level is READ COMMITTED, so a   *)
(* transaction sees every earlier one and is one step here.  A refusal      *)
(* rolls back and changes nothing: it is the absence of a step.             *)
(***************************************************************************)
EXTENDS Naturals, Sequences, FiniteSets

CONSTANTS
    Categories,         \* identities a category row can get (randomUUID)
    Items,              \* identities a catalog item row can get
    Guides,             \* identities a guide row can get
    Nowhere,            \* NULL, where a category or a parent is expected
    WorkspaceAudience,  \* app.workspace.audience; nothing in the code updates it
    Documents,          \* what a draft document can require: sets of item versions
    MaxDepth,           \* levels a category tree may have (16 in the code)
    MaxCategoryVersion, \* bounds of the model on the counters, one per counter
    MaxItemVersion,
    MaxDraftVersion,
    MaxRevision

Visibility == {"public", "members"}
Requirement == [item : Items, version : Nat \ {0}]

ASSUME CategoriesAssumption == IsFiniteSet(Categories)
ASSUME NowhereAssumption == Nowhere \notin Categories
ASSUME AudienceAssumption == WorkspaceAudience \in {"public", "private"}
ASSUME DocumentsAssumption == Documents \subseteq SUBSET Requirement
ASSUME DepthAssumption == MaxDepth \in Nat \ {0}
ASSUME BoundsAssumption ==
    {MaxCategoryVersion, MaxItemVersion, MaxDraftVersion, MaxRevision} \subseteq Nat

VARIABLES
    category,   \* app.category; version 0 is a row not inserted yet
    item,       \* app.catalog_item; version 0 is a row not inserted yet
    snapshot,   \* app.catalog_item_version: the visibility each version froze
    guide,      \* app.guide; state "absent" is a row not inserted yet
    release,    \* app.release: the numbered releases of each guide, in order
    reference,  \* app.guide_requirement_reference; release 0 is the draft
    outbox      \* app.outbox: the events of each guide, in order (app.audit
                \* gets the same events in the same transactions)

vars == <<category, item, snapshot, guide, release, reference, outbox>>

CategoryRow == [version : Nat, parent : Categories \cup {Nowhere},
                visibility : Visibility, archived : BOOLEAN]
ItemRow == [version : Nat, visibility : Visibility, archived : BOOLEAN]
GuideState == {"absent", "draft", "published", "withdrawn"}
GuideRow == [version : Nat, state : GuideState, audience : Visibility,
             category : Categories \cup {Nowhere}, requirements : SUBSET Requirement,
             currentRelease : Nat, publishedVersion : Nat, revision : Nat]
ReleaseRow == [draftVersion : Nat, category : Categories,
               requirements : SUBSET Requirement]
ReferenceRow == [guide : Guides, release : Nat, item : Items, version : Nat]
Event == [event : {"published", "withdrawn", "reinstated"}, release : Nat]
         \cup [event : {"audience_changed"}, to : Visibility, release : Nat]

NoCategory == [version |-> 0, parent |-> Nowhere, visibility |-> "members", archived |-> FALSE]
NoItem == [version |-> 0, visibility |-> "members", archived |-> FALSE]
NoGuide == [version |-> 0, state |-> "absent", audience |-> "members", category |-> Nowhere,
            requirements |-> {}, currentRelease |-> 0, publishedVersion |-> 0, revision |-> 0]

Init ==
    /\ category = [c \in Categories |-> NoCategory]
    /\ item = [i \in Items |-> NoItem]
    /\ snapshot = [i \in Items |-> <<>>]
    /\ guide = [g \in Guides |-> NoGuide]
    /\ release = [g \in Guides |-> <<>>]
    /\ reference = {}
    /\ outbox = [g \in Guides |-> <<>>]

-----------------------------------------------------------------------------
(* Reading the tree and the publication state *)

UpClosed(S) == \A x \in S : category[x].parent \in S \cup {Nowhere}

\* A category with all its ancestors: what the recursive walks up the tree return.
Chain(c) == {x \in Categories : \A S \in SUBSET Categories : c \in S /\ UpClosed(S) => x \in S}

ChainIsPublic(c) == \A x \in Chain(c) : category[x].visibility = "public"

Children(c) == {x \in Categories : category[x].parent = c}

Live(g) == guide[g].state \in {"draft", "published"}
PublishedTo(g, audience) == guide[g].state = "published" /\ guide[g].audience = audience
HasRelease(g) == guide[g].currentRelease # 0
CurrentRelease(g) == release[g][guide[g].currentRelease]

\* The items guide g's release n references, as the reference table has them.
ReferencedItems(g, n) ==
    {ref.item : ref \in {r \in reference : r.guide = g /\ r.release = n}}

\* release_readable and category_readable, for somebody who is not a member.
VisitorReadsCategory(c) == WorkspaceAudience = "public" /\ ChainIsPublic(c)
VisitorReadsItem(i) ==
    WorkspaceAudience = "public" /\ item[i].version # 0 /\ item[i].visibility = "public"
VisitorReads(g) ==
    /\ WorkspaceAudience = "public"
    /\ PublishedTo(g, "public")
    /\ VisitorReadsCategory(CurrentRelease(g).category)

-----------------------------------------------------------------------------
(* Categories *)

\* How many levels hang below c.
LevelsBelow(c) == {Cardinality(Chain(d)) - Cardinality(Chain(c)) : d \in {x \in Categories : c \in Chain(x)}}

\* Mutant: the levels below a moved category are not counted.
PlaceAcceptedAsIfALeaf(c, row) ==
    LET depth == IF row.parent = Nowhere THEN 0 ELSE Cardinality(Chain(row.parent))
    IN  /\ row.parent # Nowhere =>
             /\ category[row.parent].version # 0
             /\ ~category[row.parent].archived
             /\ c \notin Chain(row.parent)
        /\ depth + 1 <= MaxDepth

PlaceAccepted(c, row) ==
    LET depth == IF row.parent = Nowhere THEN 0 ELSE Cardinality(Chain(row.parent))
    IN  /\ row.parent # Nowhere =>
             /\ category[row.parent].version # 0
             /\ ~category[row.parent].archived
             /\ c \notin Chain(row.parent)
        /\ \A below \in LevelsBelow(c) : depth + below + 1 <= MaxDepth

\* Mutant: restricting a category does not look at the releases filed under it.
VisibilityAcceptedIgnoringReleases(c, row) ==
    /\ row.visibility = "public" =>
         /\ WorkspaceAudience = "public"
         /\ row.parent # Nowhere => category[row.parent].visibility = "public"
    /\ row.visibility = "members" /\ category[c].visibility = "public" =>
         \A x \in Children(c) : category[x].visibility = "members"

VisibilityAccepted(c, row) ==
    /\ row.visibility = "public" =>
         /\ WorkspaceAudience = "public"
         /\ row.parent # Nowhere => category[row.parent].visibility = "public"
    /\ row.visibility = "members" /\ category[c].visibility = "public" =>
         /\ \A x \in Children(c) : category[x].visibility = "members"
         /\ \A g \in Guides : PublishedTo(g, "public") => CurrentRelease(g).category # c

\* Mutant: only the drafts' categories keep a category active.
ArchiveAcceptedIgnoringReleases(c, row) ==
    row.archived =>
        /\ \A x \in Children(c) : category[x].archived
        /\ \A g \in Guides : Live(g) => guide[g].category # c

\* Current assignments keep a category active; superseded releases do not.
ArchiveAccepted(c, row) ==
    row.archived =>
        /\ \A x \in Children(c) : category[x].archived
        /\ \A g \in Guides : Live(g) =>
             /\ guide[g].category # c
             /\ HasRelease(g) => CurrentRelease(g).category # c

\* The trigger check_category_tree.
WriteCategory(c, row) ==
    /\ PlaceAccepted(c, row)
    /\ VisibilityAccepted(c, row)
    /\ ArchiveAccepted(c, row)
    /\ category' = [category EXCEPT ![c] = row]
    /\ UNCHANGED <<item, snapshot, guide, release, reference, outbox>>

CreateCategory(c, parent, visibility) ==
    /\ category[c].version = 0
    /\ WriteCategory(c, [version |-> 1, parent |-> parent, visibility |-> visibility,
                         archived |-> FALSE])

UpdateCategory(c, expectedVersion, parent, visibility, archived) ==
    /\ category[c].version # 0
    /\ category[c].version = expectedVersion
    /\ category[c].version < MaxCategoryVersion
    /\ WriteCategory(c, [version |-> category[c].version + 1, parent |-> parent,
                         visibility |-> visibility, archived |-> archived])

-----------------------------------------------------------------------------
(* Catalog items *)

\* The triggers check_catalog_visibility, check_catalog_item and, after them,
\* snapshot_catalog_item.
WriteItem(i, row) ==
    /\ row.visibility = "public" => WorkspaceAudience = "public"
    /\ row.visibility = "members" /\ item[i].visibility = "public" =>
         \A g \in Guides :
             PublishedTo(g, "public") => i \notin ReferencedItems(g, guide[g].currentRelease)
    /\ item' = [item EXCEPT ![i] = row]
    /\ snapshot' = [snapshot EXCEPT ![i] = Append(@, row.visibility)]
    /\ UNCHANGED <<category, guide, release, reference, outbox>>

CreateCatalogItem(i, visibility) ==
    /\ item[i].version = 0
    /\ WriteItem(i, [version |-> 1, visibility |-> visibility, archived |-> FALSE])

UpdateCatalogItem(i, expectedVersion, visibility, archived) ==
    /\ item[i].version # 0
    /\ item[i].version = expectedVersion
    /\ item[i].version < MaxItemVersion
    /\ WriteItem(i, [version |-> item[i].version + 1, visibility |-> visibility,
                     archived |-> archived])

-----------------------------------------------------------------------------
(* Guides: what the handlers check before they write *)

\* selectedCategory, and the trigger check_guide_category.
Selectable(c, publicOnly) ==
    /\ category[c].version # 0
    /\ ~category[c].archived
    /\ publicOnly => category[c].visibility = "public"

\* validateRequirements: prior is the document the guide already had.
RequirementsValid(document, prior, publicOnly) ==
    \A r \in document :
        /\ r.version \in DOMAIN snapshot[r.item]
        /\ item[r.item].archived => r \in prior
        /\ publicOnly => item[r.item].visibility = "public" /\ snapshot[r.item][r.version] = "public"

\* Mutant: the items of the current release are not looked at.
NoPublicBlockersIgnoringItems(g) ==
    /\ WorkspaceAudience = "public"
    /\ guide[g].state = "published" => ChainIsPublic(CurrentRelease(g).category)

\* guide_public_blockers: nothing keeps the guide from the public section.
NoPublicBlockers(g) ==
    /\ WorkspaceAudience = "public"
    /\ guide[g].state = "published" =>
         /\ ChainIsPublic(CurrentRelease(g).category)
         /\ \A i \in ReferencedItems(g, guide[g].currentRelease) : item[i].visibility = "public"

\* reinstate_blockers: nothing keeps the withdrawn release from its readers.
NoReinstateBlockers(g) ==
    /\ ~category[CurrentRelease(g).category].archived
    /\ guide[g].audience = "public" =>
         /\ WorkspaceAudience = "public"
         /\ ChainIsPublic(CurrentRelease(g).category)
         /\ \A i \in ReferencedItems(g, guide[g].currentRelease) : item[i].visibility = "public"

-----------------------------------------------------------------------------
(* Guides: the triggers on UPDATE app.guide *)

\* Mutant: a move between the sections is not a new publication state.
SamePublicationIgnoringAudience(old, new) ==
    new.state = old.state /\ new.currentRelease = old.currentRelease

SamePublication(old, new) ==
    /\ new.state = old.state
    /\ new.currentRelease = old.currentRelease
    /\ new.audience = old.audience

\* guide_publication_state: the transitions it admits.
TransitionAccepted(g, new) ==
    LET old == guide[g]
    IN  /\ new.state = "withdrawn" => old.state \in {"published", "withdrawn"}
        /\ old.state = "withdrawn" => new.state # "draft"
        /\ old.state = "withdrawn" /\ new.state = "published"
             /\ new.currentRelease = old.currentRelease => NoReinstateBlockers(g)

\* check_guide_audience.
AudienceAccepted(g, new) ==
    new.audience # guide[g].audience =>
        /\ guide[g].state # "withdrawn"
        /\ new.audience = "public" => NoPublicBlockers(g)

\* guide_publication_state: a new revision whenever who can read what changes.
Revised(old, new) ==
    IF SamePublication(old, new) THEN new ELSE [new EXCEPT !.revision = old.revision + 1]

UpdateGuide(g, new) ==
    /\ TransitionAccepted(g, new)
    /\ AudienceAccepted(g, new)
    /\ Revised(guide[g], new).revision <= MaxRevision
    /\ guide' = [guide EXCEPT ![g] = Revised(guide[g], new)]

\* What app.guide_requirement_reference says a document requires.
Rows(g, n, document) ==
    {[guide |-> g, release |-> n, item |-> r.item, version |-> r.version] : r \in document}

\* Mutant: the draft's earlier rows stay.
ProjectedOnTop(g, n, document) == reference \cup Rows(g, n, document)

\* projectRequirements, which replaces the draft's rows and adds a release's.
Projected(g, n, document) ==
    {r \in reference : ~(n = 0 /\ r.guide = g /\ r.release = 0)} \cup Rows(g, n, document)

Emit(g, event) == outbox' = [outbox EXCEPT ![g] = Append(@, event)]

-----------------------------------------------------------------------------
(* Guides: the handlers *)

CreateDraft(g, audience, c, document) ==
    /\ guide[g].state = "absent"
    /\ Selectable(c, FALSE)
    /\ RequirementsValid(document, {}, FALSE)
    /\ WorkspaceAudience = "private" => audience = "members"
    /\ guide' = [guide EXCEPT ![g] =
         [NoGuide EXCEPT !.version = 1, !.state = "draft", !.audience = audience,
                         !.category = c, !.requirements = document]]
    /\ reference' = Projected(g, 0, document)
    /\ UNCHANGED <<category, item, snapshot, release, outbox>>

\* Mutant: a draft is replaced without looking at the version it has by now.
SaveDraftUnseen(g, expectedVersion, c, document) ==
    /\ guide[g].state # "absent"
    /\ guide[g].version < MaxDraftVersion
    /\ Selectable(c, FALSE)
    /\ RequirementsValid(document, guide[g].requirements, FALSE)
    /\ UpdateGuide(g, [guide[g] EXCEPT !.version = @ + 1, !.category = c,
                                       !.requirements = document])
    /\ reference' = Projected(g, 0, document)
    /\ UNCHANGED <<category, item, snapshot, release, outbox>>

SaveDraft(g, expectedVersion, c, document) ==
    /\ guide[g].state # "absent"
    /\ guide[g].version = expectedVersion
    /\ guide[g].version < MaxDraftVersion
    /\ Selectable(c, FALSE)
    /\ RequirementsValid(document, guide[g].requirements, FALSE)
    /\ UpdateGuide(g, [guide[g] EXCEPT !.version = @ + 1, !.category = c,
                                       !.requirements = document])
    /\ reference' = Projected(g, 0, document)
    /\ UNCHANGED <<category, item, snapshot, release, outbox>>

\* Mutant: a version that was already published can be published again.
PublishableAgain(g, expected) ==
    /\ guide[g].state # "absent"
    /\ guide[g].revision = expected.revision
    /\ guide[g].version = expected.version
    /\ guide[g].currentRelease = expected.release

\* What the client saw is still so, and the draft has changed since its release.
Publishable(g, expected) ==
    /\ guide[g].state # "absent"
    /\ guide[g].revision = expected.revision
    /\ guide[g].version = expected.version
    /\ guide[g].currentRelease = expected.release
    /\ guide[g].publishedVersion # guide[g].version

PublishDraft(g, expected) ==
    LET old == guide[g]
        number == old.currentRelease + 1
        public == old.audience = "public"
    IN  /\ Publishable(g, expected)
        /\ Selectable(old.category, public)
        /\ RequirementsValid(old.requirements, old.requirements, public)
        /\ release' = [release EXCEPT ![g] =
             Append(@, [draftVersion |-> old.version, category |-> old.category,
                        requirements |-> old.requirements])]
        /\ UpdateGuide(g, [old EXCEPT !.currentRelease = number, !.state = "published",
                                      !.publishedVersion = old.version])
        /\ reference' = Projected(g, number, old.requirements)
        /\ Emit(g, [event |-> "published", release |-> number])
        /\ UNCHANGED <<category, item, snapshot>>

\* Mutant: the release and the state are compared, not the revision.
ExpectedPublicationByRelease(g, expected, state) ==
    /\ guide[g].currentRelease = expected.release
    /\ guide[g].state = state

ExpectedPublication(g, expected, state) ==
    /\ guide[g].revision = expected.revision
    /\ guide[g].currentRelease = expected.release
    /\ guide[g].state = state

WithdrawGuide(g, expected) ==
    /\ HasRelease(g)
    /\ ExpectedPublication(g, expected, "published")
    /\ UpdateGuide(g, [guide[g] EXCEPT !.state = "withdrawn"])
    /\ Emit(g, [event |-> "withdrawn", release |-> guide[g].currentRelease])
    /\ UNCHANGED <<category, item, snapshot, release, reference>>

ReinstateGuide(g, expected) ==
    /\ ExpectedPublication(g, expected, "withdrawn")
    /\ NoReinstateBlockers(g)
    /\ UpdateGuide(g, [guide[g] EXCEPT !.state = "published"])
    /\ Emit(g, [event |-> "reinstated", release |-> guide[g].currentRelease])
    /\ UNCHANGED <<category, item, snapshot, release, reference>>

\* Mutant: a move is written past the trigger, and nobody is told.
SetGuideAudienceSilently(g, audience, expectedRelease) ==
    /\ guide[g].state \notin {"absent", "withdrawn"}
    /\ guide[g].currentRelease = expectedRelease
    /\ guide[g].audience # audience
    /\ AudienceAccepted(g, [guide[g] EXCEPT !.audience = audience])
    /\ guide' = [guide EXCEPT ![g].audience = audience]
    /\ UNCHANGED <<category, item, snapshot, release, reference, outbox>>

SetGuideAudience(g, audience, expectedRelease) ==
    /\ guide[g].state \notin {"absent", "withdrawn"}
    /\ guide[g].currentRelease = expectedRelease
    /\ guide[g].audience # audience
    /\ UpdateGuide(g, [guide[g] EXCEPT !.audience = audience])
    /\ Emit(g, [event |-> "audience_changed", to |-> audience,
                release |-> guide[g].currentRelease])
    /\ UNCHANGED <<category, item, snapshot, release, reference>>

-----------------------------------------------------------------------------
(* The server faces any client: every expectation is tried, and only the
   ones that still hold lead to a step. *)

Expectation == [version : 0..MaxDraftVersion, release : 0..MaxDraftVersion,
                revision : 0..MaxRevision]

CategoryStep == \E c \in Categories, parent \in Categories \cup {Nowhere}, visibility \in Visibility :
    \/ CreateCategory(c, parent, visibility)
    \/ \E archived \in BOOLEAN, expectedVersion \in 1..MaxCategoryVersion :
          UpdateCategory(c, expectedVersion, parent, visibility, archived)

CatalogStep == \E i \in Items, visibility \in Visibility :
    \/ CreateCatalogItem(i, visibility)
    \/ \E archived \in BOOLEAN, expectedVersion \in 1..MaxItemVersion :
          UpdateCatalogItem(i, expectedVersion, visibility, archived)

DraftStep == \E g \in Guides, c \in Categories, document \in Documents :
    \/ \E audience \in Visibility : CreateDraft(g, audience, c, document)
    \/ \E expectedVersion \in 1..MaxDraftVersion : SaveDraft(g, expectedVersion, c, document)

PublicationStep == \E g \in Guides :
    \/ \E expected \in Expectation :
          \/ PublishDraft(g, expected)
          \/ WithdrawGuide(g, expected)
          \/ ReinstateGuide(g, expected)
    \/ \E audience \in Visibility, expectedRelease \in 0..MaxDraftVersion :
          SetGuideAudience(g, audience, expectedRelease)

Next == CategoryStep \/ CatalogStep \/ DraftStep \/ PublicationStep

Spec == Init /\ [][Next]_vars

-----------------------------------------------------------------------------
(* Properties *)

\* Every row has the columns and the domains of its table.
TypeOK ==
    /\ category \in [Categories -> CategoryRow]
    /\ item \in [Items -> ItemRow]
    /\ snapshot \in [Items -> Seq(Visibility)]
    /\ guide \in [Guides -> GuideRow]
    /\ release \in [Guides -> Seq(ReleaseRow)]
    /\ reference \subseteq ReferenceRow
    /\ outbox \in [Guides -> Seq(Event)]

\* The tree stays a tree of bounded depth under any sequence of moves: no
\* category is below itself, and no chain is longer than the depth the trigger
\* check_category_tree admits (it adds what is above the new parent to what
\* hangs below the moved category).
TreeStaysATree == \A c \in Categories :
    /\ category[c].parent # Nowhere => c \notin Chain(category[c].parent)
    /\ Cardinality(Chain(c)) <= MaxDepth

\* No active category sits below an archived one, and no public one below a
\* members-only one, whatever the order in which they are moved, archived,
\* reactivated, restricted and opened.
ParentsCoverChildren == \A c \in Categories : category[c].parent # Nowhere =>
    /\ category[category[c].parent].version # 0
    /\ ~category[c].archived => ~category[category[c].parent].archived
    /\ category[c].visibility = "public" => category[category[c].parent].visibility = "public"

\* No sequence of moves, archivings and openings leaves a category below itself, a
\* chain too long, or a category more open than the one it is filed under.
TreeIsSound == TreeStaysATree /\ ParentsCoverChildren

\* A guide published to the public is always one a visitor really reads: no
\* edit of the tree, no move and no reinstatement leaves a current public
\* release filed under something a visitor may not see.
PublicGuidesAreReadable == \A g \in Guides : PublishedTo(g, "public") => VisitorReads(g)

\* ... and every item its current release requires is one a visitor may see.
PublicItemsAreReadable == \A g \in Guides : PublishedTo(g, "public") =>
    \A r \in CurrentRelease(g).requirements : VisitorReadsItem(r.item)

\* Nothing a current release is filed under is archived while readers have it.
PublishedReleasesAreFiledActive == \A g \in Guides : guide[g].state = "published" =>
    ~category[CurrentRelease(g).category].archived

\* Whatever readers have stays whole for them: a public guide's category can be seen,
\* so can everything it requires, and nobody's current release is filed in an archive.
ReadersKeepWhatTheyHave ==
    PublicGuidesAreReadable /\ PublicItemsAreReadable /\ PublishedReleasesAreFiledActive

DraftRows(g) == Rows(g, 0, guide[g].requirements)
ReleaseRows(g) == UNION {Rows(g, n, release[g][n].requirements) : n \in DOMAIN release[g]}

\* The reference table, which is what the triggers and the blockers consult,
\* says exactly what the draft and every release require.
ReferencesMatchDocuments == reference = UNION {DraftRows(g) \cup ReleaseRows(g) : g \in Guides}

\* Releases are numbered without a gap, the current one is the newest, each was
\* made from a later draft than the one before, and the version recorded as
\* published is the newest release's.
ReleasesFollowDrafts == \A g \in Guides :
    /\ guide[g].currentRelease = Len(release[g])
    /\ guide[g].state \in {"published", "withdrawn"} <=> release[g] # <<>>
    /\ \A m, n \in DOMAIN release[g] : m < n => release[g][m].draftVersion < release[g][n].draftVersion
    /\ guide[g].publishedVersion =
         IF release[g] = <<>> THEN 0 ELSE release[g][Len(release[g])].draftVersion
    /\ guide[g].publishedVersion <= guide[g].version

StateEvents == {"published", "withdrawn", "reinstated"}

\* The k-th event of guide g is the last of its kinds.
LastOf(g, k, kinds) ==
    /\ outbox[g][k].event \in kinds
    /\ \A later \in DOMAIN outbox[g] : later > k => outbox[g][later].event \notin kinds

\* Whoever follows the outbox knows the publication state: as many events as
\* revisions, the last event about the state says it and its release, and the
\* last move says the section.
OutboxTellsPublication == \A g \in Guides :
    /\ Len(outbox[g]) = guide[g].revision
    /\ guide[g].state \in {"absent", "draft"}
         <=> \A k \in DOMAIN outbox[g] : outbox[g][k].event \notin StateEvents
    /\ \A k \in DOMAIN outbox[g] : LastOf(g, k, StateEvents) =>
         /\ outbox[g][k].release = guide[g].currentRelease
         /\ outbox[g][k].event = "withdrawn" <=> guide[g].state = "withdrawn"
    /\ \A k \in DOMAIN outbox[g] : LastOf(g, k, {"audience_changed"}) =>
         outbox[g][k].to = guide[g].audience

\* The library implements the shelf it promises its visitors: what they read of
\* a guide is its newest release or nothing, and changes only with the guide's
\* publication revision, so no edit of the tree or of the catalog exposes, hides
\* or replaces a release.
PublicRelease(g) == IF VisitorReads(g) THEN guide[g].currentRelease ELSE 0

Shelf == INSTANCE PublicShelf WITH
    shelf <- [g \in Guides |-> PublicRelease(g)],
    newest <- [g \in Guides |-> Len(release[g])],
    revision <- [g \in Guides |-> guide[g].revision]

ImplementsShelf == Shelf!Spec

\* The library implements, guide by guide, the draft its clients are told of, and
\* serves each request as GuideDraft serves it: for exactly what the client says it
\* saw.  Each version is made from the one named, each release from the draft named
\* as it then was, each withdrawal, reinstatement and move from the publication
\* named; a request that names anything else is refused, and no edit of the tree,
\* of the catalog or of another guide touches any of it.
Says(row) == [category |-> row.category, requirements |-> row.requirements]
DraftOf(g) ==
    [content |-> Says(guide[g]), version |-> guide[g].version, state |-> guide[g].state,
     audience |-> guide[g].audience, release |-> guide[g].currentRelease,
     published |-> guide[g].publishedVersion, revision |-> guide[g].revision]
ReleasesOf(g) == [n \in DOMAIN release[g] |-> Says(release[g][n])]

Draft(g) == INSTANCE GuideDraft WITH
    Contents <- [category : Categories, requirements : Documents],
    NoContent <- Says(NoGuide),
    MaxVersion <- MaxDraftVersion,
    draft <- DraftOf(g),
    released <- ReleasesOf(g)

\* Whatever a client sends, the library does for it what GuideDraft does for it.
Served(g) ==
    /\ \A c \in Categories, document \in Documents :
         LET content == [category |-> c, requirements |-> document]
         IN  /\ \A audience \in Visibility :
                  CreateDraft(g, audience, c, document) => Draft(g)!Create(content, audience)
             /\ \A expectedVersion \in 1..MaxDraftVersion :
                  SaveDraft(g, expectedVersion, c, document) => Draft(g)!Save(expectedVersion, content)
    /\ \A expected \in Expectation :
         /\ PublishDraft(g, expected) => Draft(g)!Publish(expected)
         /\ WithdrawGuide(g, expected) => Draft(g)!Withdraw(expected)
         /\ ReinstateGuide(g, expected) => Draft(g)!Reinstate(expected)
    /\ \A audience \in Visibility, expectedRelease \in 0..MaxDraftVersion :
         SetGuideAudience(g, audience, expectedRelease) => Draft(g)!Move(audience, expectedRelease)

ImplementsDrafts ==
    /\ \A g \in Guides : Draft(g)!DraftInit
    /\ [][\A g \in Guides : Served(g) /\ [Draft(g)!DraftNext]_(Draft(g)!draftVars)]_vars

\* What publishing demands of every item it names - public now, and public in
\* the exact version the guide froze - said of every public guide.
PublicReleasesFrozePublicVersions == \A g \in Guides : PublishedTo(g, "public") =>
    \A r \in CurrentRelease(g).requirements : snapshot[r.item][r.version] = "public"

\* What archiving demands of a category - no live guide is assigned to it - said
\* of every archived category.
ArchivedCategoriesHoldNoLiveGuide == \A g \in Guides :
    Live(g) => ~category[guide[g].category].archived
=============================================================================
