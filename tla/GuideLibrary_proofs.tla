------------------------ MODULE GuideLibrary_proofs ------------------------
(***************************************************************************)
(* What holds of every library, whatever its categories, items, guides,     *)
(* documents and bounds: proofs about GuideLibrary.                          *)
(***************************************************************************)
EXTENDS GuideLibrary, TLAPS

\* An existing guide always names a category (app.guide.category_id NOT NULL).
GuidesAreFiled == \A g \in Guides : guide[g].state # "absent" => guide[g].category \in Categories

Typed == TypeOK /\ GuidesAreFiled

-----------------------------------------------------------------------------
(* The typing of the rows the handlers write *)

\* The rows that stand for no row are well typed.
LEMMA NullRows == /\ NoCategory \in CategoryRow
                  /\ NoItem \in ItemRow
                  /\ NoGuide \in GuideRow
BY DEF NoCategory, NoItem, NoGuide, CategoryRow, ItemRow, GuideRow, Visibility, GuideState

\* What UPDATE app.guide leaves behind: the row it was given, with a revision.
LEMMA UpdateGuideEffect ==
    ASSUME TypeOK, NEW g \in Guides, NEW new \in GuideRow, UpdateGuide(g, new)
    PROVE  /\ guide' \in [Guides -> GuideRow]
           /\ \A h \in Guides \ {g} : guide'[h] = guide[h]
           /\ guide'[g].version = new.version
           /\ guide'[g].state = new.state
           /\ guide'[g].audience = new.audience
           /\ guide'[g].category = new.category
           /\ guide'[g].requirements = new.requirements
           /\ guide'[g].currentRelease = new.currentRelease
           /\ guide'[g].publishedVersion = new.publishedVersion
           /\ guide'[g].revision =
                IF SamePublication(guide[g], new) THEN new.revision ELSE guide[g].revision + 1
<1> DEFINE row == Revised(guide[g], new)
<1>1. guide \in [Guides -> GuideRow] /\ guide[g] \in GuideRow
  BY DEF TypeOK
<1>2. /\ row \in GuideRow
      /\ row.version = new.version
      /\ row.state = new.state
      /\ row.audience = new.audience
      /\ row.category = new.category
      /\ row.requirements = new.requirements
      /\ row.currentRelease = new.currentRelease
      /\ row.publishedVersion = new.publishedVersion
      /\ row.revision =
           IF SamePublication(guide[g], new) THEN new.revision ELSE guide[g].revision + 1
  BY <1>1 DEF Revised, GuideRow
<1>3. guide' = [guide EXCEPT ![g] = row]
  BY DEF UpdateGuide
<1> QED
  BY <1>1, <1>2, <1>3

-----------------------------------------------------------------------------
(* Every action keeps the types *)

\* A category step writes a well-typed row.
LEMMA CategoryStepTyped ==
    ASSUME Typed, NEW c \in Categories, NEW row \in CategoryRow, WriteCategory(c, row)
    PROVE  Typed'
<1>1. category' \in [Categories -> CategoryRow]
  BY DEF Typed, TypeOK, WriteCategory
<1> QED
  BY <1>1 DEF Typed, TypeOK, GuidesAreFiled, WriteCategory

\* An item step writes a well-typed row and one more snapshot.
LEMMA ItemStepTyped ==
    ASSUME Typed, NEW i \in Items, NEW row \in ItemRow, WriteItem(i, row)
    PROVE  Typed'
<1>1. item' \in [Items -> ItemRow]
  BY DEF Typed, TypeOK, WriteItem
<1>2. snapshot' \in [Items -> Seq(Visibility)]
  BY DEF Typed, TypeOK, WriteItem, ItemRow
<1> QED
  BY <1>1, <1>2 DEF Typed, TypeOK, GuidesAreFiled, WriteItem

\* The rows a document is projected to have the table's columns.
LEMMA ProjectedTyped ==
    ASSUME TypeOK, NEW g \in Guides, NEW n \in Nat, NEW document \in SUBSET Requirement
    PROVE  Projected(g, n, document) \subseteq ReferenceRow
BY DEF TypeOK, Projected, Rows, ReferenceRow, Requirement

\* An event joins its guide's events.
LEMMA EmitTyped ==
    ASSUME TypeOK, NEW g \in Guides, NEW event \in Event, Emit(g, event)
    PROVE  outbox' \in [Guides -> Seq(Event)]
BY DEF TypeOK, Emit

\* Creating a draft files it.
LEMMA CreateDraftTyped ==
    ASSUME Typed, NEW g \in Guides, NEW audience \in Visibility, NEW c \in Categories,
           NEW document \in Documents, CreateDraft(g, audience, c, document)
    PROVE  Typed'
<1>1. document \in SUBSET Requirement
  BY DocumentsAssumption
<1>2. guide' \in [Guides -> GuideRow] /\ GuidesAreFiled'
  BY <1>1 DEF Typed, TypeOK, GuidesAreFiled, CreateDraft, NoGuide, GuideRow, GuideState
<1>3. reference' \subseteq ReferenceRow
  BY <1>1, ProjectedTyped DEF Typed, CreateDraft
<1> QED
  BY <1>2, <1>3 DEF Typed, TypeOK, CreateDraft

\* Saving a draft leaves it filed.
LEMMA SaveDraftTyped ==
    ASSUME Typed, NEW g \in Guides, NEW expectedVersion \in Nat, NEW c \in Categories,
           NEW document \in Documents, SaveDraft(g, expectedVersion, c, document)
    PROVE  Typed'
<1> DEFINE new == [guide[g] EXCEPT !.version = @ + 1, !.category = c,
                                   !.requirements = document]
<1>1. document \in SUBSET Requirement
  BY DocumentsAssumption
<1>2. new \in GuideRow /\ new.category = c
  <2>1. guide[g] \in GuideRow /\ guide[g].version + 1 \in Nat
    BY DEF Typed, TypeOK, GuideRow
  <2>2. c \in Categories \cup {Nowhere}
    OBVIOUS
  <2> QED BY <1>1, <2>1, <2>2 DEF GuideRow
<1>3. UpdateGuide(g, new)
  BY DEF SaveDraft
<1> HIDE DEF new
<1>4. guide' \in [Guides -> GuideRow] /\ GuidesAreFiled'
  BY <1>2, <1>3, UpdateGuideEffect DEF Typed, GuidesAreFiled
<1>5. reference' \subseteq ReferenceRow
  BY <1>1, ProjectedTyped DEF Typed, SaveDraft
<1> QED
  BY <1>4, <1>5 DEF Typed, TypeOK, SaveDraft

\* Publishing makes a release that is filed where the draft is.
LEMMA PublishDraftTyped ==
    ASSUME Typed, NEW g \in Guides, NEW expected \in Expectation, PublishDraft(g, expected)
    PROVE  Typed'
<1> DEFINE number == guide[g].currentRelease + 1
           new == [guide[g] EXCEPT !.currentRelease = number, !.state = "published",
                                   !.publishedVersion = guide[g].version]
           row == [draftVersion |-> guide[g].version, category |-> guide[g].category,
                   requirements |-> guide[g].requirements]
           event == [event |-> "published", release |-> number]
<1>1. guide[g] \in GuideRow /\ number \in Nat /\ guide[g].category \in Categories
  BY DEF Typed, TypeOK, GuidesAreFiled, GuideRow, PublishDraft, Publishable
<1>2. row \in ReleaseRow
  BY <1>1 DEF GuideRow, ReleaseRow
<1>3. release' \in [Guides -> Seq(ReleaseRow)]
  <2> HIDE DEF row
  <2>1. release' = [release EXCEPT ![g] = Append(@, row)]
    BY DEF PublishDraft, row
  <2> QED
    BY <1>2, <2>1 DEF Typed, TypeOK
<1>4. new \in GuideRow /\ new.category = guide[g].category
  BY <1>1 DEF GuideRow, GuideState
<1>5. UpdateGuide(g, new)
  BY DEF PublishDraft
<1>6. guide' \in [Guides -> GuideRow] /\ GuidesAreFiled'
  <2> HIDE DEF new
  <2> QED BY <1>1, <1>4, <1>5, UpdateGuideEffect DEF Typed, GuidesAreFiled
<1>7. reference' \subseteq ReferenceRow
  <2>1. guide[g].requirements \in SUBSET Requirement
    BY <1>1 DEF GuideRow
  <2>2. reference' = Projected(g, number, guide[g].requirements)
    BY DEF PublishDraft
  <2> HIDE DEF number
  <2> QED BY <1>1, <2>1, <2>2, ProjectedTyped DEF Typed
<1>8. outbox' \in [Guides -> Seq(Event)]
  <2>1. event \in Event
    BY <1>1 DEF Event
  <2>2. Emit(g, event)
    BY DEF PublishDraft
  <2> QED BY <2>1, <2>2, EmitTyped DEF Typed
<1> QED
  BY <1>3, <1>6, <1>7, <1>8 DEF Typed, TypeOK, PublishDraft

\* Withdrawing, reinstating and moving between the sections write the guide's
\* row and an event, and nothing else.
LEMMA PublicationChangeTyped ==
    ASSUME Typed, NEW g \in Guides, NEW new \in GuideRow, NEW event \in Event,
           new.category = guide[g].category, guide[g].state # "absent",
           UpdateGuide(g, new), Emit(g, event),
           UNCHANGED <<category, item, snapshot, release, reference>>
    PROVE  Typed'
<1>1. guide' \in [Guides -> GuideRow] /\ GuidesAreFiled'
  BY UpdateGuideEffect DEF Typed, GuidesAreFiled
<1>2. outbox' \in [Guides -> Seq(Event)]
  BY EmitTyped DEF Typed
<1> QED
  BY <1>1, <1>2 DEF Typed, TypeOK

\* The rows those three handlers write, and their typing.
LEMMA PublicationRows ==
    ASSUME TypeOK, NEW g \in Guides
    PROVE  /\ guide[g] \in GuideRow
           /\ \A state \in GuideState : [guide[g] EXCEPT !.state = state] \in GuideRow
           /\ \A audience \in Visibility : [guide[g] EXCEPT !.audience = audience] \in GuideRow
           /\ [event |-> "withdrawn", release |-> guide[g].currentRelease] \in Event
           /\ [event |-> "reinstated", release |-> guide[g].currentRelease] \in Event
           /\ \A audience \in Visibility :
                [event |-> "audience_changed", to |-> audience,
                 release |-> guide[g].currentRelease] \in Event
<1>1. guide[g] \in GuideRow
  BY DEF TypeOK
<1>2. guide[g].currentRelease \in Nat
  BY <1>1 DEF GuideRow
<1>3. \A state \in GuideState : [guide[g] EXCEPT !.state = state] \in GuideRow
  BY <1>1 DEF GuideRow
<1>4. \A audience \in Visibility : [guide[g] EXCEPT !.audience = audience] \in GuideRow
  BY <1>1 DEF GuideRow
<1> QED
  BY <1>1, <1>2, <1>3, <1>4 DEF Event

\* A client's expectations are numbers.
LEMMA ExpectationsAreNumbers ==
    /\ 0..MaxDraftVersion \subseteq Nat
    /\ 1..MaxDraftVersion \subseteq Nat
    /\ 1..MaxCategoryVersion \subseteq Nat
    /\ 1..MaxItemVersion \subseteq Nat
BY BoundsAssumption

\* A category step is one write of a row that exists from then on.
LEMMA CategoryStepsWriteRows ==
    ASSUME CategoryStep
    PROVE  \E c \in Categories, row \in CategoryRow : row.version # 0 /\ WriteCategory(c, row)
<1>1. ASSUME NEW c \in Categories, NEW parent \in Categories \cup {Nowhere},
             NEW visibility \in Visibility, CreateCategory(c, parent, visibility)
      PROVE  \E row \in CategoryRow : row.version # 0 /\ WriteCategory(c, row)
  <2> DEFINE row == [version |-> 1, parent |-> parent, visibility |-> visibility,
                     archived |-> FALSE]
  <2>1. row \in CategoryRow /\ row.version # 0
    BY DEF CategoryRow
  <2>2. WriteCategory(c, row)
    BY <1>1 DEF CreateCategory
  <2> QED BY <2>1, <2>2
<1>2. ASSUME NEW c \in Categories, NEW parent \in Categories \cup {Nowhere},
             NEW visibility \in Visibility, NEW archived \in BOOLEAN,
             NEW expectedVersion \in 1..MaxCategoryVersion,
             UpdateCategory(c, expectedVersion, parent, visibility, archived)
      PROVE  \E row \in CategoryRow : row.version # 0 /\ WriteCategory(c, row)
  <2> DEFINE row == [version |-> category[c].version + 1, parent |-> parent,
                     visibility |-> visibility, archived |-> archived]
  <2>1. row \in CategoryRow /\ row.version # 0
    BY <1>2, ExpectationsAreNumbers DEF CategoryRow, UpdateCategory
  <2>2. WriteCategory(c, row)
    BY <1>2 DEF UpdateCategory
  <2> QED BY <2>1, <2>2
<1> QED
  BY <1>1, <1>2 DEF CategoryStep

\* A catalog step is one write of the item's next version.
LEMMA CatalogStepsWriteRows ==
    ASSUME CatalogStep
    PROVE  \E i \in Items, row \in ItemRow :
              row.version = item[i].version + 1 /\ WriteItem(i, row)
<1>1. ASSUME NEW i \in Items, NEW visibility \in Visibility, CreateCatalogItem(i, visibility)
      PROVE  \E row \in ItemRow : row.version = item[i].version + 1 /\ WriteItem(i, row)
  <2> DEFINE row == [version |-> 1, visibility |-> visibility, archived |-> FALSE]
  <2>1. row \in ItemRow /\ row.version = item[i].version + 1
    BY <1>1 DEF ItemRow, CreateCatalogItem
  <2>2. WriteItem(i, row)
    BY <1>1 DEF CreateCatalogItem
  <2> QED BY <2>1, <2>2
<1>2. ASSUME NEW i \in Items, NEW visibility \in Visibility, NEW archived \in BOOLEAN,
             NEW expectedVersion \in 1..MaxItemVersion,
             UpdateCatalogItem(i, expectedVersion, visibility, archived)
      PROVE  \E row \in ItemRow : row.version = item[i].version + 1 /\ WriteItem(i, row)
  <2> DEFINE row == [version |-> item[i].version + 1, visibility |-> visibility,
                     archived |-> archived]
  <2>1. row \in ItemRow /\ row.version = item[i].version + 1
    BY <1>2, ExpectationsAreNumbers DEF ItemRow, UpdateCatalogItem
  <2>2. WriteItem(i, row)
    BY <1>2 DEF UpdateCatalogItem
  <2> QED BY <2>1, <2>2
<1> QED
  BY <1>1, <1>2 DEF CatalogStep

\* The empty database is well typed.
LEMMA InitTyped == Init => Typed
<1> SUFFICES ASSUME Init PROVE Typed
  OBVIOUS
<1>1. TypeOK
  BY NullRows DEF Init, TypeOK
<1>2. GuidesAreFiled
  BY DEF Init, GuidesAreFiled, NoGuide
<1> QED
  BY <1>1, <1>2 DEF Typed

\* Every step keeps the rows well typed and the guides filed.
LEMMA NextTyped == Typed /\ [Next]_vars => Typed'
<1> SUFFICES ASSUME Typed, [Next]_vars PROVE Typed'
  OBVIOUS
<1>1. CASE CategoryStep
  BY <1>1, CategoryStepsWriteRows, CategoryStepTyped
<1>2. CASE CatalogStep
  BY <1>2, CatalogStepsWriteRows, ItemStepTyped
<1>3. ASSUME NEW g \in Guides, NEW c \in Categories, NEW document \in Documents,
             NEW audience \in Visibility, CreateDraft(g, audience, c, document)
      PROVE  Typed'
  BY <1>3, CreateDraftTyped
<1>4. ASSUME NEW g \in Guides, NEW c \in Categories, NEW document \in Documents,
             NEW expectedVersion \in 1..MaxDraftVersion, SaveDraft(g, expectedVersion, c, document)
      PROVE  Typed'
  BY <1>4, SaveDraftTyped, ExpectationsAreNumbers
<1>5. ASSUME NEW g \in Guides, NEW expected \in Expectation, PublishDraft(g, expected)
      PROVE  Typed'
  BY <1>5, PublishDraftTyped
<1>6. ASSUME NEW g \in Guides, NEW expected \in Expectation, WithdrawGuide(g, expected)
      PROVE  Typed'
  <2> DEFINE new == [guide[g] EXCEPT !.state = "withdrawn"]
             event == [event |-> "withdrawn", release |-> guide[g].currentRelease]
  <2>1. new \in GuideRow /\ event \in Event /\ guide[g] \in GuideRow
    BY PublicationRows DEF Typed, GuideState
  <2>2. new.category = guide[g].category
    BY <2>1 DEF GuideRow
  <2>3. /\ UpdateGuide(g, new)
        /\ Emit(g, event)
        /\ guide[g].state # "absent"
        /\ UNCHANGED <<category, item, snapshot, release, reference>>
    BY <1>6 DEF WithdrawGuide, ExpectedPublication
  <2> QED BY <2>1, <2>2, <2>3, PublicationChangeTyped
<1>7. ASSUME NEW g \in Guides, NEW expected \in Expectation, ReinstateGuide(g, expected)
      PROVE  Typed'
  <2> DEFINE new == [guide[g] EXCEPT !.state = "published"]
             event == [event |-> "reinstated", release |-> guide[g].currentRelease]
  <2>1. new \in GuideRow /\ event \in Event /\ guide[g] \in GuideRow
    BY PublicationRows DEF Typed, GuideState
  <2>2. new.category = guide[g].category
    BY <2>1 DEF GuideRow
  <2>3. /\ UpdateGuide(g, new)
        /\ Emit(g, event)
        /\ guide[g].state # "absent"
        /\ UNCHANGED <<category, item, snapshot, release, reference>>
    BY <1>7 DEF ReinstateGuide, ExpectedPublication
  <2> QED BY <2>1, <2>2, <2>3, PublicationChangeTyped
<1>8. ASSUME NEW g \in Guides, NEW audience \in Visibility, NEW expectedRelease \in 0..MaxDraftVersion,
              SetGuideAudience(g, audience, expectedRelease)
       PROVE  Typed'
  <2> DEFINE new == [guide[g] EXCEPT !.audience = audience]
             event == [event |-> "audience_changed", to |-> audience,
                       release |-> guide[g].currentRelease]
  <2>1. new \in GuideRow /\ event \in Event /\ guide[g] \in GuideRow
    BY PublicationRows DEF Typed
  <2>2. new.category = guide[g].category
    BY <2>1 DEF GuideRow
  <2>3. /\ UpdateGuide(g, new)
        /\ Emit(g, event)
        /\ guide[g].state # "absent"
        /\ UNCHANGED <<category, item, snapshot, release, reference>>
    BY <1>8 DEF SetGuideAudience
  <2> QED BY <2>1, <2>2, <2>3, PublicationChangeTyped
<1>9. CASE UNCHANGED vars
  BY <1>9 DEF vars, Typed, TypeOK, GuidesAreFiled
<1> QED
  BY <1>1, <1>2, <1>3, <1>4, <1>5, <1>6, <1>7, <1>8, <1>9
     DEF Next, DraftStep, PublicationStep

\* The rows keep their columns' domains under every transaction of the store:
\* a category that exists is a category, a draft always names one, and what a
\* release froze from a draft is a row of app.release.
THEOREM TypeCorrect == Spec => []TypeOK
<1>1. Init => Typed
  BY InitTyped
<1>2. Typed /\ [Next]_vars => Typed'
  BY NextTyped
<1>3. Typed => TypeOK
  BY DEF Typed
<1> QED
  BY <1>1, <1>2, <1>3, PTL DEF Spec

-----------------------------------------------------------------------------
(* What each handler leaves behind *)

\* Only guide g's row changed.
OnlyGuide(g) ==
    /\ \A h \in Guides \ {g} : guide'[h] = guide[h] /\ release'[h] = release[h]
    /\ UNCHANGED <<category, item, snapshot>>

\* What creating a draft changes of the guides and their releases.
LEMMA CreateDraftEffect ==
    ASSUME Typed, NEW g \in Guides, NEW audience \in Visibility, NEW c \in Categories,
           NEW document \in Documents, CreateDraft(g, audience, c, document)
    PROVE  /\ OnlyGuide(g)
           /\ guide[g].state = "absent"
           /\ guide'[g].state = "draft"
           /\ guide'[g].audience = audience
           /\ guide'[g].category = c
           /\ guide'[g].currentRelease = 0
           /\ guide'[g].publishedVersion = 0
           /\ guide'[g].version = 1
           /\ guide'[g].revision = 0
           /\ guide'[g].requirements = document
           /\ release'[g] = release[g]
           /\ reference' = Projected(g, 0, document)
BY DEF Typed, TypeOK, CreateDraft, OnlyGuide, NoGuide

\* What saving a draft changes: nothing that was published.
LEMMA SaveDraftEffect ==
    ASSUME Typed, NEW g \in Guides, NEW expectedVersion \in Nat, NEW c \in Categories,
           NEW document \in Documents, SaveDraft(g, expectedVersion, c, document)
    PROVE  /\ OnlyGuide(g)
           /\ guide[g].state # "absent"
           /\ guide[g].version = expectedVersion
           /\ guide'[g].state = guide[g].state
           /\ guide'[g].audience = guide[g].audience
           /\ guide'[g].category = c
           /\ guide'[g].currentRelease = guide[g].currentRelease
           /\ guide'[g].publishedVersion = guide[g].publishedVersion
           /\ guide'[g].version = guide[g].version + 1
           /\ guide'[g].revision = guide[g].revision
           /\ guide'[g].requirements = document
           /\ release'[g] = release[g]
           /\ reference' = Projected(g, 0, document)
<1> DEFINE new == [guide[g] EXCEPT !.version = @ + 1, !.category = c,
                                   !.requirements = document]
<1>1. document \in SUBSET Requirement
  BY DocumentsAssumption
<1>2. guide[g] \in GuideRow /\ guide[g].version + 1 \in Nat
  BY DEF Typed, TypeOK, GuideRow
<1>3. c \in Categories \cup {Nowhere}
  OBVIOUS
<1>4. /\ new \in GuideRow
      /\ new.state = guide[g].state
      /\ new.audience = guide[g].audience
      /\ new.currentRelease = guide[g].currentRelease
      /\ new.publishedVersion = guide[g].publishedVersion
      /\ new.version = guide[g].version + 1
      /\ new.revision = guide[g].revision
      /\ new.category = c
      /\ new.requirements = document
  BY <1>1, <1>2, <1>3 DEF GuideRow
<1>5. UpdateGuide(g, new) /\ expectedVersion = guide[g].version /\ guide[g].state # "absent"
  BY DEF SaveDraft
<1>6. UNCHANGED <<category, item, snapshot, release>> /\ reference' = Projected(g, 0, document)
  BY DEF SaveDraft
<1> HIDE DEF new
<1>7. SamePublication(guide[g], new)
  BY <1>4 DEF SamePublication
<1> QED
  BY <1>4, <1>5, <1>6, <1>7, UpdateGuideEffect DEF Typed, OnlyGuide

\* What publishing changes: one more release, of the present draft.
LEMMA PublishDraftEffect ==
    ASSUME Typed, NEW g \in Guides, NEW expected \in Expectation, PublishDraft(g, expected)
    PROVE  /\ OnlyGuide(g)
           /\ guide[g].state # "absent"
           /\ guide'[g].state = "published"
           /\ guide'[g].audience = guide[g].audience
           /\ guide'[g].category = guide[g].category
           /\ guide'[g].currentRelease = guide[g].currentRelease + 1
           /\ guide[g].publishedVersion # guide[g].version
           /\ guide'[g].publishedVersion = guide[g].version
           /\ guide'[g].version = guide[g].version
           /\ guide'[g].revision = guide[g].revision + 1
           /\ guide'[g].requirements = guide[g].requirements
           /\ release'[g] = Append(release[g],
                [draftVersion |-> guide[g].version, category |-> guide[g].category,
                 requirements |-> guide[g].requirements])
           /\ Selectable(guide[g].category, guide[g].audience = "public")
           /\ RequirementsValid(guide[g].requirements, guide[g].requirements,
                                guide[g].audience = "public")
           /\ reference' = Projected(g, guide[g].currentRelease + 1, guide[g].requirements)
<1> DEFINE number == guide[g].currentRelease + 1
           new == [guide[g] EXCEPT !.currentRelease = number, !.state = "published",
                                   !.publishedVersion = guide[g].version]
<1>1. guide[g] \in GuideRow
  BY DEF Typed, TypeOK
<1>2. number \in Nat /\ number # guide[g].currentRelease
  BY <1>1 DEF GuideRow
<1>3. /\ new \in GuideRow
      /\ new.state = "published"
      /\ new.audience = guide[g].audience
      /\ new.currentRelease = number
      /\ new.publishedVersion = guide[g].version
      /\ new.version = guide[g].version
      /\ new.category = guide[g].category
      /\ new.requirements = guide[g].requirements
  BY <1>1, <1>2 DEF GuideRow, GuideState
<1>4. UpdateGuide(g, new)
  BY DEF PublishDraft
<1> HIDE DEF new
<1>5. ~SamePublication(guide[g], new)
  BY <1>2, <1>3 DEF SamePublication
<1>6. /\ guide'[g].state = "published"
      /\ guide'[g].audience = guide[g].audience
      /\ guide'[g].currentRelease = number
      /\ guide'[g].publishedVersion = guide[g].version
      /\ guide'[g].version = guide[g].version
      /\ guide'[g].revision = guide[g].revision + 1
      /\ guide'[g].category = guide[g].category
      /\ guide'[g].requirements = guide[g].requirements
      /\ \A h \in Guides \ {g} : guide'[h] = guide[h]
  BY <1>3, <1>4, <1>5, UpdateGuideEffect DEF Typed
<1>7. /\ release'[g] = Append(release[g],
           [draftVersion |-> guide[g].version, category |-> guide[g].category,
            requirements |-> guide[g].requirements])
      /\ \A h \in Guides \ {g} : release'[h] = release[h]
  BY DEF Typed, TypeOK, PublishDraft
<1>8. UNCHANGED <<category, item, snapshot>>
  BY DEF PublishDraft
<1>9. guide[g].state # "absent" /\ guide[g].publishedVersion # guide[g].version
  BY DEF PublishDraft, Publishable
<1>10. /\ Selectable(guide[g].category, guide[g].audience = "public")
       /\ RequirementsValid(guide[g].requirements, guide[g].requirements,
                            guide[g].audience = "public")
       /\ reference' = Projected(g, number, guide[g].requirements)
  BY DEF PublishDraft
<1> QED
  BY <1>6, <1>7, <1>8, <1>9, <1>10 DEF OnlyGuide

\* Withdrawing, reinstating and moving between the sections.
LEMMA PublicationChangeEffect ==
    ASSUME Typed, NEW g \in Guides, NEW new \in GuideRow,
           new.version = guide[g].version,
           new.currentRelease = guide[g].currentRelease,
           new.publishedVersion = guide[g].publishedVersion,
           new.category = guide[g].category,
           new.requirements = guide[g].requirements,
           ~SamePublication(guide[g], new),
           UpdateGuide(g, new), UNCHANGED <<category, item, snapshot, release, reference>>
    PROVE  /\ OnlyGuide(g)
           /\ guide'[g].state = new.state
           /\ guide'[g].audience = new.audience
           /\ guide'[g].currentRelease = guide[g].currentRelease
           /\ guide'[g].publishedVersion = guide[g].publishedVersion
           /\ guide'[g].version = guide[g].version
           /\ guide'[g].revision = guide[g].revision + 1
           /\ guide'[g].category = guide[g].category
           /\ guide'[g].requirements = guide[g].requirements
           /\ release'[g] = release[g]
           /\ reference' = reference
BY UpdateGuideEffect DEF Typed, OnlyGuide

\* UPDATE app.guide stops at the bound on revisions.
LEMMA RevisionsAreBounded ==
    ASSUME TypeOK, NEW g \in Guides, NEW new, UpdateGuide(g, new)
    PROVE  guide'[g].revision <= MaxRevision
BY DEF TypeOK, UpdateGuide

\* What withdrawing changes: the state alone.
LEMMA WithdrawGuideEffect ==
    ASSUME Typed, NEW g \in Guides, NEW expected \in Expectation, WithdrawGuide(g, expected)
    PROVE  /\ OnlyGuide(g)
           /\ guide[g].state = "published"
           /\ guide'[g].state = "withdrawn"
           /\ guide'[g].audience = guide[g].audience
           /\ guide'[g].currentRelease = guide[g].currentRelease
           /\ guide'[g].publishedVersion = guide[g].publishedVersion
           /\ guide'[g].version = guide[g].version
           /\ guide'[g].revision = guide[g].revision + 1
           /\ guide'[g].category = guide[g].category
           /\ guide'[g].requirements = guide[g].requirements
           /\ release'[g] = release[g]
           /\ reference' = reference
<1> DEFINE new == [guide[g] EXCEPT !.state = "withdrawn"]
<1>1. guide[g] \in GuideRow /\ new \in GuideRow
  BY PublicationRows DEF Typed, GuideState
<1>2. /\ new.state = "withdrawn"
      /\ new.audience = guide[g].audience
      /\ new.version = guide[g].version
      /\ new.currentRelease = guide[g].currentRelease
      /\ new.publishedVersion = guide[g].publishedVersion
      /\ new.category = guide[g].category
      /\ new.requirements = guide[g].requirements
  BY <1>1 DEF GuideRow
<1>3. /\ UpdateGuide(g, new)
      /\ guide[g].state = "published"
      /\ UNCHANGED <<category, item, snapshot, release, reference>>
  BY DEF WithdrawGuide, ExpectedPublication
<1> HIDE DEF new
<1>4. ~SamePublication(guide[g], new)
  BY <1>2, <1>3 DEF SamePublication
<1> QED
  BY <1>1, <1>2, <1>3, <1>4, PublicationChangeEffect

\* What reinstating changes: the state alone, with nothing in its way.
LEMMA ReinstateGuideEffect ==
    ASSUME Typed, NEW g \in Guides, NEW expected \in Expectation, ReinstateGuide(g, expected)
    PROVE  /\ OnlyGuide(g)
           /\ guide[g].state = "withdrawn"
           /\ guide'[g].state = "published"
           /\ guide'[g].audience = guide[g].audience
           /\ guide'[g].currentRelease = guide[g].currentRelease
           /\ guide'[g].publishedVersion = guide[g].publishedVersion
           /\ guide'[g].version = guide[g].version
           /\ guide'[g].revision = guide[g].revision + 1
           /\ guide'[g].category = guide[g].category
           /\ guide'[g].requirements = guide[g].requirements
           /\ release'[g] = release[g]
           /\ reference' = reference
           /\ NoReinstateBlockers(g)
<1> DEFINE new == [guide[g] EXCEPT !.state = "published"]
<1>1. guide[g] \in GuideRow /\ new \in GuideRow
  BY PublicationRows DEF Typed, GuideState
<1>2. /\ new.state = "published"
      /\ new.audience = guide[g].audience
      /\ new.version = guide[g].version
      /\ new.currentRelease = guide[g].currentRelease
      /\ new.publishedVersion = guide[g].publishedVersion
      /\ new.category = guide[g].category
      /\ new.requirements = guide[g].requirements
  BY <1>1 DEF GuideRow
<1>3. /\ UpdateGuide(g, new)
      /\ guide[g].state = "withdrawn"
      /\ NoReinstateBlockers(g)
      /\ UNCHANGED <<category, item, snapshot, release, reference>>
  BY DEF ReinstateGuide, ExpectedPublication
<1> HIDE DEF new
<1>4. ~SamePublication(guide[g], new)
  BY <1>2, <1>3 DEF SamePublication
<1> QED
  BY <1>1, <1>2, <1>3, <1>4, PublicationChangeEffect

\* What a move between the sections changes: the audience alone.
LEMMA SetGuideAudienceEffect ==
    ASSUME Typed, NEW g \in Guides, NEW audience \in Visibility,
           NEW expectedRelease \in Nat, SetGuideAudience(g, audience, expectedRelease)
    PROVE  /\ OnlyGuide(g)
           /\ guide[g].state \notin {"absent", "withdrawn"}
           /\ guide'[g].state = guide[g].state
           /\ guide'[g].audience = audience
           /\ guide'[g].currentRelease = guide[g].currentRelease
           /\ guide'[g].publishedVersion = guide[g].publishedVersion
           /\ guide'[g].version = guide[g].version
           /\ guide'[g].revision = guide[g].revision + 1
           /\ guide'[g].category = guide[g].category
           /\ guide'[g].requirements = guide[g].requirements
           /\ release'[g] = release[g]
           /\ reference' = reference
           /\ audience = "public" => NoPublicBlockers(g)
<1> DEFINE new == [guide[g] EXCEPT !.audience = audience]
<1>1. guide[g] \in GuideRow /\ new \in GuideRow
  BY PublicationRows DEF Typed
<1>2. /\ new.state = guide[g].state
      /\ new.audience = audience
      /\ new.version = guide[g].version
      /\ new.currentRelease = guide[g].currentRelease
      /\ new.publishedVersion = guide[g].publishedVersion
      /\ new.category = guide[g].category
      /\ new.requirements = guide[g].requirements
  BY <1>1 DEF GuideRow
<1>3. /\ UpdateGuide(g, new)
      /\ guide[g].state \notin {"absent", "withdrawn"}
      /\ guide[g].audience # audience
      /\ UNCHANGED <<category, item, snapshot, release, reference>>
  BY DEF SetGuideAudience
<1> HIDE DEF new
<1>4. ~SamePublication(guide[g], new)
  BY <1>2, <1>3 DEF SamePublication
<1>5. audience = "public" => NoPublicBlockers(g)
  BY <1>2, <1>3 DEF UpdateGuide, AudienceAccepted
<1> QED
  BY <1>1, <1>2, <1>3, <1>4, <1>5, PublicationChangeEffect

\* WriteCategory leaves everything but one category row alone.
LEMMA WriteCategoryEffect ==
    ASSUME Typed, NEW c \in Categories, NEW row \in CategoryRow, WriteCategory(c, row)
    PROVE  /\ category'[c] = row
           /\ \A x \in Categories \ {c} : category'[x] = category[x]
           /\ UNCHANGED <<item, snapshot, guide, release, reference>>
           /\ PlaceAccepted(c, row)
           /\ VisibilityAccepted(c, row)
           /\ ArchiveAccepted(c, row)
BY DEF Typed, TypeOK, WriteCategory

\* What writing an item changes.
LEMMA WriteItemEffect ==
    ASSUME Typed, NEW i \in Items, NEW row \in ItemRow, WriteItem(i, row)
    PROVE  /\ item'[i] = row
           /\ snapshot'[i] = Append(snapshot[i], row.visibility)
           /\ \A x \in Items \ {i} : item'[x] = item[x] /\ snapshot'[x] = snapshot[x]
           /\ UNCHANGED <<category, guide, release, reference>>
BY DEF Typed, TypeOK, WriteItem

-----------------------------------------------------------------------------
(* Releases follow drafts *)

\* Numbering, said of one guide: what ReleasesFollowDrafts says of all.
Numbered(g) ==
    /\ guide[g].currentRelease = Len(release[g])
    /\ guide[g].state \in {"published", "withdrawn"} <=> release[g] # <<>>
    /\ \A m, n \in DOMAIN release[g] : m < n => release[g][m].draftVersion < release[g][n].draftVersion
    /\ guide[g].publishedVersion =
         IF release[g] = <<>> THEN 0 ELSE release[g][Len(release[g])].draftVersion
    /\ guide[g].publishedVersion <= guide[g].version

\* A guide whose publication fields and releases stay keeps its numbering.
LEMMA NumberingStays ==
    ASSUME Typed, NEW g \in Guides, Numbered(g),
           release'[g] = release[g],
           guide'[g].currentRelease = guide[g].currentRelease,
           guide'[g].publishedVersion = guide[g].publishedVersion,
           guide'[g].version \in {guide[g].version, guide[g].version + 1},
           guide'[g].state \in {"published", "withdrawn"}
              <=> guide[g].state \in {"published", "withdrawn"}
    PROVE  Numbered(g)'
<1>1. guide[g].version \in Nat /\ guide[g].publishedVersion \in Nat
  BY DEF Typed, TypeOK, GuideRow
<1> QED
  BY <1>1 DEF Numbered

\* A release made from a later draft continues the numbering.
LEMMA NumberingGrows ==
    ASSUME Typed, NEW g \in Guides, NEW expected \in Expectation, Numbered(g),
           PublishDraft(g, expected)
    PROVE  Numbered(g)'
<1> DEFINE rs == release[g]
           row == [draftVersion |-> guide[g].version, category |-> guide[g].category,
                   requirements |-> guide[g].requirements]
<1>1. /\ guide[g].version \in Nat
      /\ guide[g].publishedVersion \in Nat
      /\ guide[g].currentRelease \in Nat
  BY DEF Typed, TypeOK, GuideRow
<1>2. rs \in Seq(ReleaseRow)
  BY DEF Typed, TypeOK
<1>3. /\ guide'[g].state = "published"
      /\ guide'[g].currentRelease = guide[g].currentRelease + 1
      /\ guide[g].publishedVersion < guide[g].version
      /\ guide'[g].publishedVersion = guide[g].version
      /\ guide'[g].version = guide[g].version
      /\ release'[g] = Append(rs, row)
  <2>1. guide[g].publishedVersion <= guide[g].version
    BY DEF Numbered
  <2>2. /\ guide'[g].state = "published"
        /\ guide'[g].currentRelease = guide[g].currentRelease + 1
        /\ guide[g].publishedVersion # guide[g].version
        /\ guide'[g].publishedVersion = guide[g].version
        /\ guide'[g].version = guide[g].version
        /\ release'[g] = Append(rs, row)
    BY PublishDraftEffect
  <2> QED BY <1>1, <2>1, <2>2
<1>4. row \in ReleaseRow
  <2>1. guide[g] \in GuideRow /\ guide[g].category \in Categories
    BY DEF Typed, TypeOK, GuidesAreFiled, PublishDraft, Publishable
  <2> QED BY <2>1 DEF GuideRow, ReleaseRow
<1>5. row.draftVersion = guide[g].version
  OBVIOUS
<1> HIDE DEF row
<1>6. /\ Len(Append(rs, row)) = Len(rs) + 1
      /\ Append(rs, row)[Len(rs) + 1] = row
      /\ \A m \in DOMAIN rs : Append(rs, row)[m] = rs[m]
      /\ DOMAIN Append(rs, row) = 1..(Len(rs) + 1)
      /\ DOMAIN rs = 1..Len(rs)
      /\ Append(rs, row) # <<>>
  BY <1>2, <1>4
<1>7. \A m \in DOMAIN rs : rs[m].draftVersion \in Nat
  <2>1. \A m \in DOMAIN rs : rs[m] \in ReleaseRow
    BY <1>2
  <2> HIDE DEF rs
  <2> QED BY <2>1 DEF ReleaseRow
<1>8. \A m \in DOMAIN rs : rs[m].draftVersion < guide[g].version
  <2> SUFFICES ASSUME NEW m \in DOMAIN rs PROVE rs[m].draftVersion < guide[g].version
    OBVIOUS
  <2>1. rs # <<>> /\ Len(rs) \in DOMAIN rs /\ Len(rs) \in Nat /\ m \in 1..Len(rs)
    BY <1>2, <1>6
  <2>2. rs[Len(rs)].draftVersion < guide[g].version
    BY <1>3, <2>1 DEF Numbered
  <2>3. CASE m = Len(rs)
    BY <2>2, <2>3
  <2>4. CASE m < Len(rs)
    <3>1. rs[m].draftVersion < rs[Len(rs)].draftVersion
      BY <2>1, <2>4 DEF Numbered
    <3> QED BY <1>1, <1>7, <2>1, <2>2, <3>1
  <2> QED BY <2>1, <2>3, <2>4
<1>9. \A m, n \in DOMAIN release'[g] :
        m < n => release'[g][m].draftVersion < release'[g][n].draftVersion
  <2> SUFFICES ASSUME NEW m \in 1..(Len(rs) + 1), NEW n \in 1..(Len(rs) + 1), m < n
               PROVE  Append(rs, row)[m].draftVersion < Append(rs, row)[n].draftVersion
    BY <1>3, <1>6
  <2>0. Len(rs) \in Nat
    BY <1>2
  <2>1. m \in DOMAIN rs
    BY <1>6, <2>0
  <2>2. CASE n = Len(rs) + 1
    BY <1>5, <1>6, <1>8, <2>1, <2>2
  <2>3. CASE n \in DOMAIN rs
    BY <1>6, <2>1, <2>3 DEF Numbered
  <2> QED BY <1>6, <2>0, <2>2, <2>3
<1>10. guide'[g].currentRelease = Len(release'[g])
  BY <1>3, <1>6 DEF Numbered
<1>11. guide'[g].publishedVersion = release'[g][Len(release'[g])].draftVersion
  BY <1>3, <1>5, <1>6
<1>12. release'[g] # <<>> /\ guide'[g].publishedVersion <= guide'[g].version
  BY <1>1, <1>3, <1>6
<1> QED
  BY <1>3, <1>9, <1>10, <1>11, <1>12 DEF Numbered

\* Only the publication changes that keep the release touch its state.
LEMMA NextNumbered ==
    ASSUME Typed, ReleasesFollowDrafts, [Next]_vars
    PROVE  ReleasesFollowDrafts'
<1>0. \A g \in Guides : Numbered(g)
  BY DEF ReleasesFollowDrafts, Numbered
<1> DEFINE Goal == \A g \in Guides : Numbered(g)'
<1> SUFFICES Goal
  BY DEF ReleasesFollowDrafts, Numbered
<1>1. ASSUME UNCHANGED <<guide, release>> PROVE Goal
  BY <1>0, <1>1 DEF Numbered
<1>2. ASSUME NEW g \in Guides, OnlyGuide(g), Numbered(g)' PROVE Goal
  <2> SUFFICES ASSUME NEW h \in Guides \ {g} PROVE Numbered(h)'
    BY <1>2
  <2> QED BY <1>0, <1>2 DEF OnlyGuide, Numbered
<1> HIDE DEF Goal
<1>3. CASE CategoryStep \/ CatalogStep \/ UNCHANGED vars
  <2>1. UNCHANGED <<guide, release>>
    BY <1>3, CategoryStepsWriteRows, CatalogStepsWriteRows DEF WriteCategory, WriteItem, vars
  <2> QED BY <1>1, <2>1
<1>4. ASSUME NEW g \in Guides, NEW c \in Categories, NEW document \in Documents,
             NEW audience \in Visibility, CreateDraft(g, audience, c, document)
      PROVE  Goal
  <2>1. /\ OnlyGuide(g)
        /\ guide[g].state = "absent"
        /\ guide'[g].state = "draft"
        /\ guide'[g].currentRelease = 0
        /\ guide'[g].publishedVersion = 0
        /\ guide'[g].version = 1
        /\ release'[g] = release[g]
    BY <1>4, CreateDraftEffect
  <2>2. release[g] = <<>> /\ Len(release[g]) = 0
    BY <1>0, <2>1 DEF Numbered
  <2> QED BY <1>2, <2>1, <2>2 DEF Numbered
<1>5. ASSUME NEW g \in Guides, NEW c \in Categories, NEW document \in Documents,
             NEW expectedVersion \in 1..MaxDraftVersion, SaveDraft(g, expectedVersion, c, document)
      PROVE  Goal
  <2>1. /\ OnlyGuide(g)
        /\ guide'[g].state = guide[g].state
        /\ guide'[g].currentRelease = guide[g].currentRelease
        /\ guide'[g].publishedVersion = guide[g].publishedVersion
        /\ guide'[g].version = guide[g].version + 1
        /\ release'[g] = release[g]
    BY <1>5, SaveDraftEffect, ExpectationsAreNumbers
  <2>2. Numbered(g)'
    BY <1>0, <2>1, NumberingStays
  <2> QED BY <1>2, <2>1, <2>2
<1>6. ASSUME NEW g \in Guides, NEW expected \in Expectation, PublishDraft(g, expected)
      PROVE  Goal
  BY <1>0, <1>2, <1>6, PublishDraftEffect, NumberingGrows
<1>7. ASSUME NEW g \in Guides, NEW expected \in Expectation, WithdrawGuide(g, expected)
      PROVE  Goal
  BY <1>0, <1>2, <1>7, WithdrawGuideEffect, NumberingStays
<1>8. ASSUME NEW g \in Guides, NEW expected \in Expectation, ReinstateGuide(g, expected)
      PROVE  Goal
  BY <1>0, <1>2, <1>8, ReinstateGuideEffect, NumberingStays
<1>9. ASSUME NEW g \in Guides, NEW audience \in Visibility, NEW expectedRelease \in 0..MaxDraftVersion,
             SetGuideAudience(g, audience, expectedRelease)
      PROVE  Goal
  BY <1>0, <1>2, <1>9, SetGuideAudienceEffect, NumberingStays, ExpectationsAreNumbers
<1> QED
  BY <1>3, <1>4, <1>5, <1>6, <1>7, <1>8, <1>9 DEF Next, DraftStep, PublicationStep

\* No releases are numbered rightly.
LEMMA InitNumbered == Init => ReleasesFollowDrafts
<1> SUFFICES ASSUME Init, NEW g \in Guides PROVE Numbered(g)
  BY DEF ReleasesFollowDrafts, Numbered
<1>1. release[g] = <<>> /\ guide[g] = NoGuide
  BY DEF Init
<1>2. Len(release[g]) = 0 /\ DOMAIN release[g] = {}
  BY <1>1
<1> QED
  BY <1>1, <1>2 DEF Numbered, NoGuide

\* Releases never skip a number, never repeat a draft and never go back to an
\* older one, however saves, publications, withdrawals and reinstatements mix.
THEOREM NumberingIsFaithful == Spec => []ReleasesFollowDrafts
<1>1. Init => Typed /\ ReleasesFollowDrafts
  BY InitTyped, InitNumbered
<1>2. Typed /\ ReleasesFollowDrafts /\ [Next]_vars => (Typed /\ ReleasesFollowDrafts)'
  BY NextTyped, NextNumbered
<1> QED
  BY <1>1, <1>2, PTL DEF Spec

-----------------------------------------------------------------------------
(* Public guides are readable *)

\* A public category has a public parent, in a public workspace.
PublicUnderPublic == \A c \in Categories : category[c].visibility = "public" =>
    /\ WorkspaceAudience = "public"
    /\ category[c].parent # Nowhere => category[category[c].parent].visibility = "public"

\* The current release of a guide published to the public is filed under a
\* public category.
PublicReleasesFiledPublic == \A g \in Guides :
    PublishedTo(g, "public") => category[CurrentRelease(g).category].visibility = "public"

Readable == PublicUnderPublic /\ PublicReleasesFiledPublic

\* The walks start at the category itself.
LEMMA ChainStartsHere == ASSUME NEW c \in Categories PROVE c \in Chain(c)
BY DEF Chain

\* With public parents all the way, a public category's whole chain is public:
\* the public categories are a set the walk cannot leave.
LEMMA PublicChains ==
    ASSUME TypeOK, PublicUnderPublic, NEW c \in Categories, category[c].visibility = "public"
    PROVE  ChainIsPublic(c)
<1> DEFINE S == {x \in Categories : category[x].visibility = "public"}
<1>1. S \in SUBSET Categories /\ c \in S
  OBVIOUS
<1>2. UpClosed(S)
  <2>1. \A x \in Categories : category[x].parent \in Categories \cup {Nowhere}
    BY DEF TypeOK, CategoryRow
  <2> QED BY <2>1 DEF UpClosed, PublicUnderPublic
<1>3. Chain(c) \subseteq S
  BY <1>1, <1>2 DEF Chain
<1> QED
  BY <1>3 DEF ChainIsPublic

\* A published guide has a current release, filed under a category.
LEMMA PublishedHasRelease ==
    ASSUME Typed, ReleasesFollowDrafts, NEW g \in Guides,
           guide[g].state \in {"published", "withdrawn"}
    PROVE  /\ guide[g].currentRelease \in DOMAIN release[g]
           /\ guide[g].currentRelease # 0
           /\ CurrentRelease(g) \in ReleaseRow
           /\ CurrentRelease(g).category \in Categories
<1>1. /\ release[g] \in Seq(ReleaseRow)
      /\ release[g] # <<>>
      /\ guide[g].currentRelease = Len(release[g])
  BY DEF Typed, TypeOK, ReleasesFollowDrafts
<1>2. guide[g].currentRelease \in DOMAIN release[g] /\ guide[g].currentRelease # 0
  BY <1>1
<1>3. CurrentRelease(g) \in ReleaseRow
  BY <1>1, <1>2 DEF CurrentRelease
<1> QED
  BY <1>2, <1>3 DEF ReleaseRow

\* The strengthening says what it should: a whole public chain above the release.
LEMMA ReadableShown ==
    ASSUME Typed, ReleasesFollowDrafts, Readable
    PROVE  PublicGuidesAreReadable
<1> SUFFICES ASSUME NEW g \in Guides, PublishedTo(g, "public") PROVE VisitorReads(g)
  BY DEF PublicGuidesAreReadable
<1> DEFINE c == CurrentRelease(g).category
<1>1. c \in Categories
  BY PublishedHasRelease DEF PublishedTo
<1>2. category[c].visibility = "public"
  BY DEF Readable, PublicReleasesFiledPublic
<1>3. ChainIsPublic(c)
  BY <1>1, <1>2, PublicChains DEF Typed, Readable
<1> QED
  BY <1>1, <1>2, <1>3 DEF VisitorReads, VisitorReadsCategory, Readable, PublicUnderPublic

\* The trigger check_category_tree keeps public categories under public ones
\* and under public releases.
LEMMA WriteCategoryReadable ==
    ASSUME Typed, ReleasesFollowDrafts, Readable,
           NEW c \in Categories, NEW row \in CategoryRow, WriteCategory(c, row)
    PROVE  Readable'
<1>1. /\ category'[c] = row
      /\ \A x \in Categories \ {c} : category'[x] = category[x]
      /\ UNCHANGED <<guide, release>>
      /\ PlaceAccepted(c, row)
      /\ VisibilityAccepted(c, row)
  BY WriteCategoryEffect
<1>2. /\ row.parent \in Categories \cup {Nowhere}
      /\ row.visibility \in {"public", "members"}
      /\ \A x \in Categories : category[x].parent \in Categories \cup {Nowhere}
      /\ \A x \in Categories : category[x].visibility \in {"public", "members"}
  BY DEF Typed, TypeOK, CategoryRow, Visibility
<1>3. row.parent # c
  BY <1>1, ChainStartsHere, NowhereAssumption DEF PlaceAccepted
<1>4. PublicUnderPublic'
  <2> SUFFICES ASSUME NEW x \in Categories, category'[x].visibility = "public"
               PROVE  /\ WorkspaceAudience = "public"
                      /\ category'[x].parent # Nowhere =>
                           category'[category'[x].parent].visibility = "public"
    BY DEF PublicUnderPublic
  <2>1. CASE x = c
    BY <1>1, <1>2, <1>3, <2>1 DEF VisibilityAccepted
  <2>2. CASE x # c /\ category[x].parent # c
    BY <1>1, <1>2, <2>2 DEF Readable, PublicUnderPublic
  <2>3. CASE x # c /\ category[x].parent = c
    <3>1. category[x].visibility = "public" /\ category[c].visibility = "public"
      BY <1>1, <2>3, NowhereAssumption DEF Readable, PublicUnderPublic
    <3>2. row.visibility = "public"
      BY <1>1, <1>2, <2>3, <3>1 DEF VisibilityAccepted, Children
    <3> QED BY <1>1, <2>3, <3>1, <3>2 DEF Readable, PublicUnderPublic
  <2> QED BY <2>1, <2>2, <2>3
<1>5. PublicReleasesFiledPublic'
  <2> SUFFICES ASSUME NEW g \in Guides, PublishedTo(g, "public")
               PROVE  category'[CurrentRelease(g).category].visibility = "public"
    BY <1>1 DEF PublicReleasesFiledPublic, PublishedTo, CurrentRelease
  <2>1. /\ CurrentRelease(g).category \in Categories
        /\ category[CurrentRelease(g).category].visibility = "public"
    BY PublishedHasRelease DEF PublishedTo, Readable, PublicReleasesFiledPublic
  <2>2. CASE CurrentRelease(g).category = c
    BY <1>1, <1>2, <2>1, <2>2 DEF VisibilityAccepted
  <2>3. CASE CurrentRelease(g).category # c
    BY <1>1, <2>1, <2>3
  <2> QED BY <2>2, <2>3
<1> QED
  BY <1>4, <1>5 DEF Readable

\* A guide whose release stays is as readable as it was, if it was public.
LEMMA ReadableStays ==
    ASSUME Readable, NEW g \in Guides, OnlyGuide(g), release'[g] = release[g],
           guide'[g].currentRelease = guide[g].currentRelease,
           PublishedTo(g, "public")' =>
               category[CurrentRelease(g).category].visibility = "public"
    PROVE  Readable'
<1>1. PublicUnderPublic'
  BY DEF Readable, PublicUnderPublic, OnlyGuide
<1>2. PublicReleasesFiledPublic'
  <2> SUFFICES ASSUME NEW h \in Guides, PublishedTo(h, "public")'
               PROVE  category'[CurrentRelease(h)'.category].visibility = "public"
    BY DEF PublicReleasesFiledPublic
  <2>1. CASE h = g
    BY <2>1 DEF CurrentRelease, OnlyGuide
  <2>2. CASE h # g
    BY <2>2 DEF Readable, PublicReleasesFiledPublic, PublishedTo, CurrentRelease, OnlyGuide
  <2> QED BY <2>1, <2>2
<1> QED
  BY <1>1, <1>2 DEF Readable

\* What publishing reads is what it files: the draft's category, public if the
\* guide is.
LEMMA PublishDraftReadable ==
    ASSUME Typed, ReleasesFollowDrafts, Readable,
           NEW g \in Guides, NEW expected \in Expectation, PublishDraft(g, expected)
    PROVE  Readable'
<1> DEFINE row == [draftVersion |-> guide[g].version, category |-> guide[g].category,
                   requirements |-> guide[g].requirements]
<1>1. /\ OnlyGuide(g)
      /\ guide'[g].audience = guide[g].audience
      /\ guide'[g].currentRelease = Len(release[g]) + 1
      /\ release'[g] = Append(release[g], row)
      /\ Selectable(guide[g].category, guide[g].audience = "public")
  BY PublishDraftEffect DEF ReleasesFollowDrafts
<1>2. CurrentRelease(g)' = row
  <2>1. release[g] \in Seq(ReleaseRow)
    BY DEF Typed, TypeOK
  <2>2. Append(release[g], row)[Len(release[g]) + 1] = row
    BY <2>1
  <2> QED BY <1>1, <2>2 DEF CurrentRelease
<1>3. PublicUnderPublic'
  BY <1>1 DEF Readable, PublicUnderPublic, OnlyGuide
<1>4. PublicReleasesFiledPublic'
  <2> SUFFICES ASSUME NEW h \in Guides, PublishedTo(h, "public")'
               PROVE  category'[CurrentRelease(h)'.category].visibility = "public"
    BY DEF PublicReleasesFiledPublic
  <2>1. CASE h = g
    BY <1>1, <1>2, <2>1 DEF PublishedTo, Selectable, OnlyGuide
  <2>2. CASE h # g
    BY <1>1, <2>2 DEF Readable, PublicReleasesFiledPublic, PublishedTo, CurrentRelease, OnlyGuide
  <2> QED BY <2>1, <2>2
<1> QED
  BY <1>3, <1>4 DEF Readable

\* Every step keeps public what public releases are filed under.
LEMMA NextReadable ==
    ASSUME Typed, ReleasesFollowDrafts, Readable, [Next]_vars
    PROVE  Readable'
<1>1. CASE CategoryStep
  BY <1>1, CategoryStepsWriteRows, WriteCategoryReadable
<1>2. CASE CatalogStep \/ UNCHANGED vars
  <2>1. UNCHANGED <<category, guide, release>>
    BY <1>2, CatalogStepsWriteRows DEF WriteItem, vars
  <2> QED BY <2>1 DEF Readable, PublicUnderPublic, PublicReleasesFiledPublic, PublishedTo,
                      CurrentRelease
<1>3. ASSUME NEW g \in Guides, NEW c \in Categories, NEW document \in Documents,
             NEW audience \in Visibility, CreateDraft(g, audience, c, document)
      PROVE  Readable'
  <2>1. /\ OnlyGuide(g)
        /\ guide'[g].state = "draft"
        /\ guide'[g].currentRelease = 0
        /\ release'[g] = release[g]
        /\ guide[g].state = "absent"
    BY <1>3, CreateDraftEffect
  <2>2. guide[g].currentRelease = 0
    BY <2>1 DEF Typed, TypeOK, ReleasesFollowDrafts
  <2> QED BY <2>1, <2>2, ReadableStays DEF PublishedTo
<1>4. ASSUME NEW g \in Guides, NEW c \in Categories, NEW document \in Documents,
             NEW expectedVersion \in 1..MaxDraftVersion, SaveDraft(g, expectedVersion, c, document)
      PROVE  Readable'
  <2>1. /\ OnlyGuide(g)
        /\ guide'[g].state = guide[g].state
        /\ guide'[g].audience = guide[g].audience
        /\ guide'[g].currentRelease = guide[g].currentRelease
        /\ release'[g] = release[g]
    BY <1>4, SaveDraftEffect, ExpectationsAreNumbers
  <2> QED BY <2>1, ReadableStays DEF PublishedTo, Readable, PublicReleasesFiledPublic
<1>5. ASSUME NEW g \in Guides, NEW expected \in Expectation, PublishDraft(g, expected)
      PROVE  Readable'
  BY <1>5, PublishDraftReadable
<1>6. ASSUME NEW g \in Guides, NEW expected \in Expectation, WithdrawGuide(g, expected)
      PROVE  Readable'
  <2>1. /\ OnlyGuide(g)
        /\ guide'[g].state = "withdrawn"
        /\ guide'[g].currentRelease = guide[g].currentRelease
        /\ release'[g] = release[g]
    BY <1>6, WithdrawGuideEffect
  <2> QED BY <2>1, ReadableStays DEF PublishedTo
<1>7. ASSUME NEW g \in Guides, NEW expected \in Expectation, ReinstateGuide(g, expected)
      PROVE  Readable'
  <2>1. /\ OnlyGuide(g)
        /\ guide[g].state = "withdrawn"
        /\ guide'[g].audience = guide[g].audience
        /\ guide'[g].currentRelease = guide[g].currentRelease
        /\ release'[g] = release[g]
        /\ NoReinstateBlockers(g)
    BY <1>7, ReinstateGuideEffect
  <2>2. CurrentRelease(g).category \in Chain(CurrentRelease(g).category)
    BY <2>1, PublishedHasRelease, ChainStartsHere
  <2> QED BY <2>1, <2>2, ReadableStays DEF PublishedTo, NoReinstateBlockers, ChainIsPublic
<1>8. ASSUME NEW g \in Guides, NEW audience \in Visibility, NEW expectedRelease \in 0..MaxDraftVersion,
             SetGuideAudience(g, audience, expectedRelease)
      PROVE  Readable'
  <2>1. /\ OnlyGuide(g)
        /\ guide'[g].state = guide[g].state
        /\ guide'[g].audience = audience
        /\ guide'[g].currentRelease = guide[g].currentRelease
        /\ release'[g] = release[g]
        /\ audience = "public" => NoPublicBlockers(g)
    BY <1>8, SetGuideAudienceEffect, ExpectationsAreNumbers
  <2>2. guide[g].state = "published" =>
          CurrentRelease(g).category \in Chain(CurrentRelease(g).category)
    BY PublishedHasRelease, ChainStartsHere
  <2> QED BY <2>1, <2>2, ReadableStays DEF PublishedTo, NoPublicBlockers, ChainIsPublic
<1> QED
  BY <1>1, <1>2, <1>3, <1>4, <1>5, <1>6, <1>7, <1>8 DEF Next, DraftStep, PublicationStep

\* At first nothing is public.
LEMMA InitReadable == Init => Readable
BY DEF Init, Readable, PublicUnderPublic, PublicReleasesFiledPublic, PublishedTo, NoCategory, NoGuide

\* A guide published to the public is one every visitor reads: no move,
\* restriction or archiving of a category, no move between the sections and no
\* reinstatement leaves it listed under something a visitor may not see.
THEOREM PublicGuidesStayReadable == Spec => []PublicGuidesAreReadable
<1> DEFINE Inv == Typed /\ ReleasesFollowDrafts /\ Readable
<1>1. Init => Inv
  BY InitTyped, InitNumbered, InitReadable
<1>2. Inv /\ [Next]_vars => Inv'
  BY NextTyped, NextNumbered, NextReadable
<1>3. Inv => PublicGuidesAreReadable
  BY ReadableShown
<1> QED
  BY <1>1, <1>2, <1>3, PTL DEF Spec
=============================================================================
