------------------- MODULE GuideLibraryRefinement_proofs --------------------
(***************************************************************************)
(* What the library tells.  It implements PublicShelf, every transaction    *)
(* being a step of the shelf or one no visitor can notice; its outbox tells *)
(* every publication change exactly once, in order; and it implements       *)
(* GuideDraft for the clients of each guide, every transaction being one of *)
(* its steps for the guide it is about and none that the clients of another *)
(* guide could notice.                                                      *)
(***************************************************************************)
EXTENDS GuideLibrary_proofs, GuideScreens, SequenceTheorems

-----------------------------------------------------------------------------
(* The public shelf *)

\* A guide that does not exist has never been published or revised.
AbsentGuidesAreNew == \A g \in Guides : guide[g].state = "absent" => guide[g].revision = 0

\* A guide is revised only once it exists.
LEMMA NextAbsent ==
    ASSUME Typed, AbsentGuidesAreNew, [Next]_vars
    PROVE  AbsentGuidesAreNew'
<1>1. CASE CategoryStep \/ CatalogStep \/ UNCHANGED vars
  <2>1. UNCHANGED guide
    BY <1>1, CategoryStepsWriteRows, CatalogStepsWriteRows DEF WriteCategory, WriteItem, vars
  <2> QED BY <2>1 DEF AbsentGuidesAreNew
<1>2. ASSUME NEW g \in Guides, OnlyGuide(g), guide'[g].state # "absent"
      PROVE  AbsentGuidesAreNew'
  BY <1>2 DEF AbsentGuidesAreNew, OnlyGuide
<1>3. ASSUME NEW g \in Guides, NEW c \in Categories, NEW document \in Documents,
             NEW audience \in Visibility, CreateDraft(g, audience, c, document)
      PROVE  AbsentGuidesAreNew'
  BY <1>2, <1>3, CreateDraftEffect
<1>4. ASSUME NEW g \in Guides, NEW c \in Categories, NEW document \in Documents,
             NEW expectedVersion \in 1..MaxDraftVersion, SaveDraft(g, expectedVersion, c, document)
      PROVE  AbsentGuidesAreNew'
  <2>1. OnlyGuide(g) /\ guide'[g].state # "absent"
    BY <1>4, SaveDraftEffect, ExpectationsAreNumbers
  <2> QED BY <1>2, <2>1
<1>5. ASSUME NEW g \in Guides, NEW expected \in Expectation,
             \/ PublishDraft(g, expected)
             \/ WithdrawGuide(g, expected)
             \/ ReinstateGuide(g, expected)
      PROVE  AbsentGuidesAreNew'
  BY <1>2, <1>5, PublishDraftEffect, WithdrawGuideEffect, ReinstateGuideEffect
<1>6. ASSUME NEW g \in Guides, NEW audience \in Visibility, NEW expectedRelease \in 0..MaxDraftVersion,
             SetGuideAudience(g, audience, expectedRelease)
      PROVE  AbsentGuidesAreNew'
  <2>1. OnlyGuide(g) /\ guide'[g].state # "absent"
    BY <1>6, SetGuideAudienceEffect, ExpectationsAreNumbers
  <2> QED BY <1>2, <2>1
<1> QED
  BY <1>1, <1>3, <1>4, <1>5, <1>6 DEF Next, DraftStep, PublicationStep

ShelfInv == Typed /\ ReleasesFollowDrafts /\ Readable /\ AbsentGuidesAreNew

\* The invariant the refinement rests on is inductive.
LEMMA ShelfInvariant ==
    /\ Init => ShelfInv
    /\ ShelfInv /\ [Next]_vars => ShelfInv'
<1>1. Init => AbsentGuidesAreNew
  BY DEF Init, AbsentGuidesAreNew, NoGuide
<1> QED
  BY <1>1, InitTyped, InitNumbered, InitReadable, NextTyped, NextNumbered, NextReadable, NextAbsent
     DEF ShelfInv

\* What a visitor reads of a guide is decided by its publication alone.
ShelfShowsPublications == \A g \in Guides :
    PublicRelease(g) = IF PublishedTo(g, "public") THEN Len(release[g]) ELSE 0

\* Under the invariant the shelf is read off the publication state.
LEMMA ShelfIsPublication == ShelfInv => ShelfShowsPublications
BY ReadableShown
   DEF ShelfInv, ShelfShowsPublications, PublicRelease, PublicGuidesAreReadable, VisitorReads,
       ReleasesFollowDrafts

\* ... before a step and after it.
LEMMA ShelfStep ==
    ShelfInv /\ [Next]_vars => ShelfInv' /\ ShelfShowsPublications /\ ShelfShowsPublications'
<1>1. ShelfInv /\ [Next]_vars => ShelfInv'
  BY ShelfInvariant
<1>2. (ShelfInv => ShelfShowsPublications)'
  BY ShelfIsPublication, PTL
<1> QED
  BY <1>1, <1>2, ShelfIsPublication

\* What the mapping shows of guide g, and the ways a step may change it.
Same(g) == /\ PublicRelease(g)' = PublicRelease(g)
           /\ Len(release[g])' = Len(release[g])
           /\ guide[g].revision' = guide[g].revision

Placed(g, shown) ==
    /\ PublicRelease(g)' = IF shown THEN Len(release[g]) ELSE 0
    /\ Len(release[g])' = Len(release[g])
    /\ guide[g].revision' = guide[g].revision + 1

Released(g, shown) ==
    /\ PublicRelease(g)' = IF shown THEN Len(release[g]) + 1 ELSE 0
    /\ Len(release[g])' = Len(release[g]) + 1
    /\ guide[g].revision' = guide[g].revision + 1

\* One guide placed or released while the others stay is a step of the shelf.
LEMMA ShelfMoves ==
    ASSUME NEW g \in Guides, NEW shown \in BOOLEAN,
           Placed(g, shown) \/ Released(g, shown), \A h \in Guides \ {g} : Same(h)
    PROVE  Shelf!Next
<1>1. CASE Placed(g, shown)
  <2>1. [h \in Guides |-> PublicRelease(h)]' =
          [[h \in Guides |-> PublicRelease(h)] EXCEPT ![g] =
              IF shown THEN [h \in Guides |-> Len(release[h])][g] ELSE 0]
    BY <1>1 DEF Placed, Same
  <2>2. [h \in Guides |-> Len(release[h])]' = [h \in Guides |-> Len(release[h])]
    BY <1>1 DEF Placed, Same
  <2>3. [h \in Guides |-> guide[h].revision]' =
          [[h \in Guides |-> guide[h].revision] EXCEPT ![g] = @ + 1]
    BY <1>1 DEF Placed, Same
  <2>4. Shelf!Place(g, shown)
    BY <2>1, <2>2, <2>3 DEF Shelf!Place, Shelf!Revise
  <2> QED BY <2>4 DEF Shelf!Next
<1>2. CASE Released(g, shown)
  <2>1. [h \in Guides |-> PublicRelease(h)]' =
          [[h \in Guides |-> PublicRelease(h)] EXCEPT ![g] =
              IF shown THEN [h \in Guides |-> Len(release[h])][g] + 1 ELSE 0]
    BY <1>2 DEF Released, Same
  <2>2. [h \in Guides |-> Len(release[h])]' =
          [[h \in Guides |-> Len(release[h])] EXCEPT ![g] = @ + 1]
    BY <1>2 DEF Released, Same
  <2>3. [h \in Guides |-> guide[h].revision]' =
          [[h \in Guides |-> guide[h].revision] EXCEPT ![g] = @ + 1]
    BY <1>2 DEF Released, Same
  <2>4. Shelf!Release(g, shown)
    BY <2>1, <2>2, <2>3 DEF Shelf!Release, Shelf!Revise
  <2> QED BY <2>4 DEF Shelf!Next
<1> QED
  BY <1>1, <1>2

\* No guide placed or released: the shelf stutters.
LEMMA ShelfStutters ==
    ASSUME \A h \in Guides : Same(h)
    PROVE  UNCHANGED Shelf!vars
BY DEF Same, Shelf!vars

\* The library's steps are the shelf's.
LEMMA LibraryStep ==
    ASSUME ShelfInv, [Next]_vars
    PROVE  [Shelf!Next]_(Shelf!vars)
<1>1. ShelfInv' /\ ShelfShowsPublications /\ ShelfShowsPublications'
  BY ShelfStep
<1>2. ASSUME NEW h \in Guides, release'[h] = release[h], guide'[h].revision = guide[h].revision,
             PublishedTo(h, "public")' <=> PublishedTo(h, "public")
      PROVE  Same(h)
  BY <1>1, <1>2 DEF ShelfShowsPublications, Same
<1>3. ASSUME NEW g \in Guides, OnlyGuide(g)
      PROVE  \A h \in Guides \ {g} : Same(h)
  BY <1>2, <1>3 DEF OnlyGuide, PublishedTo
<1>4. ASSUME NEW g \in Guides, OnlyGuide(g), release'[g] = release[g],
             guide'[g].revision = guide[g].revision + 1
      PROVE  Shelf!Next
  <2>1. PICK shown \in BOOLEAN : shown <=> PublishedTo(g, "public")'
    OBVIOUS
  <2>2. Placed(g, shown)
    BY <1>1, <1>4, <2>1 DEF ShelfShowsPublications, Placed
  <2> QED BY <1>3, <1>4, <2>2, ShelfMoves
<1>5. CASE CategoryStep \/ CatalogStep \/ UNCHANGED vars
  <2>1. UNCHANGED <<guide, release>>
    BY <1>5, CategoryStepsWriteRows, CatalogStepsWriteRows DEF WriteCategory, WriteItem, vars
  <2>2. \A h \in Guides : Same(h)
    BY <1>2, <2>1 DEF PublishedTo
  <2> QED BY <2>2, ShelfStutters
<1>6. ASSUME NEW g \in Guides, OnlyGuide(g), Same(g)
      PROVE  UNCHANGED Shelf!vars
  BY <1>3, <1>6, ShelfStutters
<1>7. ASSUME NEW g \in Guides, NEW c \in Categories, NEW document \in Documents,
             NEW audience \in Visibility, CreateDraft(g, audience, c, document)
      PROVE  UNCHANGED Shelf!vars
  <2>1. /\ OnlyGuide(g)
        /\ guide[g].state = "absent"
        /\ guide'[g].state = "draft"
        /\ guide'[g].revision = 0
        /\ release'[g] = release[g]
    BY <1>7, CreateDraftEffect DEF ShelfInv
  <2>2. guide[g].revision = 0
    BY <2>1 DEF ShelfInv, AbsentGuidesAreNew
  <2> QED BY <1>2, <1>6, <2>1, <2>2 DEF PublishedTo
<1>8. ASSUME NEW g \in Guides, NEW c \in Categories, NEW document \in Documents,
             NEW expectedVersion \in 1..MaxDraftVersion, SaveDraft(g, expectedVersion, c, document)
      PROVE  UNCHANGED Shelf!vars
  <2>1. /\ OnlyGuide(g)
        /\ guide'[g].state = guide[g].state
        /\ guide'[g].audience = guide[g].audience
        /\ guide'[g].revision = guide[g].revision
        /\ release'[g] = release[g]
    BY <1>8, SaveDraftEffect, ExpectationsAreNumbers DEF ShelfInv
  <2> QED BY <1>2, <1>6, <2>1 DEF PublishedTo
<1>9. ASSUME NEW g \in Guides, NEW expected \in Expectation, PublishDraft(g, expected)
      PROVE  Shelf!Next
  <2>1. /\ OnlyGuide(g)
        /\ guide'[g].revision = guide[g].revision + 1
        /\ guide'[g].currentRelease = guide[g].currentRelease + 1
    BY <1>9, PublishDraftEffect DEF ShelfInv
  <2>2. /\ guide[g].currentRelease = Len(release[g])
        /\ guide'[g].currentRelease = Len(release'[g])
    BY <1>1 DEF ShelfInv, ReleasesFollowDrafts
  <2>3. PICK shown \in BOOLEAN : shown <=> PublishedTo(g, "public")'
    OBVIOUS
  <2>4. Released(g, shown)
    BY <1>1, <2>1, <2>2, <2>3 DEF ShelfShowsPublications, Released
  <2> QED BY <1>3, <2>1, <2>4, ShelfMoves
<1>10. ASSUME NEW g \in Guides, NEW expected \in Expectation,
              WithdrawGuide(g, expected) \/ ReinstateGuide(g, expected)
       PROVE  Shelf!Next
  BY <1>4, <1>10, WithdrawGuideEffect, ReinstateGuideEffect DEF ShelfInv
<1>11. ASSUME NEW g \in Guides, NEW audience \in Visibility, NEW expectedRelease \in 0..MaxDraftVersion,
              SetGuideAudience(g, audience, expectedRelease)
       PROVE  Shelf!Next
  BY <1>4, <1>11, SetGuideAudienceEffect, ExpectationsAreNumbers DEF ShelfInv
<1> QED
  BY <1>5, <1>7, <1>8, <1>9, <1>10, <1>11 DEF Next, DraftStep, PublicationStep

\* An empty library is an empty shelf.
LEMMA LibraryStart ==
    ASSUME Init
    PROVE  Shelf!Init
<1>1. ShelfInv /\ ShelfShowsPublications
  BY ShelfInvariant, ShelfIsPublication
<1>2. \A g \in Guides : PublicRelease(g) = 0 /\ Len(release[g]) = 0 /\ guide[g].revision = 0
  BY <1>1 DEF Init, NoGuide, ShelfShowsPublications, PublishedTo
<1> QED
  BY <1>2 DEF Shelf!Init

\* What visitors read is a shelf: of every guide nothing or its newest release,
\* changed only by that guide's own publication and counted by its revision.
THEOREM LibraryImplementsShelf == Spec => ImplementsShelf
<1>1. Init => ShelfInv
  BY ShelfInvariant
<1>2. ShelfInv /\ [Next]_vars => ShelfInv'
  BY ShelfInvariant
<1>3. Init => Shelf!Init
  BY LibraryStart
<1>4. ShelfInv /\ [Next]_vars => [Shelf!Next]_(Shelf!vars)
  BY LibraryStep
<1> QED
  BY <1>1, <1>2, <1>3, <1>4, PTL DEF Spec, ImplementsShelf, Shelf!Spec

-----------------------------------------------------------------------------
(* The outbox tells the publication state *)

\* OutboxTellsPublication, said of one guide.
Told(g) ==
    /\ Len(outbox[g]) = guide[g].revision
    /\ guide[g].state \in {"absent", "draft"}
         <=> \A k \in DOMAIN outbox[g] : outbox[g][k].event \notin StateEvents
    /\ \A k \in DOMAIN outbox[g] : LastOf(g, k, StateEvents) =>
         /\ outbox[g][k].release = guide[g].currentRelease
         /\ outbox[g][k].event = "withdrawn" <=> guide[g].state = "withdrawn"
    /\ \A k \in DOMAIN outbox[g] : LastOf(g, k, {"audience_changed"}) =>
         outbox[g][k].to = guide[g].audience

\* Saving a draft and the like tell nothing and change nothing that is told.
LEMMA TellingNothing ==
    ASSUME NEW g \in Guides, Told(g), outbox'[g] = outbox[g],
           guide'[g].revision = guide[g].revision,
           guide'[g].state = guide[g].state,
           guide'[g].currentRelease = guide[g].currentRelease,
           guide'[g].audience = guide[g].audience
    PROVE  Told(g)'
BY DEF Told, LastOf

\* What an event appended to the outbox makes last.
LEMMA TellingOne ==
    ASSUME Typed, NEW g \in Guides, NEW event \in Event, outbox'[g] = Append(outbox[g], event)
    PROVE  LET n == Len(outbox[g]) + 1
           IN  /\ DOMAIN outbox'[g] = DOMAIN outbox[g] \cup {n}
               /\ Len(outbox'[g]) = n
               /\ outbox'[g][n] = event
               /\ n \notin DOMAIN outbox[g]
               /\ \A k \in DOMAIN outbox[g] : outbox'[g][k] = outbox[g][k] /\ k < n
               /\ \A kinds : \A k \in DOMAIN outbox'[g] : LastOf(g, k, kinds)' =>
                    \/ k = n /\ event.event \in kinds
                    \/ k \in DOMAIN outbox[g] /\ LastOf(g, k, kinds) /\ event.event \notin kinds
<1> DEFINE n == Len(outbox[g]) + 1
<1>1. outbox[g] \in Seq(Event)
  BY DEF Typed, TypeOK
<1>2. /\ DOMAIN outbox'[g] = DOMAIN outbox[g] \cup {n}
      /\ Len(outbox'[g]) = n
      /\ outbox'[g][n] = event
      /\ n \notin DOMAIN outbox[g]
      /\ \A k \in DOMAIN outbox[g] : outbox'[g][k] = outbox[g][k] /\ k < n
  BY <1>1
<1> HIDE DEF n
<1>3. ASSUME NEW kinds, NEW k \in DOMAIN outbox'[g],
             /\ outbox'[g][k].event \in kinds
             /\ \A later \in DOMAIN outbox'[g] : later > k => outbox'[g][later].event \notin kinds
      PROVE  \/ k = n /\ event.event \in kinds
             \/ k \in DOMAIN outbox[g] /\ LastOf(g, k, kinds) /\ event.event \notin kinds
  <2>1. CASE k = n
    BY <1>2, <1>3, <2>1
  <2>2. CASE k \in DOMAIN outbox[g]
    <3>1. n > k
      <4>1. k \in Nat /\ n \in Nat
        BY <1>1, <2>2 DEF n
      <4> QED BY <1>2, <2>2, <4>1
    <3> QED BY <1>2, <1>3, <2>2, <3>1 DEF LastOf
  <2> QED BY <1>2, <2>1, <2>2
<1> QED
  BY <1>2, <1>3 DEF LastOf, n

\* Publishing, withdrawing and reinstating tell the state and the release.
LEMMA TellingTheState ==
    ASSUME Typed, NEW g \in Guides, Told(g), NEW event \in Event,
           outbox'[g] = Append(outbox[g], event),
           event.event \in StateEvents,
           event.release = guide'[g].currentRelease,
           guide'[g].state \in {"published", "withdrawn"},
           event.event = "withdrawn" <=> guide'[g].state = "withdrawn",
           guide'[g].revision = guide[g].revision + 1,
           guide'[g].audience = guide[g].audience
    PROVE  Told(g)'
<1>1. event.event # "audience_changed"
  BY DEF StateEvents
<1>2. Len(outbox'[g]) = guide'[g].revision
  BY TellingOne DEF Told
<1>3. \E k \in DOMAIN outbox'[g] : outbox'[g][k].event \in StateEvents
  BY TellingOne
<1>4. \A k \in DOMAIN outbox'[g] : LastOf(g, k, StateEvents)' =>
         /\ outbox'[g][k].release = guide'[g].currentRelease
         /\ outbox'[g][k].event = "withdrawn" <=> guide'[g].state = "withdrawn"
  BY TellingOne
<1>5. \A k \in DOMAIN outbox'[g] : LastOf(g, k, {"audience_changed"})' =>
         outbox'[g][k].to = guide'[g].audience
  BY <1>1, TellingOne DEF Told
<1> QED
  BY <1>2, <1>3, <1>4, <1>5 DEF Told, StateEvents

\* A move tells the section.
LEMMA TellingTheSection ==
    ASSUME Typed, NEW g \in Guides, Told(g), NEW event \in Event,
           outbox'[g] = Append(outbox[g], event),
           event.event = "audience_changed",
           event.to = guide'[g].audience,
           guide'[g].state = guide[g].state,
           guide'[g].currentRelease = guide[g].currentRelease,
           guide'[g].revision = guide[g].revision + 1
    PROVE  Told(g)'
<1>1. event.event \notin StateEvents
  BY DEF StateEvents
<1>2. Len(outbox'[g]) = guide'[g].revision
  BY TellingOne DEF Told
<1>3. (\A k \in DOMAIN outbox'[g] : outbox'[g][k].event \notin StateEvents)
        <=> \A k \in DOMAIN outbox[g] : outbox[g][k].event \notin StateEvents
  BY <1>1, TellingOne
<1>4. \A k \in DOMAIN outbox'[g] : LastOf(g, k, StateEvents)' =>
         /\ outbox'[g][k].release = guide'[g].currentRelease
         /\ outbox'[g][k].event = "withdrawn" <=> guide'[g].state = "withdrawn"
  BY <1>1, TellingOne DEF Told
<1>5. \A k \in DOMAIN outbox'[g] : LastOf(g, k, {"audience_changed"})' =>
         outbox'[g][k].to = guide'[g].audience
  BY TellingOne
<1> QED
  BY <1>2, <1>3, <1>4, <1>5 DEF Told

\* A new draft has told nothing yet.
LEMMA TellingNothingYet ==
    ASSUME Typed, NEW g \in Guides, Told(g), guide[g].revision = 0, outbox'[g] = outbox[g],
           guide'[g].revision = 0, guide'[g].state = "draft"
    PROVE  Told(g)'
<1>1. outbox[g] \in Seq(Event) /\ Len(outbox[g]) = 0
  BY DEF Typed, TypeOK, Told
<1>2. DOMAIN outbox[g] = {}
  BY <1>1
<1> QED
  BY <1>1, <1>2 DEF Told

\* An event is appended to its own guide's events only.
LEMMA EmitEffect ==
    ASSUME Typed, NEW g \in Guides, NEW event, Emit(g, event)
    PROVE  /\ outbox'[g] = Append(outbox[g], event)
           /\ \A h \in Guides \ {g} : outbox'[h] = outbox[h]
BY DEF Typed, TypeOK, Emit

\* Every handler that changes the publication state tells it.
LEMMA NextTold ==
    ASSUME Typed, AbsentGuidesAreNew, OutboxTellsPublication, [Next]_vars
    PROVE  OutboxTellsPublication'
<1> DEFINE Goal == \A h \in Guides : Told(h)'
<1>0. \A h \in Guides : Told(h)
  BY DEF OutboxTellsPublication, Told
<1> SUFFICES Goal
  BY DEF OutboxTellsPublication, Told
<1>1. ASSUME UNCHANGED <<guide, outbox>> PROVE Goal
  BY <1>0, <1>1 DEF Told, LastOf
<1>2. ASSUME NEW g \in Guides, OnlyGuide(g), Told(g)',
             \A h \in Guides \ {g} : outbox'[h] = outbox[h]
      PROVE  Goal
  BY <1>0, <1>2, TellingNothing DEF OnlyGuide
<1> HIDE DEF Goal
<1>3. CASE CategoryStep \/ CatalogStep \/ UNCHANGED vars
  <2>1. UNCHANGED <<guide, outbox>>
    BY <1>3, CategoryStepsWriteRows, CatalogStepsWriteRows DEF WriteCategory, WriteItem, vars
  <2> QED BY <1>1, <2>1
<1>4. ASSUME NEW g \in Guides, NEW c \in Categories, NEW document \in Documents,
             NEW audience \in Visibility, CreateDraft(g, audience, c, document)
      PROVE  Goal
  <2>1. /\ OnlyGuide(g)
        /\ guide[g].state = "absent"
        /\ guide'[g].state = "draft"
        /\ guide'[g].revision = 0
    BY <1>4, CreateDraftEffect
  <2>2. UNCHANGED outbox
    BY <1>4 DEF CreateDraft
  <2>3. Told(g)'
    BY <1>0, <2>1, <2>2, TellingNothingYet DEF AbsentGuidesAreNew
  <2> QED BY <1>2, <2>1, <2>2, <2>3
<1>5. ASSUME NEW g \in Guides, NEW c \in Categories, NEW document \in Documents,
             NEW expectedVersion \in 1..MaxDraftVersion, SaveDraft(g, expectedVersion, c, document)
      PROVE  Goal
  <2>1. /\ OnlyGuide(g)
        /\ guide'[g].state = guide[g].state
        /\ guide'[g].audience = guide[g].audience
        /\ guide'[g].currentRelease = guide[g].currentRelease
        /\ guide'[g].revision = guide[g].revision
    BY <1>5, SaveDraftEffect, ExpectationsAreNumbers
  <2>2. UNCHANGED outbox
    BY <1>5 DEF SaveDraft
  <2>3. Told(g)'
    BY <1>0, <2>1, <2>2, TellingNothing
  <2> QED BY <1>2, <2>1, <2>2, <2>3
<1>6. ASSUME NEW g \in Guides, NEW expected \in Expectation, PublishDraft(g, expected)
      PROVE  Goal
  <2> DEFINE event == [event |-> "published", release |-> guide[g].currentRelease + 1]
  <2>1. /\ OnlyGuide(g)
        /\ guide'[g].state = "published"
        /\ guide'[g].audience = guide[g].audience
        /\ guide'[g].currentRelease = guide[g].currentRelease + 1
        /\ guide'[g].revision = guide[g].revision + 1
    BY <1>6, PublishDraftEffect
  <2>2. Emit(g, event) /\ event \in Event
    <3>1. guide[g].currentRelease \in Nat
      BY DEF Typed, TypeOK, GuideRow
    <3> QED BY <1>6, <3>1 DEF PublishDraft, Event
  <2>3. event.event = "published" /\ event.release = guide'[g].currentRelease
    BY <2>1
  <2> HIDE DEF event
  <2>4. Told(g)'
    BY <1>0, <2>1, <2>2, <2>3, EmitEffect, TellingTheState DEF StateEvents
  <2> QED BY <1>2, <2>1, <2>2, <2>4, EmitEffect
<1>7. ASSUME NEW g \in Guides, NEW expected \in Expectation, WithdrawGuide(g, expected)
      PROVE  Goal
  <2> DEFINE event == [event |-> "withdrawn", release |-> guide[g].currentRelease]
  <2>1. /\ OnlyGuide(g)
        /\ guide'[g].state = "withdrawn"
        /\ guide'[g].audience = guide[g].audience
        /\ guide'[g].currentRelease = guide[g].currentRelease
        /\ guide'[g].revision = guide[g].revision + 1
    BY <1>7, WithdrawGuideEffect
  <2>2. Emit(g, event) /\ event \in Event
    BY <1>7, PublicationRows DEF Typed, WithdrawGuide
  <2>3. event.event = "withdrawn" /\ event.release = guide'[g].currentRelease
    BY <2>1
  <2> HIDE DEF event
  <2>4. Told(g)'
    BY <1>0, <2>1, <2>2, <2>3, EmitEffect, TellingTheState DEF StateEvents
  <2> QED BY <1>2, <2>1, <2>2, <2>4, EmitEffect
<1>8. ASSUME NEW g \in Guides, NEW expected \in Expectation, ReinstateGuide(g, expected)
      PROVE  Goal
  <2> DEFINE event == [event |-> "reinstated", release |-> guide[g].currentRelease]
  <2>1. /\ OnlyGuide(g)
        /\ guide'[g].state = "published"
        /\ guide'[g].audience = guide[g].audience
        /\ guide'[g].currentRelease = guide[g].currentRelease
        /\ guide'[g].revision = guide[g].revision + 1
    BY <1>8, ReinstateGuideEffect
  <2>2. Emit(g, event) /\ event \in Event
    BY <1>8, PublicationRows DEF Typed, ReinstateGuide
  <2>3. event.event = "reinstated" /\ event.release = guide'[g].currentRelease
    BY <2>1
  <2> HIDE DEF event
  <2>4. Told(g)'
    BY <1>0, <2>1, <2>2, <2>3, EmitEffect, TellingTheState DEF StateEvents
  <2> QED BY <1>2, <2>1, <2>2, <2>4, EmitEffect
<1>9. ASSUME NEW g \in Guides, NEW audience \in Visibility, NEW expectedRelease \in 0..MaxDraftVersion,
             SetGuideAudience(g, audience, expectedRelease)
      PROVE  Goal
  <2> DEFINE event == [event |-> "audience_changed", to |-> audience,
                       release |-> guide[g].currentRelease]
  <2>1. /\ OnlyGuide(g)
        /\ guide'[g].state = guide[g].state
        /\ guide'[g].audience = audience
        /\ guide'[g].currentRelease = guide[g].currentRelease
        /\ guide'[g].revision = guide[g].revision + 1
    BY <1>9, SetGuideAudienceEffect, ExpectationsAreNumbers
  <2>2. Emit(g, event) /\ event \in Event
    BY <1>9, PublicationRows DEF Typed, SetGuideAudience
  <2>3. event.event = "audience_changed" /\ event.to = guide'[g].audience
    BY <2>1
  <2> HIDE DEF event
  <2>4. Told(g)'
    BY <1>0, <2>1, <2>2, <2>3, EmitEffect, TellingTheSection
  <2> QED BY <1>2, <2>1, <2>2, <2>4, EmitEffect
<1> QED
  BY <1>3, <1>4, <1>5, <1>6, <1>7, <1>8, <1>9 DEF Next, DraftStep, PublicationStep

\* No guide, nothing to tell.
LEMMA InitTold == Init => OutboxTellsPublication
<1> SUFFICES ASSUME Init, NEW g \in Guides PROVE Told(g)
  BY DEF OutboxTellsPublication, Told
<1>1. outbox[g] = <<>> /\ guide[g] = NoGuide
  BY DEF Init
<1>2. Len(outbox[g]) = 0 /\ DOMAIN outbox[g] = {}
  BY <1>1
<1> QED
  BY <1>1, <1>2 DEF Told, NoGuide

\* Whoever follows a guide's events knows its release, its state and its
\* section, and has missed none of its revisions.
THEOREM OutboxIsTrue == Spec => []OutboxTellsPublication
<1> DEFINE Inv == ShelfInv /\ OutboxTellsPublication
<1>1. Init => Inv
  BY ShelfInvariant, InitTold
<1>2. Inv /\ [Next]_vars => Inv'
  BY ShelfInvariant, NextTold DEF ShelfInv
<1> QED
  BY <1>1, <1>2, PTL DEF Spec

-----------------------------------------------------------------------------
(* One guide, for its clients *)

\* Nothing that clients are told of guide g changes.
Untouched(g) == guide'[g] = guide[g] /\ release'[g] = release[g]

\* A guide that is not touched does not move for its clients.
LEMMA UntouchedStutters ==
    ASSUME NEW g \in Guides, Untouched(g)
    PROVE  UNCHANGED Draft(g)!draftVars
BY DEF Untouched, Draft!draftVars, Says, DraftOf, ReleasesOf

\* Telling a sequence of rows one by one tells an appended row last.
LEMMA AppendedIsToldLast ==
    ASSUME NEW rows \in Seq(ReleaseRow), NEW row \in ReleaseRow
    PROVE  [n \in DOMAIN Append(rows, row) |-> Says(Append(rows, row)[n])]
               = Append([n \in DOMAIN rows |-> Says(rows[n])], Says(row))
<1> DEFINE Content == [category : {r.category : r \in ReleaseRow},
                       requirements : {r.requirements : r \in ReleaseRow}]
           more == Append(rows, row)
           told == [n \in DOMAIN rows |-> Says(rows[n])]
           toldMore == [n \in DOMAIN more |-> Says(more[n])]
           plus == Append(told, Says(row))
<1>1. /\ Len(rows) \in Nat
      /\ DOMAIN rows = 1 .. Len(rows)
      /\ \A n \in 1 .. Len(rows) : rows[n] \in ReleaseRow
  BY LenProperties
<1>2. /\ more \in Seq(ReleaseRow)
      /\ DOMAIN more = 1 .. Len(rows) + 1
      /\ \A n \in 1 .. Len(rows) : more[n] = rows[n]
      /\ more[Len(rows) + 1] = row
  BY <1>1, AppendProperties, LenProperties
<1>3. \A r \in ReleaseRow : Says(r) \in Content
  BY DEF Says
<1> HIDE DEF Content, more
<1>4. told \in Seq(Content) /\ Len(told) = Len(rows)
  BY <1>1, <1>3
<1>5. toldMore \in Seq(Content) /\ Len(toldMore) = Len(rows) + 1
  <2>1. \A n \in 1 .. Len(rows) + 1 : more[n] \in ReleaseRow
    BY <1>1, <1>2
  <2> QED
    BY <1>1, <1>2, <1>3, <2>1
<1>6. \A n \in 1 .. Len(rows) : told[n] = Says(rows[n])
  BY <1>1
<1>7. \A n \in 1 .. Len(rows) + 1 : toldMore[n] = Says(more[n])
  BY <1>2
<1>8. /\ plus \in Seq(Content)
      /\ Len(plus) = Len(rows) + 1
      /\ \A n \in 1 .. Len(rows) : plus[n] = told[n]
      /\ plus[Len(rows) + 1] = Says(row)
  <2> HIDE DEF told
  <2> QED
    BY <1>3, <1>4, AppendProperties
<1> HIDE DEF told, toldMore, plus
<1>9. \A n \in 1 .. Len(toldMore) : toldMore[n] = plus[n]
  <2>1. \A n \in 1 .. Len(rows) : toldMore[n] = plus[n]
    BY <1>1, <1>2, <1>6, <1>7, <1>8
  <2>2. toldMore[Len(rows) + 1] = plus[Len(rows) + 1]
    BY <1>1, <1>2, <1>7, <1>8
  <2> QED
    BY <1>1, <1>5, <2>1, <2>2
<1>10. toldMore = plus
  BY <1>5, <1>8, <1>9, SeqEqual
<1> QED
  BY <1>10 DEF told, toldMore, plus, more

\* A release row is added to what clients are told of a guide's releases.
LEMMA AppendedRelease ==
    ASSUME NEW g \in Guides, NEW row \in ReleaseRow, Typed, release'[g] = Append(release[g], row)
    PROVE  ReleasesOf(g)' = Append(ReleasesOf(g), Says(row))
<1>1. release[g] \in Seq(ReleaseRow)
  BY DEF Typed, TypeOK
<1>2. ReleasesOf(g)' = [n \in DOMAIN Append(release[g], row) |-> Says(Append(release[g], row)[n])]
  BY DEF ReleasesOf, Says
<1> QED
  BY <1>1, <1>2, AppendedIsToldLast DEF ReleasesOf

\* The releases stay what they are told to be when their rows stay.
LEMMA KeptReleases ==
    ASSUME NEW g \in Guides, release'[g] = release[g]
    PROVE  ReleasesOf(g)' = ReleasesOf(g)
BY DEF ReleasesOf, Says

\* A draft as its clients read it, field by field.
ReadAs(content, version, state, audience, number, published, revision) ==
    [content |-> content, version |-> version, state |-> state, audience |-> audience,
     release |-> number, published |-> published, revision |-> revision]

\* What clients are told of guide g, before a step and after it.
LEMMA DraftIsTold ==
    ASSUME NEW g \in Guides
    PROVE  /\ DraftOf(g) = ReadAs(Says(guide[g]), guide[g].version, guide[g].state,
                guide[g].audience, guide[g].currentRelease, guide[g].publishedVersion,
                guide[g].revision)
           /\ DraftOf(g)' = ReadAs(Says(guide'[g]), guide'[g].version, guide'[g].state,
                guide'[g].audience, guide'[g].currentRelease, guide'[g].publishedVersion,
                guide'[g].revision)
BY DEF DraftOf, ReadAs, Says

\* Creating a draft is the clients' creation.
LEMMA CreateIsCreate ==
    ASSUME Typed, NEW g \in Guides, NEW audience \in Visibility, NEW c \in Categories,
           NEW document \in Documents, CreateDraft(g, audience, c, document)
    PROVE  Draft(g)!Create([category |-> c, requirements |-> document], audience)
<1> DEFINE content == [category |-> c, requirements |-> document]
<1>2. /\ guide[g].state = "absent"
      /\ guide'[g] = [NoGuide EXCEPT !.version = 1, !.state = "draft", !.audience = audience,
                                     !.category = c, !.requirements = document]
      /\ release'[g] = release[g]
  BY DEF Typed, TypeOK, CreateDraft
<1>3. DraftOf(g)' = ReadAs(content, 1, "draft", audience, 0, 0, 0)
  BY <1>2, DraftIsTold DEF Says, NoGuide
<1>4. DraftOf(g).state = "absent" /\ UNCHANGED ReleasesOf(g)
  BY <1>2, KeptReleases DEF DraftOf
<1>5. Draft(g)!Create(content, audience)
  <2> DEFINE d0 == Draft(g)!Absent
             d1 == [d0 EXCEPT !.content = content]
             d2 == [d1 EXCEPT !.version = 1]
             d3 == [d2 EXCEPT !.state = "draft"]
             d4 == [d3 EXCEPT !.audience = audience]
  <2>1. d0 = ReadAs(Says(NoGuide), 0, "absent", "members", 0, 0, 0)
    BY DEF Draft!Absent, ReadAs
  <2>2. [Draft(g)!Absent EXCEPT !.content = content, !.version = 1, !.state = "draft",
                                !.audience = audience] = d4
    BY Zenon
  <2> HIDE DEF d0
  <2>3. d1 = ReadAs(content, 0, "absent", "members", 0, 0, 0)
    BY <2>1 DEF ReadAs
  <2> HIDE DEF d1
  <2>4. d2 = ReadAs(content, 1, "absent", "members", 0, 0, 0)
    BY <2>3 DEF ReadAs
  <2> HIDE DEF d2
  <2>5. d3 = ReadAs(content, 1, "draft", "members", 0, 0, 0)
    BY <2>4 DEF ReadAs
  <2> HIDE DEF d3
  <2>6. d4 = ReadAs(content, 1, "draft", audience, 0, 0, 0)
    BY <2>5 DEF ReadAs
  <2> HIDE DEF d4
  <2> QED BY <1>3, <1>4, <2>2, <2>6 DEF Draft!Create
<1> QED
  BY <1>5

\* Saving a draft is the clients' save of the version they name.
LEMMA SaveIsSave ==
    ASSUME Typed, NEW g \in Guides, NEW expectedVersion \in Nat, NEW c \in Categories,
           NEW document \in Documents, SaveDraft(g, expectedVersion, c, document)
    PROVE  Draft(g)!Save(expectedVersion, [category |-> c, requirements |-> document])
<1> DEFINE content == [category |-> c, requirements |-> document]
<1>2. guide'[g].category = c /\ guide'[g].requirements = document
  BY SaveDraftEffect
<1>3. /\ guide[g].state # "absent"
      /\ guide[g].version = expectedVersion
      /\ guide'[g].state = guide[g].state
      /\ guide'[g].audience = guide[g].audience
      /\ guide'[g].currentRelease = guide[g].currentRelease
      /\ guide'[g].publishedVersion = guide[g].publishedVersion
      /\ guide'[g].version = guide[g].version + 1
      /\ guide'[g].revision = guide[g].revision
      /\ release'[g] = release[g]
  BY SaveDraftEffect
<1>4. guide[g].version < MaxDraftVersion
  BY DEF SaveDraft
<1>5. /\ DraftOf(g).state # "absent"
      /\ DraftOf(g).version = guide[g].version
      /\ UNCHANGED ReleasesOf(g)
  BY <1>3, KeptReleases DEF DraftOf
<1>6. DraftOf(g)' = ReadAs(content, guide[g].version + 1, guide[g].state, guide[g].audience,
         guide[g].currentRelease, guide[g].publishedVersion, guide[g].revision)
  BY <1>2, <1>3, DraftIsTold DEF Says
<1>7. Draft(g)!Save(expectedVersion, content)
  <2> DEFINE d1 == [DraftOf(g) EXCEPT !.version = DraftOf(g).version + 1]
             d2 == [d1 EXCEPT !.content = content]
  <2>1. [DraftOf(g) EXCEPT !.version = DraftOf(g).version + 1, !.content = content] = d2
    BY Zenon
  <2>2. d1 = ReadAs(Says(guide[g]), guide[g].version + 1, guide[g].state, guide[g].audience,
         guide[g].currentRelease, guide[g].publishedVersion, guide[g].revision)
    BY <1>5, DraftIsTold DEF ReadAs
  <2> HIDE DEF d1
  <2>3. d2 = DraftOf(g)'
    BY <1>6, <2>2 DEF ReadAs
  <2> HIDE DEF d2
  <2> QED BY <1>3, <1>4, <1>5, <2>1, <2>3 DEF Draft!Save
<1> QED
  BY <1>7

\* Publishing is the clients' publication of the draft they name.
LEMMA PublishIsPublish ==
    ASSUME Typed, NEW g \in Guides, NEW expected \in Expectation, PublishDraft(g, expected)
    PROVE  Draft(g)!Publish(expected)
<1> DEFINE row == [draftVersion |-> guide[g].version, category |-> guide[g].category,
                   requirements |-> guide[g].requirements]
<1>1. /\ guide[g].state # "absent"
      /\ guide[g].publishedVersion # guide[g].version
      /\ guide'[g].state = "published"
      /\ guide'[g].audience = guide[g].audience
      /\ guide'[g].category = guide[g].category
      /\ guide'[g].requirements = guide[g].requirements
      /\ guide'[g].currentRelease = guide[g].currentRelease + 1
      /\ guide'[g].publishedVersion = guide[g].version
      /\ guide'[g].version = guide[g].version
      /\ guide'[g].revision = guide[g].revision + 1
  BY PublishDraftEffect
<1>2. release'[g] = Append(release[g], row)
  BY PublishDraftEffect
<1>3. row \in ReleaseRow
  BY <1>1 DEF Typed, TypeOK, GuidesAreFiled, GuideRow, ReleaseRow
<1>4. ReleasesOf(g)' = Append(ReleasesOf(g), DraftOf(g).content)
  BY <1>2, <1>3, AppendedRelease DEF Says, DraftOf
<1>5. guide[g].revision < MaxRevision
  <2>1. guide'[g].revision <= MaxRevision
    BY RevisionsAreBounded DEF Typed, PublishDraft
  <2>2. guide[g].revision \in Nat
    BY DEF Typed, TypeOK, GuideRow
  <2> QED BY <1>1, <2>1, <2>2, BoundsAssumption
<1>6. DraftOf(g)' = ReadAs(Says(guide[g]), guide[g].version, "published", guide[g].audience,
         guide[g].currentRelease + 1, guide[g].version, guide[g].revision + 1)
  BY <1>1, DraftIsTold DEF Says
<1>7. /\ DraftOf(g).state # "absent"
      /\ DraftOf(g).published # DraftOf(g).version
      /\ DraftOf(g).version = guide[g].version
      /\ DraftOf(g).revision = guide[g].revision
  BY <1>1 DEF DraftOf
<1>8. [[DraftOf(g) EXCEPT !.state = "published", !.release = @ + 1, !.published = DraftOf(g).version]
          EXCEPT !.revision = DraftOf(g).revision + 1] = DraftOf(g)'
  <2> DEFINE d1 == [DraftOf(g) EXCEPT !.state = "published"]
             d2 == [d1 EXCEPT !.release = @ + 1]
             d3 == [d2 EXCEPT !.published = DraftOf(g).version]
             d4 == [d3 EXCEPT !.revision = DraftOf(g).revision + 1]
  <2>1. [[DraftOf(g) EXCEPT !.state = "published", !.release = @ + 1, !.published = DraftOf(g).version]
          EXCEPT !.revision = DraftOf(g).revision + 1] = d4
    BY Zenon
  <2>2. d1 = ReadAs(Says(guide[g]), guide[g].version, "published", guide[g].audience,
         guide[g].currentRelease, guide[g].publishedVersion, guide[g].revision)
    BY DraftIsTold DEF ReadAs
  <2> HIDE DEF d1
  <2>3. d2 = [d1 EXCEPT !.release = d1.release + 1]
    OBVIOUS
  <2> HIDE DEF d2
  <2>4. d2 = ReadAs(Says(guide[g]), guide[g].version, "published", guide[g].audience,
         guide[g].currentRelease + 1, guide[g].publishedVersion, guide[g].revision)
    BY <2>2, <2>3 DEF ReadAs
  <2>5. d3 = ReadAs(Says(guide[g]), guide[g].version, "published", guide[g].audience,
         guide[g].currentRelease + 1, guide[g].version, guide[g].revision)
    BY <1>7, <2>4 DEF ReadAs
  <2> HIDE DEF d3
  <2>6. d4 = DraftOf(g)'
    BY <1>6, <1>7, <2>5 DEF ReadAs
  <2> QED BY <2>1, <2>6
<1>9. /\ guide[g].version = expected.version
      /\ guide[g].revision = expected.revision
      /\ DraftOf(g).release = expected.release
  BY DEF PublishDraft, Publishable, DraftOf
<1> QED
  BY <1>4, <1>5, <1>7, <1>8, <1>9 DEF Draft!Publish, Draft!Seen, Draft!Republished

\* A change of who reads what: the state or the section alone.
LEMMA PlacementMoves ==
    ASSUME Typed, NEW g \in Guides, NEW new, UpdateGuide(g, new), NEW expected,
           guide[g].revision = expected.revision,
           guide[g].currentRelease = expected.release,
           guide'[g].category = guide[g].category,
           guide'[g].requirements = guide[g].requirements,
           guide'[g].currentRelease = guide[g].currentRelease,
           guide'[g].publishedVersion = guide[g].publishedVersion,
           guide'[g].version = guide[g].version,
           guide'[g].revision = guide[g].revision + 1,
           release'[g] = release[g],
           \/ /\ guide[g].state = "published" /\ guide'[g].state = "withdrawn"
              /\ guide'[g].audience = guide[g].audience
           \/ /\ guide[g].state = "withdrawn" /\ guide'[g].state = "published"
              /\ guide'[g].audience = guide[g].audience
           \/ /\ guide[g].state \in {"draft", "published"} /\ guide'[g].state = guide[g].state
              /\ guide'[g].audience # guide[g].audience
              /\ guide'[g].audience \in Visibility
    PROVE  \/ guide[g].state = "published" /\ Draft(g)!Withdraw(expected)
           \/ guide[g].state = "withdrawn" /\ Draft(g)!Reinstate(expected)
           \/ /\ guide'[g].audience # guide[g].audience
              /\ Draft(g)!Move(guide'[g].audience, expected.release)
<1>1. guide[g].revision < MaxRevision
  <2>1. guide'[g].revision <= MaxRevision
    BY RevisionsAreBounded DEF Typed
  <2>2. guide[g].revision \in Nat
    BY DEF Typed, TypeOK, GuideRow
  <2> QED BY <2>1, <2>2, BoundsAssumption
<1>2. /\ DraftOf(g).state = guide[g].state
      /\ DraftOf(g).audience = guide[g].audience
      /\ DraftOf(g).release = guide[g].currentRelease
      /\ DraftOf(g).revision = guide[g].revision
      /\ ReleasesOf(g)' = ReleasesOf(g)
  BY KeptReleases DEF DraftOf
<1>3. CASE /\ guide[g].state = "published" /\ guide'[g].state = "withdrawn"
           /\ guide'[g].audience = guide[g].audience
  <2>1. DraftOf(g)' = [[DraftOf(g) EXCEPT !.state = "withdrawn"]
                         EXCEPT !.revision = DraftOf(g).revision + 1]
    <3> DEFINE d1 == [DraftOf(g) EXCEPT !.state = "withdrawn"]
    <3>1. d1 = ReadAs(Says(guide[g]), guide[g].version, "withdrawn", guide[g].audience,
             guide[g].currentRelease, guide[g].publishedVersion, guide[g].revision)
      BY DraftIsTold DEF ReadAs
    <3> HIDE DEF d1
    <3>2. DraftOf(g)' = [d1 EXCEPT !.revision = DraftOf(g).revision + 1]
      BY <1>2, <1>3, <3>1, DraftIsTold DEF ReadAs, Says
    <3> QED BY <3>2 DEF d1
  <2> QED BY <1>1, <1>2, <1>3, <2>1 DEF Draft!Withdraw, Draft!Seen, Draft!Republished
<1>4. CASE /\ guide[g].state = "withdrawn" /\ guide'[g].state = "published"
           /\ guide'[g].audience = guide[g].audience
  <2>1. DraftOf(g)' = [[DraftOf(g) EXCEPT !.state = "published"]
                         EXCEPT !.revision = DraftOf(g).revision + 1]
    <3> DEFINE d1 == [DraftOf(g) EXCEPT !.state = "published"]
    <3>1. d1 = ReadAs(Says(guide[g]), guide[g].version, "published", guide[g].audience,
             guide[g].currentRelease, guide[g].publishedVersion, guide[g].revision)
      BY DraftIsTold DEF ReadAs
    <3> HIDE DEF d1
    <3>2. DraftOf(g)' = [d1 EXCEPT !.revision = DraftOf(g).revision + 1]
      BY <1>2, <1>4, <3>1, DraftIsTold DEF ReadAs, Says
    <3> QED BY <3>2 DEF d1
  <2> QED BY <1>1, <1>2, <1>4, <2>1 DEF Draft!Reinstate, Draft!Seen, Draft!Republished
<1>5. CASE /\ guide[g].state \in {"draft", "published"} /\ guide'[g].state = guide[g].state
           /\ guide'[g].audience # guide[g].audience
           /\ guide'[g].audience \in Visibility
  <2>1. DraftOf(g)' = [[DraftOf(g) EXCEPT !.audience = guide'[g].audience]
                         EXCEPT !.revision = DraftOf(g).revision + 1]
    <3> DEFINE d1 == [DraftOf(g) EXCEPT !.audience = guide'[g].audience]
    <3>1. d1 = ReadAs(Says(guide[g]), guide[g].version, guide[g].state, guide'[g].audience,
             guide[g].currentRelease, guide[g].publishedVersion, guide[g].revision)
      BY DraftIsTold DEF ReadAs
    <3> HIDE DEF d1
    <3>2. DraftOf(g)' = [d1 EXCEPT !.revision = DraftOf(g).revision + 1]
      BY <1>2, <1>5, <3>1, DraftIsTold DEF ReadAs, Says
    <3> QED BY <3>2 DEF d1
  <2> QED BY <1>1, <1>2, <1>5, <2>1 DEF Draft!Move, Draft!Republished
<1> QED
  BY <1>3, <1>4, <1>5

\* Withdrawing a guide is the clients' withdrawal.
LEMMA WithdrawIsWithdraw ==
    ASSUME Typed, NEW g \in Guides, NEW expected \in Expectation, WithdrawGuide(g, expected)
    PROVE  Draft(g)!Withdraw(expected)
<1>1. PICK new : UpdateGuide(g, new)
  BY DEF WithdrawGuide
<1>2. /\ guide[g].revision = expected.revision
      /\ guide[g].currentRelease = expected.release
      /\ guide[g].state = "published"
  BY DEF WithdrawGuide, ExpectedPublication
<1> QED
  BY <1>1, <1>2, WithdrawGuideEffect, PlacementMoves

\* Reinstating it is the clients' reinstatement, with nothing in its way.
LEMMA ReinstateIsReinstate ==
    ASSUME Typed, NEW g \in Guides, NEW expected \in Expectation, ReinstateGuide(g, expected)
    PROVE  Draft(g)!Reinstate(expected)
<1>1. PICK new : UpdateGuide(g, new)
  BY DEF ReinstateGuide
<1>2. /\ guide[g].revision = expected.revision
      /\ guide[g].currentRelease = expected.release
      /\ guide[g].state = "withdrawn"
  BY DEF ReinstateGuide, ExpectedPublication
<1> QED
  BY <1>1, <1>2, ReinstateGuideEffect, PlacementMoves

\* A move between the sections is the clients' move.
LEMMA MoveIsMove ==
    ASSUME Typed, NEW g \in Guides, NEW audience \in Visibility, NEW expectedRelease \in Nat,
           SetGuideAudience(g, audience, expectedRelease)
    PROVE  Draft(g)!Move(audience, expectedRelease)
<1>1. PICK new : UpdateGuide(g, new)
  BY DEF SetGuideAudience
<1>2. /\ guide[g].audience # audience
      /\ guide[g].state \notin {"absent", "withdrawn"}
      /\ guide[g].currentRelease = expectedRelease
  BY DEF SetGuideAudience
<1>3. guide[g].state \in {"draft", "published"}
  BY <1>2 DEF Typed, TypeOK, GuideRow, GuideState
<1>4. guide'[g].audience = audience /\ guide'[g].state = guide[g].state
  BY SetGuideAudienceEffect
<1> DEFINE expected == [revision |-> guide[g].revision, release |-> expectedRelease]
<1>5. guide[g].revision = expected.revision /\ guide[g].currentRelease = expected.release
  BY <1>2
<1>6. \/ guide[g].state = "published" /\ Draft(g)!Withdraw(expected)
      \/ Draft(g)!Move(audience, expected.release)
  <2> HIDE DEF expected
  <2> QED BY <1>1, <1>2, <1>3, <1>4, <1>5, SetGuideAudienceEffect, PlacementMoves
<1>7. ~ Draft(g)!Withdraw(expected)
  <2>1. DraftOf(g)'.audience # DraftOf(g).audience
    BY <1>2, <1>4 DEF DraftOf
  <2>2. Draft(g)!Withdraw(expected) => DraftOf(g)'.audience = DraftOf(g).audience
    BY DEF Draft!Withdraw, Draft!Republished, DraftOf
  <2> QED BY <2>1, <2>2
<1> QED
  BY <1>6, <1>7

\* Each request is served for what it names.
LEMMA RequestsAreServed ==
    ASSUME Typed, NEW g \in Guides
    PROVE  Served(g)
<1>1. ASSUME NEW c \in Categories, NEW document \in Documents, NEW audience \in Visibility,
             CreateDraft(g, audience, c, document)
      PROVE  Draft(g)!Create([category |-> c, requirements |-> document], audience)
  BY <1>1, CreateIsCreate
<1>2. ASSUME NEW c \in Categories, NEW document \in Documents,
             NEW expectedVersion \in 1..MaxDraftVersion, SaveDraft(g, expectedVersion, c, document)
      PROVE  Draft(g)!Save(expectedVersion, [category |-> c, requirements |-> document])
  BY <1>2, SaveIsSave, ExpectationsAreNumbers
<1>3. ASSUME NEW expected \in Expectation
      PROVE  /\ PublishDraft(g, expected) => Draft(g)!Publish(expected)
             /\ WithdrawGuide(g, expected) => Draft(g)!Withdraw(expected)
             /\ ReinstateGuide(g, expected) => Draft(g)!Reinstate(expected)
  BY PublishIsPublish, WithdrawIsWithdraw, ReinstateIsReinstate
<1>4. ASSUME NEW audience \in Visibility, NEW expectedRelease \in 0..MaxDraftVersion,
             SetGuideAudience(g, audience, expectedRelease)
      PROVE  Draft(g)!Move(audience, expectedRelease)
  BY <1>4, MoveIsMove, ExpectationsAreNumbers
<1> QED
  BY <1>1, <1>2, <1>3, <1>4 DEF Served

\* Every transaction is a step of each guide's draft, or passes it by.
LEMMA DraftsMove ==
    ASSUME Typed, [Next]_vars
    PROVE  \A g \in Guides : [Draft(g)!DraftNext]_(Draft(g)!draftVars)
<1>1. CASE CategoryStep \/ CatalogStep \/ UNCHANGED vars
  <2>1. UNCHANGED <<guide, release>>
    BY <1>1, CategoryStepsWriteRows, CatalogStepsWriteRows DEF WriteCategory, WriteItem, vars
  <2> QED BY <2>1, UntouchedStutters DEF Untouched
<1>2. ASSUME NEW g \in Guides, OnlyGuide(g), Draft(g)!DraftNext
      PROVE  \A h \in Guides : [Draft(h)!DraftNext]_(Draft(h)!draftVars)
  <2>1. ASSUME NEW h \in Guides \ {g} PROVE UNCHANGED Draft(h)!draftVars
    BY <1>2, UntouchedStutters DEF OnlyGuide, Untouched
  <2> QED BY <1>2, <2>1
<1>3. ASSUME NEW g \in Guides, NEW c \in Categories, NEW document \in Documents,
             NEW audience \in Visibility, CreateDraft(g, audience, c, document)
      PROVE  \A h \in Guides : [Draft(h)!DraftNext]_(Draft(h)!draftVars)
  <2>1. OnlyGuide(g) /\ Draft(g)!Create([category |-> c, requirements |-> document], audience)
    BY <1>3, CreateDraftEffect, CreateIsCreate
  <2>2. [category |-> c, requirements |-> document] \in [category : Categories, requirements : Documents]
    OBVIOUS
  <2>3. Draft(g)!DraftNext
    BY <2>1, <2>2 DEF Draft!DraftNext, Draft!Sections, Visibility
  <2> QED BY <1>2, <2>1, <2>3
<1>4. ASSUME NEW g \in Guides, NEW c \in Categories, NEW document \in Documents,
             NEW expectedVersion \in 1..MaxDraftVersion, SaveDraft(g, expectedVersion, c, document)
      PROVE  \A h \in Guides : [Draft(h)!DraftNext]_(Draft(h)!draftVars)
  <2>1. /\ OnlyGuide(g)
        /\ Draft(g)!Save(expectedVersion, [category |-> c, requirements |-> document])
    BY <1>4, SaveDraftEffect, SaveIsSave, ExpectationsAreNumbers
  <2>2. [category |-> c, requirements |-> document] \in [category : Categories, requirements : Documents]
    OBVIOUS
  <2>3. expectedVersion \in 0..MaxDraftVersion
    BY BoundsAssumption
  <2>4. Draft(g)!DraftNext
    BY <2>1, <2>2, <2>3 DEF Draft!DraftNext
  <2> QED BY <1>2, <2>1, <2>4
<1>5. ASSUME NEW g \in Guides, NEW expected \in Expectation,
             \/ PublishDraft(g, expected)
             \/ WithdrawGuide(g, expected)
             \/ ReinstateGuide(g, expected)
      PROVE  \A h \in Guides : [Draft(h)!DraftNext]_(Draft(h)!draftVars)
  <2>1. OnlyGuide(g)
    BY <1>5, PublishDraftEffect, WithdrawGuideEffect, ReinstateGuideEffect
  <2>2. expected \in Draft(g)!Expectations
    BY DEF Expectation, Draft!Expectations
  <2>3. Draft(g)!Publish(expected) \/ Draft(g)!Withdraw(expected) \/ Draft(g)!Reinstate(expected)
    BY <1>5, PublishIsPublish, WithdrawIsWithdraw, ReinstateIsReinstate
  <2>4. Draft(g)!DraftNext
    BY <2>2, <2>3 DEF Draft!DraftNext
  <2> QED BY <1>2, <2>1, <2>4
<1>6. ASSUME NEW g \in Guides, NEW audience \in Visibility, NEW expectedRelease \in 0..MaxDraftVersion,
             SetGuideAudience(g, audience, expectedRelease)
      PROVE  \A h \in Guides : [Draft(h)!DraftNext]_(Draft(h)!draftVars)
  <2>1. OnlyGuide(g) /\ Draft(g)!Move(audience, expectedRelease)
    BY <1>6, SetGuideAudienceEffect, MoveIsMove, ExpectationsAreNumbers
  <2>2. Draft(g)!DraftNext
    BY <2>1 DEF Draft!DraftNext, Draft!Sections, Visibility
  <2> QED BY <1>2, <2>1, <2>2
<1> QED
  BY <1>1, <1>3, <1>4, <1>5, <1>6 DEF Next, DraftStep, PublicationStep

\* An empty library has created no draft.
LEMMA DraftsStart == Init => \A g \in Guides : Draft(g)!DraftInit
<1> SUFFICES ASSUME Init, NEW g \in Guides PROVE Draft(g)!DraftInit
  OBVIOUS
<1>1. guide[g] = NoGuide /\ release[g] = <<>>
  BY DEF Init
<1>2. DraftOf(g) = Draft(g)!Absent
  BY <1>1 DEF DraftOf, Draft!Absent, Says, NoGuide
<1>3. ReleasesOf(g) = <<>>
  BY <1>1 DEF ReleasesOf
<1> QED
  BY <1>2, <1>3 DEF Draft!DraftInit

\* Whatever categories, items and guides there are, and whatever clients send, each
\* guide is the draft GuideDraft describes to them and each request is served for
\* exactly the version, release and revision it names, or not at all: the editor,
\* which is modelled as a client of GuideDraft, may count on it.
THEOREM LibraryImplementsDrafts == Spec => ImplementsDrafts
<1>1. Init => Typed
  BY InitTyped
<1>2. Typed /\ [Next]_vars => Typed'
  BY NextTyped
<1>3. Init => \A g \in Guides : Draft(g)!DraftInit
  BY DraftsStart
<1>4. Typed /\ [Next]_vars =>
        [\A g \in Guides : Served(g) /\ [Draft(g)!DraftNext]_(Draft(g)!draftVars)]_vars
  BY DraftsMove, RequestsAreServed
<1> QED
  BY <1>1, <1>2, <1>3, <1>4, PTL DEF Spec, ImplementsDrafts

-----------------------------------------------------------------------------
(* Pages, and the requests that come of them *)

\* What the numbers of a page vouch for, however old the page is.
Vouched(g, page) ==
    /\ page.row \in GuideRow
    /\ page.told = page.row.revision
    /\ guide[g].state # "absent"
    /\ page.row.version <= guide[g].version
    /\ page.row.version = guide[g].version => Says(page.row) = Says(guide[g])
    /\ page.row.revision <= guide[g].revision
    /\ page.row.revision = guide[g].revision =>
         /\ page.row.state = guide[g].state
         /\ page.row.audience = guide[g].audience
         /\ page.row.publishedVersion = guide[g].publishedVersion
    /\ page.row.currentRelease <= guide[g].currentRelease
    /\ page.row.currentRelease = guide[g].currentRelease => page.current = Current(g)

PagesAreVouched == \A g \in Guides : \A page \in screen[g] : Vouched(g, page)

\* How a guide that exists goes on: whatever a number vouches for changes only with
\* the number.
GoesOn(g) ==
    /\ guide'[g].state # "absent"
    /\ \/ guide'[g].version = guide[g].version + 1
       \/ guide'[g].version = guide[g].version /\ Says(guide'[g]) = Says(guide[g])
    /\ \/ guide'[g].revision = guide[g].revision + 1
       \/ /\ guide'[g].revision = guide[g].revision
          /\ guide'[g].state = guide[g].state
          /\ guide'[g].audience = guide[g].audience
          /\ guide'[g].publishedVersion = guide[g].publishedVersion
    /\ \/ guide'[g].currentRelease = guide[g].currentRelease + 1
       \/ guide'[g].currentRelease = guide[g].currentRelease /\ release'[g] = release[g]

\* A page stays vouched for as its guide goes on.
LEMMA PageStaysVouched ==
    ASSUME Typed, NEW g \in Guides, NEW page, Vouched(g, page), GoesOn(g)
    PROVE  Vouched(g, page)'
<1>1. /\ guide[g].version \in Nat /\ page.row.version \in Nat
      /\ guide[g].revision \in Nat /\ page.row.revision \in Nat
      /\ guide[g].currentRelease \in Nat /\ page.row.currentRelease \in Nat
  BY DEF Typed, TypeOK, Vouched, GuideRow
<1>2. /\ page.row.version <= guide'[g].version
      /\ page.row.version = guide'[g].version => Says(page.row) = Says(guide'[g])
  BY <1>1 DEF Vouched, GoesOn
<1>3. /\ page.row.revision <= guide'[g].revision
      /\ page.row.revision = guide'[g].revision =>
           /\ page.row.state = guide'[g].state
           /\ page.row.audience = guide'[g].audience
           /\ page.row.publishedVersion = guide'[g].publishedVersion
  BY <1>1 DEF Vouched, GoesOn
<1>4. /\ page.row.currentRelease <= guide'[g].currentRelease
      /\ page.row.currentRelease = guide'[g].currentRelease =>
           guide'[g].currentRelease = guide[g].currentRelease /\ release'[g] = release[g]
  BY <1>1 DEF Vouched, GoesOn
<1>5. page.row.currentRelease = guide'[g].currentRelease => page.current = Current(g)'
  BY <1>4 DEF Vouched, Current, HasRelease, CurrentRelease
<1>6. (Says(page.row) = Says(guide[g]))' <=> Says(page.row) = Says(guide'[g])
  BY DEF Says
<1> QED
  BY <1>2, <1>3, <1>4, <1>5, <1>6 DEF Vouched, GoesOn

\* A guide that is not touched, and exists, goes on.
LEMMA UntouchedGoesOn ==
    ASSUME NEW g \in Guides, Untouched(g), guide[g].state # "absent"
    PROVE  GoesOn(g)
BY DEF Untouched, GoesOn

\* Every transaction lets every guide that exists go on.
LEMMA GuidesGoOn ==
    ASSUME Typed, Next, NEW h \in Guides, guide[h].state # "absent"
    PROVE  GoesOn(h)
<1>1. CASE CategoryStep \/ CatalogStep
  <2>1. UNCHANGED <<guide, release>>
    BY <1>1, CategoryStepsWriteRows, CatalogStepsWriteRows DEF WriteCategory, WriteItem
  <2> QED BY <2>1, UntouchedGoesOn DEF Untouched
<1>2. ASSUME NEW g \in Guides, OnlyGuide(g), g = h => GoesOn(h)
      PROVE  GoesOn(h)
  BY <1>2, UntouchedGoesOn DEF OnlyGuide, Untouched
<1>3. ASSUME NEW g \in Guides, NEW c \in Categories, NEW document \in Documents,
             NEW audience \in Visibility, CreateDraft(g, audience, c, document)
      PROVE  GoesOn(h)
  BY <1>2, <1>3, CreateDraftEffect
<1>4. ASSUME NEW g \in Guides, NEW c \in Categories, NEW document \in Documents,
             NEW expectedVersion \in 1..MaxDraftVersion, SaveDraft(g, expectedVersion, c, document)
      PROVE  GoesOn(h)
  <2>1. OnlyGuide(g) /\ GoesOn(g)
    BY <1>4, SaveDraftEffect, ExpectationsAreNumbers DEF GoesOn
  <2> QED BY <1>2, <2>1
<1>5. ASSUME NEW g \in Guides, NEW expected \in Expectation, PublishDraft(g, expected)
      PROVE  GoesOn(h)
  <2>1. OnlyGuide(g) /\ GoesOn(g)
    BY <1>5, PublishDraftEffect DEF GoesOn, Says
  <2> QED BY <1>2, <2>1
<1>6. ASSUME NEW g \in Guides, NEW expected \in Expectation,
             WithdrawGuide(g, expected) \/ ReinstateGuide(g, expected)
      PROVE  GoesOn(h)
  <2>1. OnlyGuide(g) /\ GoesOn(g)
    BY <1>6, WithdrawGuideEffect, ReinstateGuideEffect DEF GoesOn, Says
  <2> QED BY <1>2, <2>1
<1>7. ASSUME NEW g \in Guides, NEW audience \in Visibility, NEW expectedRelease \in 0..MaxDraftVersion,
             SetGuideAudience(g, audience, expectedRelease)
      PROVE  GoesOn(h)
  <2>1. OnlyGuide(g) /\ GoesOn(g)
    BY <1>7, SetGuideAudienceEffect, ExpectationsAreNumbers DEF GoesOn, Says
  <2> QED BY <1>2, <2>1
<1> QED
  BY <1>1, <1>3, <1>4, <1>5, <1>6, <1>7 DEF Next, DraftStep, PublicationStep

\* A page says what the guide is when it is delivered.
LEMMA NewPageIsVouched ==
    ASSUME Typed, OutboxTellsPublication, NEW g \in Guides, guide[g].state # "absent"
    PROVE  Vouched(g, Page(g))
<1>1. guide[g] \in GuideRow
  BY DEF Typed, TypeOK
<1>2. guide[g].version \in Nat /\ guide[g].revision \in Nat /\ guide[g].currentRelease \in Nat
  BY <1>1 DEF GuideRow
<1>3. Len(outbox[g]) = guide[g].revision
  BY DEF OutboxTellsPublication
<1> QED
  BY <1>1, <1>2, <1>3 DEF Vouched, Page

ScreensInv == ShelfInv /\ OutboxTellsPublication /\ DOMAIN screen = Guides /\ PagesAreVouched

\* Nothing can take the numbers of a page away from what they vouch for.
LEMMA NextVouched ==
    ASSUME ScreensInv, [ScreensNext]_screenVars
    PROVE  DOMAIN screen' = Guides /\ PagesAreVouched'
<1>0. Typed
  BY DEF ScreensInv, ShelfInv
<1>1. ASSUME NEW g \in Guides, Look(g)
      PROVE  DOMAIN screen' = Guides /\ PagesAreVouched'
  <2>1. UNCHANGED <<guide, release, outbox>>
    BY <1>1 DEF Look, vars
  <2>2. ASSUME NEW h \in Guides, NEW page, Vouched(h, page)
        PROVE  Vouched(h, page)'
    BY <2>1, <2>2 DEF Vouched, Says, Current, HasRelease, CurrentRelease
  <2>3. Vouched(g, Page(g))
    BY <1>0, <1>1, NewPageIsVouched DEF Look, ScreensInv
  <2>4. /\ DOMAIN screen' = Guides
        /\ screen'[g] = {Page(g)}
        /\ \A h \in Guides \ {g} : screen'[h] = screen[h]
    BY <1>1 DEF Look, ScreensInv
  <2>5. \A h \in Guides : \A page \in screen'[h] : Vouched(h, page)
    BY <2>3, <2>4 DEF ScreensInv, PagesAreVouched
  <2> QED BY <2>2, <2>4, <2>5 DEF PagesAreVouched
<1>2. CASE Next /\ UNCHANGED screen
  <2>1. ASSUME NEW g \in Guides, NEW page \in screen[g]
        PROVE  Vouched(g, page)'
    <3>1. Vouched(g, page)
      BY <2>1 DEF ScreensInv, PagesAreVouched
    <3>2. guide[g].state # "absent"
      BY <3>1 DEF Vouched
    <3> QED BY <1>0, <1>2, <3>1, <3>2, GuidesGoOn, PageStaysVouched
  <2> QED BY <1>2, <2>1 DEF ScreensInv, PagesAreVouched
<1>3. CASE UNCHANGED screenVars
  <2>1. UNCHANGED <<guide, release, screen>>
    BY <1>3 DEF screenVars, vars
  <2>2. ASSUME NEW g \in Guides, NEW page, Vouched(g, page)
        PROVE  Vouched(g, page)'
    BY <2>1, <2>2 DEF Vouched, Says, Current, HasRelease, CurrentRelease
  <2> QED BY <2>1, <2>2 DEF ScreensInv, PagesAreVouched
<1> QED
  BY <1>1, <1>2, <1>3 DEF ScreensNext

\* A page is no part of the library: whatever is done with it is the library's step.
LEMMA ScreensAreLibraries == [ScreensNext]_screenVars => [Next]_vars
BY DEF ScreensNext, screenVars, Look

\* The invariant of the pages is inductive.
LEMMA ScreensInvariant ==
    /\ ScreensInit => ScreensInv
    /\ ScreensInv /\ [ScreensNext]_screenVars => ScreensInv'
<1>1. ScreensInit => ScreensInv
  BY ShelfInvariant, InitTold DEF ScreensInit, ScreensInv, PagesAreVouched
<1>2. ScreensInv /\ [ScreensNext]_screenVars => ShelfInv' /\ OutboxTellsPublication'
  BY ScreensAreLibraries, ShelfInvariant, NextTold DEF ScreensInv, ShelfInv
<1> QED
  BY <1>1, <1>2, NextVouched DEF ScreensInv

\* What the numbers vouch for is all that a request's author saw of it.
LEMMA RequestsAreMeant ==
    ASSUME ScreensInv, NEW g \in Guides, NEW page \in screen[g]
    PROVE  ActsOnWhatWasShown(g, page)
<1>1. Vouched(g, page)
  BY DEF ScreensInv, PagesAreVouched
<1>2. Len(outbox[g]) = guide[g].revision
  BY DEF ScreensInv, OutboxTellsPublication
<1>3. guide[g] \in GuideRow /\ page.row \in GuideRow
  BY <1>1 DEF ScreensInv, ShelfInv, Typed, TypeOK, Vouched
<1>4. ASSUME NEW c \in Categories, NEW document \in Documents,
             SaveDraft(g, page.row.version, c, document)
      PROVE  Says(guide[g]) = Says(page.row)
  BY <1>1, <1>4 DEF SaveDraft, Vouched
<1>5. ASSUME guide[g].revision = page.row.revision, guide[g].currentRelease = page.row.currentRelease
      PROVE  /\ Len(outbox[g]) = page.told
             /\ Current(g) = page.current
             /\ guide[g].audience = page.row.audience
             /\ guide[g].state = page.row.state
             /\ guide[g].publishedVersion = page.row.publishedVersion
  BY <1>1, <1>2, <1>5 DEF Vouched
<1>6. ASSUME PublishDraft(g, Sent(page))
      PROVE  guide[g] = page.row
  <2>1. /\ guide[g].revision = page.row.revision
        /\ guide[g].currentRelease = page.row.currentRelease
        /\ guide[g].version = page.row.version
    BY <1>6 DEF PublishDraft, Publishable, Sent
  <2>2. guide[g].category = page.row.category /\ guide[g].requirements = page.row.requirements
    BY <1>1, <2>1 DEF Vouched, Says
  <2> QED BY <1>3, <1>5, <2>1, <2>2 DEF GuideRow
<1>7. ASSUME PublishDraft(g, Sent(page)) \/ WithdrawGuide(g, Sent(page)) \/ ReinstateGuide(g, Sent(page))
      PROVE  guide[g].revision = page.row.revision /\ guide[g].currentRelease = page.row.currentRelease
  BY <1>7 DEF PublishDraft, Publishable, WithdrawGuide, ReinstateGuide, ExpectedPublication, Sent
<1>8. ASSUME NEW audience \in Visibility, SetGuideAudience(g, audience, page.row.currentRelease)
      PROVE  Current(g) = page.current
  BY <1>1, <1>8 DEF SetGuideAudience, Vouched
<1> QED
  BY <1>4, <1>5, <1>6, <1>7, <1>8 DEF ActsOnWhatWasShown

\* However old the page a request comes from and whatever was decided meanwhile, on
\* this guide or any other: what takes effect is what its author had read.
THEOREM RequestsMeanWhatWasRead == ScreensSpec => RequestsActOnWhatWasShown
<1>1. ScreensInit => ScreensInv
  BY ScreensInvariant
<1>2. ScreensInv /\ [ScreensNext]_screenVars => ScreensInv'
  BY ScreensInvariant
<1>3. ScreensInv /\ [ScreensNext]_screenVars =>
        [\A g \in Guides : \A page \in screen[g] : ActsOnWhatWasShown(g, page)]_screenVars
  BY RequestsAreMeant
<1> QED
  BY <1>1, <1>2, <1>3, PTL DEF ScreensSpec, RequestsActOnWhatWasShown
=============================================================================
