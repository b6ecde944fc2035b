--------------------------- MODULE Editing_proofs ---------------------------
(***************************************************************************)
(* Proofs about the guide editor: for every set of contents, every number  *)
(* of requests under way at once, every length of a document and every      *)
(* catalog, where the run editing has a few of each.                        *)
(***************************************************************************)
EXTENDS Editor, Authoring, SequenceTheorems, TLAPS

(* The editor and the server *)

Said == Contents \cup {NoContent}
States == {"absent", "draft", "published", "withdrawn"}

Rows == [content : Said, version : Nat, state : States, audience : Sections,
         release : Nat, published : Nat, revision : Nat]
Screens == [content : Said, version : Nat, state : States, audience : Sections,
            release : Nat, published : Nat, revision : Nat, base : Nat,
            sources : {"one", "two"}]
Calls == [stage : {"idle", "sent", "answered"}, asked : Screens,
          outcome : {"none", "done", "failed", "conflict", "changed"},
          reply : Rows, overtaken : BOOLEAN]

\* The draft has as many releases as the server counts.
DraftTyped ==
    /\ draft \in Rows
    /\ released \in Seq(Said)
    /\ draft.release = Len(released)

CallTyped == call \in [Kinds -> Calls]

ScreenTyped ==
    /\ screen \in Screens
    /\ observed \in Screens
    /\ baseline \in Said
    /\ typed \in Said
    /\ delivered \subseteq Nat

FlagsTyped ==
    /\ opened \in BOOLEAN
    /\ conflict \in BOOLEAN
    /\ license \in BOOLEAN
    /\ dialog \in {"none", "item", "publish", "act"}

\* A version is the draft's or an earlier one, and at the draft's own it says what
\* the draft says.
AtVersion(version, content) ==
    /\ version <= draft.version
    /\ version = draft.version => content = draft.content

\* The same of a revision and the section that came with it.
AtRevision(revision, audience) ==
    /\ revision <= draft.revision
    /\ revision = draft.revision => audience = draft.audience

\* What the screen shows: a delivered version with the text that counts as saved, and
\* a revision with its section, unless they come from two answers.
ScreenInv ==
    opened =>
        /\ screen.version \in delivered
        /\ AtVersion(screen.version, baseline)
        /\ screen.revision <= draft.revision
        /\ screen.sources = "one" => AtRevision(screen.revision, screen.audience)

DialogInv == dialog # "none" => opened

\* Every answer says what the draft was when it was given.
ReplyIsTrue(kind) ==
    AnsweredWith(kind, "done") =>
        /\ AtRevision(Reply(kind).revision, Reply(kind).audience)
        /\ kind \in {"load", "save"} => AtVersion(Reply(kind).version, Reply(kind).content)

ReplyInv == \A kind \in Kinds : ReplyIsTrue(kind)

\* A save that is under way was sent from a delivered version, and its answer is what
\* it sent.
SaveInv ==
    /\ UnderWay("save") => Asked("save").version \in delivered
    /\ AnsweredWith("save", "done") => Reply("save").content = Asked("save").content

\* A publication that is under way says what its screen showed.
AskedInv ==
    Asks("publish") =>
        /\ AtVersion(Asked("publish").version, Asked("publish").content)
        /\ Asked("publish").revision <= draft.revision
        /\ Asked("publish").sources = "one" =>
               AtRevision(Asked("publish").revision, Asked("publish").audience)

\* And one that took effect made the release it names.
AnswerInv ==
    AnsweredWith("publish", "done") =>
        /\ Reply("publish").release \in DOMAIN released
        /\ ReleasesAreAsConfirmed

EditorInv ==
    /\ DraftTyped
    /\ CallTyped
    /\ ScreenTyped
    /\ FlagsTyped
    /\ DialogInv
    /\ WritingStays
    /\ ScreenInv
    /\ ReplyInv
    /\ SaveInv
    /\ AskedInv
    /\ AnswerInv

(* The draft only goes on *)

\* What any step of the server does to a draft: versions and revisions go on, a
\* version keeps its text, a revision its section, a release what it says.
Onward ==
    /\ DraftTyped'
    /\ draft.version <= draft'.version
    /\ draft.version = draft'.version => draft.content = draft'.content
    /\ draft.revision <= draft'.revision
    /\ draft.revision = draft'.revision => draft.audience = draft'.audience
    /\ \A n \in DOMAIN released : n \in DOMAIN released' /\ released'[n] = released[n]

\* A save stores a text the guide can say.
LEMMA SaveGoesOn ==
    ASSUME DraftTyped, NEW version \in Nat, NEW content \in Said, Save(version, content)
    PROVE  Onward
<1>0. draft \in Rows  BY DEF DraftTyped
<1>1. draft' = [draft EXCEPT !.version = draft.version + 1, !.content = content]
      /\ released' = released /\ draft.version = version
  BY DEF Save
<1>a. draft.version + 1 \in Nat  BY <1>0 DEF Rows
<1>2. draft' \in Rows /\ draft'.release = draft.release /\ draft'.version = draft.version + 1
      /\ draft'.revision = draft.revision /\ draft'.audience = draft.audience
  BY <1>0, <1>1, <1>a DEF Rows
<1>3. draft.revision \in Nat /\ draft.version \in Nat  BY <1>0 DEF Rows
<1>4. DraftTyped'  BY <1>1, <1>2 DEF DraftTyped
<1>5. \A n \in DOMAIN released : n \in DOMAIN released' /\ released'[n] = released[n]
  BY <1>1
<1>6. QED  BY <1>1, <1>2, <1>3, <1>4, <1>5 DEF Onward

\* A publication appends what the draft says.
LEMMA PublishGoesOn ==
    ASSUME DraftTyped, NEW expected, Publish(expected)
    PROVE  /\ Onward
           /\ draft'.release \in DOMAIN released'
           /\ released'[draft'.release] = draft.content
           /\ draft'.audience = draft.audience
<1>0. draft \in Rows  BY DEF DraftTyped
<1>1. draft' = [draft EXCEPT !.state = "published", !.release = @ + 1,
                             !.published = draft.version, !.revision = draft.revision + 1]
  BY <1>0 DEF Publish, Republished, Rows
<1>2. released' = Append(released, draft.content)  BY DEF Publish
<1>a. draft.release + 1 \in Nat /\ draft.version \in Nat /\ draft.revision + 1 \in Nat
      /\ "published" \in States
  BY <1>0 DEF Rows, States
<1>3. /\ draft' \in Rows
      /\ draft'.release = draft.release + 1
      /\ draft'.version = draft.version
      /\ draft'.content = draft.content
      /\ draft'.revision = draft.revision + 1
      /\ draft'.audience = draft.audience
  BY <1>0, <1>1, <1>a DEF Rows
<1>4. /\ released' \in Seq(Said)
      /\ Len(released') = Len(released) + 1
      /\ \A n \in DOMAIN released : n \in DOMAIN released' /\ released'[n] = released[n]
      /\ Len(released') \in DOMAIN released'
      /\ released'[Len(released')] = draft.content
  <2>1. released \in Seq(Said) /\ draft.content \in Said
    <3>1. released \in Seq(Said)  BY DEF DraftTyped
    <3>2. draft.content \in Said  BY <1>0 DEF Rows
    <3>3. QED  BY <3>1, <3>2
  <2>2. /\ released' \in Seq(Said)
        /\ Len(released') = Len(released) + 1
    BY <1>2, <2>1
  <2>3. DOMAIN released = 1..Len(released) /\ DOMAIN released' = 1..Len(released')
        /\ Len(released) \in Nat
    BY <2>1, <2>2
  <2>4. \A n \in 1..Len(released) : released'[n] = released[n]  BY <1>2, <2>1
  <2>5. released'[Len(released) + 1] = draft.content  BY <1>2, <2>1
  <2>6. QED  BY <2>2, <2>3, <2>4, <2>5
<1>5. draft.revision \in Nat  BY <1>0 DEF Rows
<1>6. DraftTyped /\ DraftTyped'  BY <1>3, <1>4 DEF DraftTyped
<1>7. draft.release = Len(released) /\ draft'.release = Len(released')
  BY <1>6 DEF DraftTyped
<1>8. draft.version \in Nat  BY <1>0 DEF Rows
<1>9. Onward  BY <1>3, <1>4, <1>5, <1>6, <1>8 DEF Onward
<1>10. QED  BY <1>3, <1>4, <1>7, <1>9

\* A withdrawal, a reinstatement and a move make a new publication state.
LEMMA StateGoesOn ==
    ASSUME DraftTyped, NEW state \in States, NEW audience \in Sections,
           draft.revision < MaxRevision,
           draft' = [draft EXCEPT !.state = state, !.audience = audience,
                                  !.revision = draft.revision + 1],
           released' = released
    PROVE  Onward
<1>0. draft \in Rows  BY DEF DraftTyped
<1>a. draft.revision + 1 \in Nat  BY <1>0 DEF Rows
<1>1. /\ draft' \in Rows
      /\ draft'.release = draft.release
      /\ draft'.version = draft.version
      /\ draft'.content = draft.content
      /\ draft'.revision = draft.revision + 1
  BY <1>0, <1>a DEF Rows
<1>2. draft.revision \in Nat /\ draft.version \in Nat  BY <1>0 DEF Rows
<1>3. DraftTyped'  BY <1>1 DEF DraftTyped
<1>4. \A n \in DOMAIN released : n \in DOMAIN released' /\ released'[n] = released[n]
  OBVIOUS
<1>5. QED  BY <1>1, <1>2, <1>3, <1>4 DEF Onward

\* Withdrawing and reinstating keep the section.
LEMMA ActGoesOn ==
    ASSUME DraftTyped, NEW expected, Withdraw(expected) \/ Reinstate(expected)
    PROVE  Onward
<1>0. draft \in Rows  BY DEF DraftTyped
<1>1. draft.audience \in Sections  BY <1>0 DEF Rows
<1>2. \E state \in States :
         draft' = [draft EXCEPT !.state = state, !.audience = draft.audience,
                                !.revision = draft.revision + 1]
  BY <1>0 DEF Withdraw, Reinstate, Republished, Rows, States
<1>3. draft.revision < MaxRevision /\ released' = released
  BY DEF Withdraw, Reinstate, Republished
<1>4. QED  BY <1>1, <1>2, <1>3, StateGoesOn

\* A move keeps the state.
LEMMA MoveGoesOn ==
    ASSUME DraftTyped, NEW audience \in Sections, NEW expectedRelease,
           Move(audience, expectedRelease)
    PROVE  Onward
<1>0. draft \in Rows  BY DEF DraftTyped
<1>1. draft.state \in States  BY <1>0 DEF Rows
<1>2. draft' = [draft EXCEPT !.state = draft.state, !.audience = audience,
                             !.revision = draft.revision + 1]
  BY <1>0 DEF Move, Republished, Rows
<1>3. draft.revision < MaxRevision /\ released' = released
  BY DEF Move, Republished
<1>4. QED  BY <1>1, <1>2, <1>3, StateGoesOn

\* And a step that leaves the draft alone goes on, too.
LEMMA StandsStill ==
    ASSUME DraftTyped, UNCHANGED draftVars
    PROVE  Onward
<1>0. draft \in Rows  BY DEF DraftTyped
<1>1. draft' = draft /\ released' = released  BY DEF draftVars
<1>2. draft.revision \in Nat /\ draft.version \in Nat  BY <1>0 DEF Rows
<1>3. QED  BY <1>1, <1>2 DEF Onward, DraftTyped

\* What was true of an earlier version or revision stays true.
LEMMA TruthStays ==
    ASSUME DraftTyped, Onward
    PROVE  /\ \A version \in Nat : \A content :
                AtVersion(version, content) => AtVersion(version, content)'
           /\ \A revision \in Nat : \A audience :
                AtRevision(revision, audience) => AtRevision(revision, audience)'
           /\ \A revision \in Nat : revision <= draft.revision => revision <= draft'.revision
<1>1. draft \in Rows /\ draft' \in Rows  BY DEF Onward, DraftTyped
<1>2. /\ draft.version \in Nat /\ draft'.version \in Nat
      /\ draft.revision \in Nat /\ draft'.revision \in Nat
  BY <1>1 DEF Rows
<1>3. QED  BY <1>2 DEF Onward, AtVersion, AtRevision

(* What the screen says, and the requests that carry it *)

\* The screen before anything is loaded, and a draft nobody has created.
LEMMA BlankTyped == Blank \in Screens /\ Absent \in Rows
<1>1. /\ NoContent \in Said
      /\ "absent" \in States
      /\ "members" \in Sections
      /\ 0 \in Nat
  BY DEF Said, States, Sections
<1>2. Absent \in Rows  BY <1>1 DEF Absent, Rows
<1>3. Blank = [content |-> NoContent, version |-> 0, state |-> "absent",
               audience |-> "members", release |-> 0, published |-> 0, revision |-> 0,
               base |-> 0, sources |-> "one"]
  BY DEF Blank, OnScreen, Absent
<1>4. Blank \in Screens  BY <1>1, <1>3 DEF Screens
<1>5. QED  BY <1>2, <1>4

\* An answer that takes the screen's place.
LEMMA OnScreenTyped ==
    ASSUME NEW row \in Rows, NEW base \in Nat
    PROVE  /\ OnScreen(row, base) \in Screens
           /\ OnScreen(row, base).content = row.content
           /\ OnScreen(row, base).version = row.version
           /\ OnScreen(row, base).audience = row.audience
           /\ OnScreen(row, base).revision = row.revision
           /\ OnScreen(row, base).sources = "one"
BY DEF OnScreen, Rows, Screens

\* An answer about the publication state.
LEMMA MergeTyped ==
    ASSUME NEW shown \in Screens, NEW row \in Rows
    PROVE  /\ MergePublicationState(shown, row) \in Screens
           /\ MergePublicationState(shown, row).content = shown.content
           /\ MergePublicationState(shown, row).version = shown.version
           /\ MergePublicationState(shown, row).audience = row.audience
           /\ MergePublicationState(shown, row).revision = row.revision
           /\ MergePublicationState(shown, row).sources = "one"
BY DEF MergePublicationState, Rows, Screens

\* What a request takes along of the screen.
LEMMA ShownTyped ==
    ASSUME ScreenTyped
    PROVE  /\ TextShown \in Screens
           /\ TextShown.content = screen.content
           /\ TextShown.version = screen.version
           /\ PublicationShown \in Screens
           /\ AllShown \in Screens
           /\ AllShown.content = screen.content
           /\ AllShown.version = screen.version
           /\ AllShown.audience = screen.audience
           /\ AllShown.revision = screen.revision
           /\ AllShown.sources = screen.sources
<1>1. screen \in Screens /\ Blank \in Screens  BY BlankTyped DEF ScreenTyped
<1>2. /\ TextShown \in Screens
      /\ TextShown.content = screen.content
      /\ TextShown.version = screen.version
  BY <1>1 DEF TextShown, Screens
<1>3. /\ PublicationShown \in Screens
      /\ PublicationShown.audience = screen.audience
      /\ PublicationShown.revision = screen.revision
      /\ PublicationShown.sources = screen.sources
  BY <1>1 DEF PublicationShown, Screens
<1>4. /\ AllShown \in Screens
      /\ AllShown.content = screen.content
      /\ AllShown.version = screen.version
      /\ AllShown.audience = PublicationShown.audience
      /\ AllShown.revision = PublicationShown.revision
      /\ AllShown.sources = PublicationShown.sources
  BY <1>1, <1>3 DEF AllShown, Screens
<1>5. QED  BY <1>2, <1>3, <1>4

\* A request that is not under way.
LEMMA IdleTyped == Idle \in Calls /\ Idle.stage = "idle"
BY BlankTyped DEF Idle, Calls

\* A request takes what was on the screen with it.
LEMMA SentTyped ==
    ASSUME NEW shown \in Screens
    PROVE  /\ Sent(shown) \in Calls
           /\ Sent(shown).stage = "sent"
           /\ Sent(shown).asked = shown
           /\ Sent(shown).outcome = "none"
BY IdleTyped, BlankTyped DEF Idle, Sent, Calls

(* The server answers *)

Outcomes == {"none", "done", "failed", "conflict", "changed"}

\* One request is answered; the others wait on.
Serves(kind) ==
    /\ call' \in [Kinds -> Calls]
    /\ \A other \in Kinds \ {kind} : call'[other] = call[other]
    /\ UnderWay(kind)
    /\ call'[kind].stage = "answered"
    /\ call'[kind].asked = call[kind].asked
    /\ call'[kind].outcome = "done" =>
           /\ call'[kind].reply = Told(kind)
           /\ kind = "save" => draft'.content = Asked("save").content
           /\ kind = "publish" => Asks("publish") /\ Publish(Asked("publish"))

\* What the server tells is the draft, or the part of it that the request is about.
LEMMA ToldTyped ==
    ASSUME NEW kind, DraftTyped'
    PROVE  /\ Told(kind) \in Rows
           /\ Told(kind).revision = draft'.revision
           /\ Told(kind).audience = draft'.audience
           /\ Told(kind).release = draft'.release
           /\ kind \in {"load", "save"} => Told(kind) = draft'
<1>1. draft' \in Rows  BY DEF DraftTyped
<1>2. NoContent \in Said  BY DEF Said
<1>3. QED  BY <1>1, <1>2 DEF Told, Rows

AnswersWith(kind, outcome, reply) ==
    call' = [call EXCEPT ![kind].stage = "answered", ![kind].outcome = outcome,
                         ![kind].reply = reply]

\* An answer is one the tab can read.
LEMMA AnswerTyped ==
    ASSUME CallTyped, NEW kind \in Kinds, NEW outcome \in Outcomes, NEW reply \in Rows,
           AnswersWith(kind, outcome, reply)
    PROVE  /\ call' \in [Kinds -> Calls]
           /\ \A other \in Kinds \ {kind} : call'[other] = call[other]
           /\ call'[kind].stage = "answered"
           /\ call'[kind].asked = call[kind].asked
           /\ call'[kind].outcome = outcome
           /\ call'[kind].reply = reply
<1> DEFINE row == [call[kind] EXCEPT !.stage = "answered", !.outcome = outcome,
                                     !.reply = reply]
<1>1. call[kind] \in Calls  BY DEF CallTyped
<1>2. row \in Calls
  <2>1. outcome \in {"none", "done", "failed", "conflict", "changed"}  BY DEF Outcomes
  <2>2. QED  BY <1>1, <2>1 DEF Calls
<1>3. /\ row.stage = "answered"
      /\ row.asked = call[kind].asked
      /\ row.outcome = outcome
      /\ row.reply = reply
  BY <1>1 DEF Calls
<1>4. call' = [call EXCEPT ![kind] = row]  BY DEF AnswersWith, CallTyped
<1> HIDE DEF row
<1>5. call'[kind] = row /\ call' \in [Kinds -> Calls]
      /\ \A other \in Kinds \ {kind} : call'[other] = call[other]
  BY <1>2, <1>4 DEF CallTyped
<1>6. QED  BY <1>3, <1>5

\* An answer, and what it takes to be one that took effect.
LEMMA AnswerServes ==
    ASSUME CallTyped, DraftTyped', NEW kind \in Kinds, NEW outcome \in Outcomes,
           Answer(kind, outcome), UnderWay(kind),
           outcome = "done" =>
               /\ kind = "save" => draft'.content = Asked("save").content
               /\ kind = "publish" => Asks("publish") /\ Publish(Asked("publish"))
    PROVE  Serves(kind)
<1>1. PICK reply \in Rows :
        /\ reply = IF outcome = "done" THEN Told(kind) ELSE Absent
        /\ AnswersWith(kind, outcome, reply)
  BY ToldTyped, BlankTyped DEF Answer, AnswersWith
<1>2. outcome = "done" => reply = Told(kind)  BY <1>1, Zenon
<1>3. /\ call' \in [Kinds -> Calls]
      /\ \A other \in Kinds \ {kind} : call'[other] = call[other]
      /\ call'[kind].stage = "answered"
      /\ call'[kind].asked = call[kind].asked
      /\ call'[kind].outcome = outcome
      /\ call'[kind].reply = reply
  BY <1>1, AnswerTyped
<1>4. call'[kind].outcome = "done" => call'[kind].reply = Told(kind)  BY <1>2, <1>3
<1>5. call'[kind].outcome = "done" =>
          /\ kind = "save" => draft'.content = Asked("save").content
          /\ kind = "publish" => Asks("publish") /\ Publish(Asked("publish"))
  BY <1>3, Zenon
<1>6. QED  BY <1>3, <1>4, <1>5 DEF Serves

\* What the server does with a request: the draft goes on, and one request is answered.
LEMMA ServeServes ==
    ASSUME DraftTyped, CallTyped, Serve
    PROVE  Onward /\ \E kind \in Kinds : Serves(kind)
<1>1. \A kind \in Kinds : Asks(kind) => UnderWay(kind)  BY DEF Asks, UnderWay
<1>2. \A kind \in Kinds : call[kind].asked \in Screens  BY DEF CallTyped, Calls
<1>3. {"done", "failed", "conflict", "changed"} \subseteq Outcomes  BY DEF Outcomes
<1>4. {"save", "publish", "act", "move"} \subseteq Kinds  BY DEF Kinds
<1>5. ASSUME NEW kind \in Kinds, UnderWay(kind), UNCHANGED draftVars,
             NEW outcome \in Outcomes, Answer(kind, outcome),
             outcome = "done" => kind \notin {"save", "publish"}
      PROVE  Onward /\ Serves(kind)
  <2>1. Onward  BY <1>5, StandsStill
  <2>2. QED  BY <1>5, <2>1, AnswerServes DEF Onward
<1>6. ASSUME NEW kind \in Kinds, ServeRead(kind) \/ ServeApart(kind)
      PROVE  Onward /\ Serves(kind)
  <2>1. /\ UnderWay(kind)
        /\ UNCHANGED draftVars
        /\ Answer(kind, "done")
        /\ kind \notin {"save", "publish"}
    BY <1>1, <1>6 DEF ServeRead, ServeApart
  <2>2. QED  BY <1>3, <1>5, <2>1
<1>7. ASSUME NEW kind \in Kinds, Refuse(kind)
      PROVE  Onward /\ Serves(kind)
  <2>1. /\ UnderWay(kind)
        /\ UNCHANGED draftVars
        /\ Answer(kind, "failed") \/ Answer(kind, "conflict")
    BY <1>1, <1>7 DEF Refuse
  <2>2. QED  BY <1>3, <1>5, <2>1
<1>8. ASSUME NEW kind \in Kinds, Lose(kind)
      PROVE  Onward /\ Serves(kind)
  <2>1. UnderWay(kind) /\ UNCHANGED draftVars /\ Answer(kind, "failed")
    BY <1>8 DEF Lose, Answer
  <2>2. QED  BY <1>3, <1>5, <2>1
<1>9. ASSUME ServeSave
      PROVE  Onward /\ Serves("save")
  <2>1. UnderWay("save")  BY <1>1, <1>4, <1>9 DEF ServeSave
  <2>2. CASE Save(Asked("save").version, Asked("save").content) /\ Answer("save", "done")
    <3>1. Asked("save").version \in Nat /\ Asked("save").content \in Said
      BY <1>2, <1>4 DEF Asked, Screens
    <3>2. Onward  BY <2>2, <3>1, SaveGoesOn
    <3>3. draft'.content = Asked("save").content
      <4>1. draft \in Rows  BY DEF DraftTyped
      <4>2. QED  BY <2>2, <4>1 DEF Save, Rows
    <3>4. QED  BY <1>3, <1>4, <2>1, <2>2, <3>2, <3>3, AnswerServes DEF Onward
  <2>3. CASE UNCHANGED draftVars /\ Answer("save", "conflict")
    BY <1>3, <1>4, <1>5, <2>1, <2>3
  <2>4. QED  BY <1>9, <2>2, <2>3 DEF ServeSave
<1>10. ASSUME ServePublish
       PROVE  Onward /\ Serves("publish")
  <2>1. Asks("publish") /\ UnderWay("publish")  BY <1>1, <1>4, <1>10 DEF ServePublish
  <2>2. CASE Publish(Asked("publish")) /\ Answer("publish", "done")
    <3>1. Onward  BY <2>2, PublishGoesOn
    <3>2. QED  BY <1>3, <1>4, <2>1, <2>2, <3>1, AnswerServes DEF Onward
  <2>3. CASE UNCHANGED draftVars
             /\ \E outcome \in {"failed", "conflict", "changed"} : Answer("publish", outcome)
    BY <1>3, <1>4, <1>5, <2>1, <2>3
  <2>4. QED  BY <1>10, <2>2, <2>3 DEF ServePublish
<1>11. ASSUME ServeAct
       PROVE  Onward /\ Serves("act")
  <2>1. UnderWay("act")  BY <1>1, <1>4, <1>11 DEF ServeAct
  <2>2. \/ Withdraw(Asked("act")) /\ Answer("act", "done")
        \/ Reinstate(Asked("act")) /\ Answer("act", "done")
        \/ UNCHANGED draftVars /\ Answer("act", "changed")
    BY <1>11 DEF ServeAct
  <2>3. CASE (Withdraw(Asked("act")) \/ Reinstate(Asked("act"))) /\ Answer("act", "done")
    <3>1. Onward  BY <2>3, ActGoesOn
    <3>2. QED  BY <1>3, <1>4, <2>1, <2>3, <3>1, AnswerServes DEF Onward
  <2>4. CASE UNCHANGED draftVars /\ Answer("act", "changed")
    BY <1>3, <1>4, <1>5, <2>1, <2>4
  <2>5. QED  BY <2>2, <2>3, <2>4
<1>12. ASSUME ServeMove
       PROVE  Onward /\ Serves("move")
  <2>1. UnderWay("move")  BY <1>1, <1>4, <1>12 DEF ServeMove
  <2>2. PICK audience : audience = OtherSection(Asked("move").audience)  OBVIOUS
  <2>3. \/ Move(audience, Asked("move").release) /\ Answer("move", "done")
        \/ UNCHANGED draftVars /\ Answer("move", "done")
    BY <1>12, <2>2 DEF ServeMove
  <2>4. CASE Move(audience, Asked("move").release) /\ Answer("move", "done")
    <3>1. audience \in Sections  BY <2>2 DEF OtherSection, Sections
    <3>2. Onward  BY <2>4, <3>1, MoveGoesOn
    <3>3. QED  BY <1>3, <1>4, <2>1, <2>4, <3>2, AnswerServes DEF Onward
  <2>5. CASE UNCHANGED draftVars /\ Answer("move", "done")
    BY <1>3, <1>4, <1>5, <2>1, <2>5
  <2>6. QED  BY <2>3, <2>4, <2>5
<1>13. \/ \E kind \in Kinds : ServeRead(kind) \/ ServeApart(kind) \/ Refuse(kind) \/ Lose(kind)
       \/ ServeSave \/ ServePublish \/ ServeAct \/ ServeMove
  BY DEF Serve
<1>14. QED  BY <1>4, <1>6, <1>7, <1>8, <1>9, <1>10, <1>11, <1>12, <1>13

\* What others do to the guide.
LEMMA ColleagueGoesOn ==
    ASSUME DraftTyped, Colleague
    PROVE  Onward /\ UNCHANGED tabVars
<1>1. CASE \E content \in Contents : Save(draft.version, content)
  <2>1. PICK content \in Contents : Save(draft.version, content)  BY <1>1
  <2>2. draft.version \in Nat
    <3>1. draft \in Rows  BY DEF DraftTyped
    <3>2. QED  BY <3>1 DEF Rows
  <2>3. content \in Said  BY DEF Said
  <2>4. QED  BY <2>1, <2>2, <2>3, SaveGoesOn DEF Colleague
<1>2. CASE Publish(draft)  BY <1>2, PublishGoesOn DEF Colleague
<1>3. CASE Withdraw(draft) \/ Reinstate(draft)  BY <1>3, ActGoesOn DEF Colleague
<1>4. CASE \E audience \in Sections : Move(audience, draft.release)
  BY <1>4, MoveGoesOn DEF Colleague
<1>5. QED  BY <1>1, <1>2, <1>3, <1>4 DEF Colleague

(* What the tab does with its requests *)

\* A request waits on, is done with, or is sent: a save with what the screen says, a
\* publication from its dialog, with everything saved.
Sends(kind) ==
    \E shown \in Screens :
        /\ call'[kind] = Sent(shown)
        /\ kind = "save" => shown = TextShown /\ Dirty
        /\ kind = "publish" => shown = AllShown /\ dialog = "publish" /\ ~Dirty

WaitsOn(kind) ==
    /\ call'[kind].stage = call[kind].stage
    /\ call'[kind].asked = call[kind].asked
    /\ call'[kind].outcome = call[kind].outcome
    /\ call'[kind].reply = call[kind].reply

TabCalls ==
    /\ call' \in [Kinds -> Calls]
    /\ \A kind \in Kinds : WaitsOn(kind) \/ call'[kind] = Idle \/ Sends(kind)

\* A step that starts and ends no request leaves them all waiting.
LEMMA CallsWait ==
    ASSUME CallTyped, UNCHANGED call
    PROVE  TabCalls
BY DEF CallTyped, TabCalls, WaitsOn

\* A request that ends leaves the others waiting.
LEMMA CallEnds ==
    ASSUME CallTyped, NEW kind \in Kinds, Done(kind)
    PROVE  TabCalls
<1>1. call' = [call EXCEPT ![kind] = Idle] /\ call \in [Kinds -> Calls]
  BY DEF Done, CallTyped
<1>2. call' \in [Kinds -> Calls]  BY <1>1, IdleTyped
<1>3. \A other \in Kinds : call'[other] = call[other] \/ call'[other] = Idle  BY <1>1
<1>4. QED  BY <1>2, <1>3 DEF TabCalls, WaitsOn

\* A request that starts takes the screen with it and leaves the others waiting.
LEMMA CallStarts ==
    ASSUME CallTyped, NEW kind \in Kinds, NEW shown \in Screens,
           call' = [call EXCEPT ![kind] = Sent(shown)],
           kind = "save" => shown = TextShown /\ Dirty,
           kind = "publish" => shown = AllShown /\ dialog = "publish" /\ ~Dirty
    PROVE  TabCalls
<1>1. call \in [Kinds -> Calls] /\ Sent(shown) \in Calls  BY SentTyped DEF CallTyped
<1>2. call' \in [Kinds -> Calls]  BY <1>1
<1>3. \A other \in Kinds \ {kind} : call'[other] = call[other]  BY <1>1
<1>4. call'[kind] = Sent(shown)  BY <1>1
<1>5. Sends(kind)  BY <1>4 DEF Sends
<1>6. QED  BY <1>2, <1>3, <1>5 DEF TabCalls, WaitsOn

\* A request is done with, and a question about the state follows it.
LEMMA CallAsks ==
    ASSUME CallTyped, NEW kind \in Kinds, NEW next \in Kinds \ {"save", "publish"}, kind # next,
           call' = [call EXCEPT ![kind] = Idle, ![next] = Sent(Blank)]
    PROVE  TabCalls
<1>1. /\ call \in [Kinds -> Calls]
      /\ Sent(Blank) \in Calls
      /\ Idle \in Calls
      /\ Blank \in Screens
  BY SentTyped, IdleTyped, BlankTyped DEF CallTyped
<1>2. call' \in [Kinds -> Calls]  BY <1>1
<1>3. \A other \in Kinds \ {kind, next} : call'[other] = call[other]  BY <1>1
<1>4. call'[kind] = Idle /\ call'[next] = Sent(Blank)  BY <1>1
<1>5. Sends(next)  BY <1>1, <1>4 DEF Sends
<1>6. QED  BY <1>2, <1>3, <1>4, <1>5 DEF TabCalls, WaitsOn

\* A refused save or publication ends, and may have the state read again.
LEMMA ProblemAsks ==
    ASSUME CallTyped, NEW kind \in {"save", "publish"}, Problem(kind)
    PROVE  TabCalls
<1>1. kind \in Kinds /\ "refresh" \in Kinds \ {"save", "publish"} /\ kind # "refresh"
  BY DEF Kinds
<1>2. CASE AnsweredWith(kind, "changed") /\ ~UnderWay("refresh")
  <2>1. call' = [call EXCEPT ![kind] = Idle, !["refresh"] = Sent(Blank)]
    BY <1>2 DEF Problem
  <2>2. QED  BY <1>1, <2>1, CallAsks
<1>3. CASE ~(AnsweredWith(kind, "changed") /\ ~UnderWay("refresh"))
  <2>1. Done(kind)  BY <1>1, <1>3 DEF Problem, Done, CallTyped
  <2>2. QED  BY <1>1, <2>1, CallEnds
<1>4. QED  BY <1>2, <1>3

\* A load takes the place of the screen: the requests under way were overtaken.
LEMMA LoadOvertakes ==
    ASSUME CallTyped, NEW row, ReplaceScreen(row)
    PROVE  TabCalls
<1>1. call' = [kind \in Kinds |->
                 IF kind = "load" THEN Idle
                 ELSE IF UnderWay(kind) THEN [call[kind] EXCEPT !.overtaken = TRUE] ELSE Idle]
  BY DEF ReplaceScreen
<1>2. ASSUME NEW kind \in Kinds
      PROVE  call'[kind] \in Calls /\ (WaitsOn(kind) \/ call'[kind] = Idle)
  <2>1. CASE call'[kind] = Idle  BY <2>1, IdleTyped
  <2>2. CASE call'[kind] = [call[kind] EXCEPT !.overtaken = TRUE]
    <3>1. call[kind] \in Calls  BY DEF CallTyped
    <3>2. QED  BY <2>2, <3>1 DEF Calls, WaitsOn
  <2>3. QED  BY <1>1, <2>1, <2>2
<1>3. call' \in [Kinds -> Calls]  BY <1>1, <1>2
<1>4. QED  BY <1>2, <1>3 DEF TabCalls

(* What the tab does to the screen *)

\* The text stays, or is what the author wrote last.
TextMoves ==
    \/ screen'.content = screen.content /\ typed' = typed
    \/ typed' \in {NoContent, screen'.content}

\* The version and the text that counts as saved stay, or come from one answer.
VersionMoves ==
    \/ screen'.version = screen.version /\ baseline' = baseline /\ opened' = opened
    \/ \E kind \in {"load", "save"} :
         /\ AnsweredWith(kind, "done")
         /\ screen'.version = Reply(kind).version
         /\ baseline' = Reply(kind).content
         /\ screen'.version \in delivered'

\* The revision and the section stay, come from one answer, or from two.
StateMoves ==
    \/ /\ screen'.revision = screen.revision
       /\ screen'.audience = screen.audience
       /\ screen'.sources = screen.sources
       /\ opened' = opened
    \/ \E kind \in Kinds :
         /\ AnsweredWith(kind, "done")
         /\ screen'.revision = Reply(kind).revision
         /\ screen'.audience = Reply(kind).audience
    \/ /\ AnsweredWith("publish", "done")
       /\ screen'.revision = Reply("publish").revision
       /\ screen'.sources = "two"

ScreenMoves ==
    /\ ScreenTyped'
    /\ delivered \subseteq delivered'
    /\ TextMoves
    /\ VersionMoves
    /\ StateMoves

\* Leaving the screen alone keeps all that is said of it.
LEMMA ScreenStays ==
    ASSUME ScreenTyped, UNCHANGED <<opened, screen, baseline, delivered, typed>>,
           observed' \in Screens
    PROVE  ScreenMoves
BY DEF ScreenTyped, ScreenMoves, TextMoves, VersionMoves, StateMoves

\* An answer about the publication state leaves the text and the version alone.
LEMMA StateIsMerged ==
    ASSUME ScreenTyped, CallTyped, NEW kind \in Kinds, AnsweredWith(kind, "done"),
           ApplyPublicationState(Reply(kind)), UNCHANGED <<opened, baseline, delivered, typed>>,
           observed' \in Screens
    PROVE  ScreenMoves
<1>1. screen \in Screens /\ Reply(kind) \in Rows
  BY DEF ScreenTyped, CallTyped, Calls, Reply
<1>2. CASE screen' = screen  BY <1>2, ScreenStays
<1>3. CASE screen' = MergePublicationState(screen, Reply(kind))
  <2>1. /\ screen' \in Screens
        /\ screen'.content = screen.content
        /\ screen'.version = screen.version
        /\ screen'.audience = Reply(kind).audience
        /\ screen'.revision = Reply(kind).revision
    BY <1>1, <1>3, MergeTyped
  <2>2. ScreenTyped'  BY <2>1 DEF ScreenTyped
  <2>3. QED  BY <2>1, <2>2 DEF ScreenMoves, TextMoves, VersionMoves, StateMoves
<1>4. QED  BY <1>2, <1>3 DEF ApplyPublicationState

\* A load takes the place of everything on the screen.
LEMMA LoadMoves ==
    ASSUME ScreenTyped, CallTyped, Loaded
    PROVE  ScreenMoves
<1>1. "load" \in Kinds /\ Reply("load") \in Rows
  BY DEF Kinds, CallTyped, Calls, Reply
<1>2. Reply("load").version \in Nat /\ Reply("load").content \in Said  BY <1>1 DEF Rows
<1>3. /\ screen' = OnScreen(Reply("load"), Reply("load").version)
      /\ baseline' = Reply("load").content
      /\ delivered' = delivered \cup {Reply("load").version}
      /\ typed' = NoContent
      /\ UNCHANGED observed
      /\ AnsweredWith("load", "done")
  BY DEF Loaded, ReplaceScreen
<1>4. /\ screen' \in Screens
      /\ screen'.version = Reply("load").version
      /\ screen'.audience = Reply("load").audience
      /\ screen'.revision = Reply("load").revision
  BY <1>1, <1>2, <1>3, OnScreenTyped
<1>5. ScreenTyped'
  <2>1. NoContent \in Said  BY DEF Said
  <2>2. QED  BY <1>2, <1>3, <1>4, <2>1 DEF ScreenTyped
<1>6. QED  BY <1>1, <1>3, <1>4, <1>5 DEF ScreenMoves, TextMoves, VersionMoves, StateMoves

\* Writing changes the text and nothing else that is shown.
LEMMA WritingMoves ==
    ASSUME ScreenTyped, NEW content \in Contents, NEW base \in Nat,
           \/ screen' = [screen EXCEPT !.content = content]
           \/ screen' = [screen EXCEPT !.content = content, !.base = base],
           typed' = content, UNCHANGED <<opened, baseline, observed, delivered>>
    PROVE  ScreenMoves
<1>1. content \in Said /\ screen \in Screens  BY DEF Said, ScreenTyped
<1>2. /\ screen' \in Screens
      /\ screen'.content = content
      /\ screen'.version = screen.version
      /\ screen'.audience = screen.audience
      /\ screen'.revision = screen.revision
      /\ screen'.sources = screen.sources
  BY <1>1 DEF Screens
<1>3. ScreenTyped'  BY <1>1, <1>2 DEF ScreenTyped
<1>4. QED  BY <1>2, <1>3 DEF ScreenMoves, TextMoves, VersionMoves, StateMoves

\* The answer of a save: what it stored, which is what it sent, or what was typed since.
LEMMA SavedMoves ==
    ASSUME ScreenTyped, CallTyped, SaveInv, Saved
    PROVE  ScreenMoves
<1> DEFINE stored == Reply("save")
<1>1. "save" \in Kinds /\ stored \in Rows /\ Asked("save") \in Screens /\ screen \in Screens
  BY DEF Kinds, CallTyped, Calls, Reply, Asked, ScreenTyped
<1>2. stored.version \in Nat /\ stored.content \in Said  BY <1>1 DEF Rows
<1>3. /\ screen' = AfterSave(stored, Asked("save"))
      /\ baseline' = stored.content
      /\ delivered' = delivered \cup {stored.version}
      /\ UNCHANGED <<opened, observed, typed>>
      /\ AnsweredWith("save", "done")
  BY DEF Saved
<1>4. stored.content = Asked("save").content  BY <1>3 DEF SaveInv
<1>5. /\ screen' \in Screens
      /\ screen'.content = screen.content
      /\ screen'.version = stored.version
      /\ screen'.audience = stored.audience
      /\ screen'.revision = stored.revision
  <2>1. CASE screen.content = Asked("save").content
    <3>1. screen' = OnScreen(stored, stored.version)  BY <1>3, <2>1 DEF AfterSave
    <3>2. QED  BY <1>1, <1>2, <1>4, <2>1, <3>1, OnScreenTyped
  <2>2. CASE screen.content # Asked("save").content
    <3>1. PICK merged : merged = MergePublicationState(screen, stored)  OBVIOUS
    <3>2. /\ merged \in Screens
          /\ merged.content = screen.content
          /\ merged.audience = stored.audience
          /\ merged.revision = stored.revision
      BY <1>1, <3>1, MergeTyped
    <3>3. PICK base \in Nat : screen' = [merged EXCEPT !.version = stored.version, !.base = base]
      <4>1. merged.base \in Nat  BY <3>2 DEF Screens
      <4>2. screen' = [merged EXCEPT !.version = stored.version,
                                     !.base = IF call["save"].overtaken THEN merged.base
                                              ELSE stored.version]
        BY <1>3, <2>2, <3>1 DEF AfterSave
      <4>3. QED  BY <1>2, <4>1, <4>2
    <3>4. QED  BY <1>2, <3>2, <3>3 DEF Screens
  <2>3. QED  BY <2>1, <2>2
<1> HIDE DEF stored
<1>6. ScreenTyped'  BY <1>2, <1>3, <1>5 DEF ScreenTyped
<1>7. VersionMoves  BY <1>3, <1>5 DEF VersionMoves, stored
<1>8. StateMoves  BY <1>1, <1>3, <1>5 DEF StateMoves, stored
<1>9. QED  BY <1>3, <1>5, <1>6, <1>7, <1>8 DEF ScreenMoves, TextMoves

\* The answer of a publication, with the section the screen had.
LEMMA PublishedMoves ==
    ASSUME ScreenTyped, CallTyped, Published
    PROVE  ScreenMoves
<1> DEFINE result == Reply("publish")
<1>1. "publish" \in Kinds /\ result \in Rows /\ Asked("publish") \in Screens
      /\ screen \in Screens
  BY DEF Kinds, CallTyped, Calls, Reply, Asked, ScreenTyped
<1>2. /\ result.revision \in Nat
      /\ result.release \in Nat
      /\ Asked("publish").version \in Nat
      /\ "published" \in States
  BY <1>1 DEF Rows, Screens, States
<1>3. /\ screen' = [screen EXCEPT !.state = "published", !.revision = result.revision,
                                  !.release = result.release,
                                  !.published = Asked("publish").version,
                                  !.sources = "two"]
      /\ UNCHANGED <<opened, baseline, observed, delivered, typed>>
      /\ AnsweredWith("publish", "done")
  BY DEF Published
<1> HIDE DEF result
<1>4. /\ screen' \in Screens
      /\ screen'.content = screen.content
      /\ screen'.version = screen.version
      /\ screen'.revision = result.revision
      /\ screen'.sources = "two"
  BY <1>1, <1>2, <1>3 DEF Screens
<1>5. ScreenTyped'  BY <1>3, <1>4 DEF ScreenTyped
<1>6. StateMoves  BY <1>3, <1>4 DEF StateMoves, result
<1>7. QED  BY <1>3, <1>4, <1>5, <1>6 DEF ScreenMoves, TextMoves, VersionMoves

\* The answer of a move between the sections.
LEMMA MovedMoves ==
    ASSUME ScreenTyped, CallTyped, Moved
    PROVE  ScreenMoves
<1>1. "move" \in Kinds /\ Reply("move") \in Rows /\ screen \in Screens
  BY DEF Kinds, CallTyped, Calls, Reply, ScreenTyped
<1>2. /\ screen' = MovedScreen(Reply("move"))
      /\ UNCHANGED <<opened, baseline, observed, delivered, typed>>
      /\ AnsweredWith("move", "done")
  BY DEF Moved
<1>3. /\ screen' \in Screens
      /\ screen'.content = screen.content
      /\ screen'.version = screen.version
      /\ screen'.audience = Reply("move").audience
      /\ screen'.revision = Reply("move").revision
  BY <1>1, <1>2 DEF MovedScreen, Rows, Screens
<1>4. ScreenTyped'  BY <1>2, <1>3 DEF ScreenTyped
<1>5. QED  BY <1>1, <1>2, <1>3, <1>4 DEF ScreenMoves, TextMoves, VersionMoves, StateMoves

(* Every step of the tab *)

\* Most steps leave the screen and what counts as saved alone.
Watching == UNCHANGED <<opened, screen, baseline, delivered, typed>> /\ observed' \in Screens

\* The first load and a reload.
LEMMA OpeningMoves ==
    ASSUME CallTyped, ScreenTyped, OpeningStep
    PROVE  TabCalls /\ ScreenMoves
<1>1. "load" \in Kinds \ {"save", "publish"} /\ Blank \in Screens  BY BlankTyped DEF Kinds
<1>2. CASE Loaded
  <2>1. ReplaceScreen(Reply("load"))  BY <1>2 DEF Loaded
  <2>2. QED  BY <1>2, <2>1, LoadOvertakes, LoadMoves
<1>3. CASE LoadFails
  <2>1. Done("load") /\ Watching  BY <1>3 DEF LoadFails, Watching, ScreenTyped
  <2>2. QED  BY <1>1, <2>1, CallEnds, ScreenStays DEF Watching
<1>4. CASE TryAgain \/ Reload
  <2>1. call' = [call EXCEPT !["load"] = Sent(Blank)] /\ Watching
    BY <1>4 DEF TryAgain, Reload, Watching, ScreenTyped
  <2>2. QED  BY <1>1, <2>1, CallStarts, ScreenStays DEF Watching
<1>5. QED  BY <1>2, <1>3, <1>4 DEF OpeningStep

\* Typing, uploads and the item form.
LEMMA WritingStepMoves ==
    ASSUME CallTyped, ScreenTyped, WritingStep
    PROVE  TabCalls /\ ScreenMoves
<1>1. {"upload", "item"} \subseteq Kinds \ {"save", "publish"} /\ Blank \in Screens
  BY BlankTyped DEF Kinds
<1>2. ASSUME NEW content \in Contents, Type(content)
      PROVE  TabCalls /\ ScreenMoves
  <2>1. /\ screen' = [screen EXCEPT !.content = content]
        /\ typed' = content
        /\ UNCHANGED <<opened, baseline, observed, delivered, call>>
    BY <1>2 DEF Type, Write
  <2>2. QED  BY <2>1, WritingMoves, CallsWait
<1>3. ASSUME NEW content \in Contents, Uploaded(content)
      PROVE  TabCalls /\ ScreenMoves
  <2>1. /\ screen' = [screen EXCEPT !.content = content]
        /\ typed' = content
        /\ UNCHANGED <<opened, baseline, observed, delivered>>
        /\ Done("upload")
    BY <1>3 DEF Uploaded, Write
  <2>2. QED  BY <1>1, <2>1, WritingMoves, CallEnds
<1>4. ASSUME NEW content \in Contents, ItemCreated(content)
      PROVE  TabCalls /\ ScreenMoves
  <2>1. PICK base \in Nat : screen' = [screen EXCEPT !.content = content, !.base = base]
    <3>1. screen.base \in Nat /\ Asked("item").base \in Nat
      BY <1>1 DEF CallTyped, ScreenTyped, Calls, Screens, Asked
    <3>2. screen' = [screen EXCEPT !.content = content,
                                   !.base = IF call["item"].overtaken THEN Asked("item").base
                                            ELSE screen.base]
      BY <1>4 DEF ItemCreated
    <3>3. QED  BY <3>1, <3>2
  <2>2. /\ typed' = content
        /\ UNCHANGED <<opened, baseline, observed, delivered>>
        /\ Done("item")
    BY <1>4 DEF ItemCreated
  <2>3. QED  BY <1>1, <2>1, <2>2, WritingMoves, CallEnds
<1>5. CASE Upload
  <2>1. call' = [call EXCEPT !["upload"] = Sent(Blank)] /\ Watching
    BY <1>5 DEF Upload, Watching, ScreenTyped
  <2>2. QED  BY <1>1, <2>1, CallStarts, ScreenStays DEF Watching
<1>6. CASE CreateItem
  <2>1. call' = [call EXCEPT !["item"] = Sent(TextShown)] /\ Watching
    BY <1>6 DEF CreateItem, Watching, ScreenTyped
  <2>2. PICK shown \in Screens : shown = TextShown  BY ShownTyped
  <2>3. QED  BY <1>1, <2>1, <2>2, CallStarts, ScreenStays DEF Watching
<1>7. CASE UploadFails
  <2>1. Done("upload") /\ Watching  BY <1>7 DEF UploadFails, Watching, ScreenTyped
  <2>2. QED  BY <1>1, <2>1, CallEnds, ScreenStays DEF Watching
<1>8. CASE LeaveItemForm \/ ItemFails
  <2>1. Done("item") /\ Watching  BY <1>8 DEF LeaveItemForm, ItemFails, Watching, ScreenTyped
  <2>2. QED  BY <1>1, <2>1, CallEnds, ScreenStays DEF Watching
<1>9. CASE OpenItemForm
  <2>1. UNCHANGED call /\ Watching  BY <1>9 DEF OpenItemForm, Watching, ScreenTyped
  <2>2. QED  BY <2>1, CallsWait, ScreenStays DEF Watching
<1>10. QED  BY <1>2, <1>3, <1>4, <1>5, <1>6, <1>7, <1>8, <1>9 DEF WritingStep

\* A save and its answer.
LEMMA SavingMoves ==
    ASSUME CallTyped, ScreenTyped, SaveInv, SavingStep
    PROVE  TabCalls /\ ScreenMoves
<1>1. "save" \in Kinds  BY DEF Kinds
<1>2. CASE SaveDraft
  <2>1. call' = [call EXCEPT !["save"] = Sent(TextShown)] /\ Watching /\ Dirty
    BY <1>2 DEF SaveDraft, Watching, ScreenTyped
  <2>2. PICK shown \in Screens : shown = TextShown  BY ShownTyped
  <2>3. QED  BY <1>1, <2>1, <2>2, CallStarts, ScreenStays DEF Watching
<1>3. CASE Saved
  <2>1. Done("save")  BY <1>3 DEF Saved
  <2>2. QED  BY <1>1, <1>3, <2>1, CallEnds, SavedMoves
<1>4. CASE SaveFails
  <2>1. Problem("save")  BY <1>4 DEF SaveFails
  <2>2. Watching  BY <2>1 DEF Problem, Watching, ScreenTyped
  <2>3. QED  BY <2>1, <2>2, ProblemAsks, ScreenStays DEF Watching
<1>5. QED  BY <1>2, <1>3, <1>4 DEF SavingStep

\* The publication dialog, its request and the readings after a refusal.
LEMMA PublishingMoves ==
    ASSUME CallTyped, ScreenTyped, PublishingStep
    PROVE  TabCalls /\ ScreenMoves
<1>1. {"publish", "refresh"} \subseteq Kinds  BY DEF Kinds
<1>2. CASE OpenPublication \/ ChooseLicense \/ ClosePublication
  <2>1. UNCHANGED call /\ Watching
    BY <1>2 DEF OpenPublication, ChooseLicense, ClosePublication, Watching, ScreenTyped
  <2>2. QED  BY <2>1, CallsWait, ScreenStays DEF Watching
<1>3. CASE ConfirmPublication
  <2>1. /\ call' = [call EXCEPT !["publish"] = Sent(AllShown)]
        /\ Watching
        /\ dialog = "publish" /\ ~Dirty
    BY <1>3 DEF ConfirmPublication, Watching, ScreenTyped
  <2>2. PICK shown \in Screens : shown = AllShown  BY ShownTyped
  <2>3. QED  BY <1>1, <2>1, <2>2, CallStarts, ScreenStays DEF Watching
<1>4. CASE Published
  <2>1. Done("publish")  BY <1>4 DEF Published
  <2>2. QED  BY <1>1, <1>4, <2>1, CallEnds, PublishedMoves
<1>5. CASE PublishFails
  <2>1. Problem("publish")  BY <1>5 DEF PublishFails
  <2>2. Watching  BY <2>1 DEF Problem, Watching, ScreenTyped
  <2>3. QED  BY <2>1, <2>2, ProblemAsks, ScreenStays DEF Watching
<1>6. CASE Refreshed
  <2>1. /\ AnsweredWith("refresh", "done")
        /\ ApplyPublicationState(Reply("refresh"))
        /\ UNCHANGED <<opened, baseline, delivered, typed>>
        /\ observed' \in Screens
        /\ Done("refresh")
    BY <1>6 DEF Refreshed, ScreenTyped
  <2>2. QED  BY <1>1, <2>1, CallEnds, StateIsMerged
<1>7. CASE RefreshFails
  <2>1. Done("refresh") /\ Watching  BY <1>7 DEF RefreshFails, Watching, ScreenTyped
  <2>2. QED  BY <1>1, <2>1, CallEnds, ScreenStays DEF Watching
<1>8. QED  BY <1>2, <1>3, <1>4, <1>5, <1>6, <1>7 DEF PublishingStep

\* The withdrawal dialog and its request.
LEMMA WithdrawingMoves ==
    ASSUME CallTyped, ScreenTyped, WithdrawingStep
    PROVE  TabCalls /\ ScreenMoves
<1>1. {"act", "reread"} \subseteq Kinds \ {"save", "publish"} /\ Blank \in Screens
  BY BlankTyped DEF Kinds
<1>2. CASE OpenWithdrawal \/ CloseWithdrawal
  <2>1. UNCHANGED call /\ Watching
    BY <1>1, <1>2, ShownTyped DEF OpenWithdrawal, CloseWithdrawal, Watching
  <2>2. QED  BY <2>1, CallsWait, ScreenStays DEF Watching
<1>3. CASE ConfirmWithdrawal
  <2>1. call' = [call EXCEPT !["act"] = Sent(observed)] /\ Watching
    BY <1>3 DEF ConfirmWithdrawal, Watching, ScreenTyped
  <2>2. PICK shown \in Screens : shown = observed  BY DEF ScreenTyped
  <2>3. QED  BY <1>1, <2>1, <2>2, CallStarts, ScreenStays DEF Watching
<1>4. CASE ActChanged
  <2>1. call' = [call EXCEPT !["act"] = Idle, !["reread"] = Sent(Blank)] /\ Watching
    BY <1>4 DEF ActChanged, Watching, ScreenTyped
  <2>2. QED  BY <1>1, <2>1, CallAsks, ScreenStays DEF Watching
<1>5. ASSUME NEW kind \in Kinds, Acted(kind)
      PROVE  TabCalls /\ ScreenMoves
  <2>1. /\ AnsweredWith(kind, "done")
        /\ ApplyPublicationState(Reply(kind))
        /\ UNCHANGED <<opened, baseline, delivered, typed>>
        /\ observed' \in Screens
        /\ Done(kind)
    BY <1>1, <1>5 DEF Acted
  <2>2. QED  BY <2>1, CallEnds, StateIsMerged
<1>6. ASSUME NEW kind \in Kinds, ActFails(kind)
      PROVE  TabCalls /\ ScreenMoves
  <2>1. Done(kind) /\ Watching  BY <1>6 DEF ActFails, Watching, ScreenTyped
  <2>2. QED  BY <2>1, CallEnds, ScreenStays DEF Watching
<1>7. QED  BY <1>2, <1>3, <1>4, <1>5, <1>6 DEF WithdrawingStep

\* A move to another section.
LEMMA MovingMoves ==
    ASSUME CallTyped, ScreenTyped, MovingStep
    PROVE  TabCalls /\ ScreenMoves
<1>1. "move" \in Kinds \ {"save", "publish"}  BY DEF Kinds
<1>2. CASE MoveSection
  <2>1. call' = [call EXCEPT !["move"] = Sent(PublicationShown)] /\ Watching
    BY <1>2 DEF MoveSection, Watching, ScreenTyped
  <2>2. PICK shown \in Screens : shown = PublicationShown  BY ShownTyped
  <2>3. QED  BY <1>1, <2>1, <2>2, CallStarts, ScreenStays DEF Watching
<1>3. CASE Moved
  <2>1. Done("move")  BY <1>3 DEF Moved
  <2>2. QED  BY <1>1, <1>3, <2>1, CallEnds, MovedMoves
<1>4. CASE MoveFails
  <2>1. Done("move") /\ Watching  BY <1>4 DEF MoveFails, Watching, ScreenTyped
  <2>2. QED  BY <1>1, <2>1, CallEnds, ScreenStays DEF Watching
<1>5. QED  BY <1>2, <1>3, <1>4 DEF MovingStep

\* No step of the tab moves the requests and the screen in any other way, or the draft.
LEMMA TabMoves ==
    ASSUME CallTyped, ScreenTyped, SaveInv, Tab
    PROVE  TabCalls /\ ScreenMoves /\ UNCHANGED draftVars
BY OpeningMoves, WritingStepMoves, SavingMoves, PublishingMoves, WithdrawingMoves, MovingMoves
   DEF Tab

(* The dialogs and the flags *)

\* A dialog closes, or one opens on a guide that is on the screen.
DialogMoves ==
    /\ opened' \in {opened, TRUE}
    /\ \/ dialog' \in {dialog, "none"}
       \/ dialog' \in {"item", "publish", "act"} /\ opened

\* No step of the tab opens a dialog in any other way.
LEMMA DialogsMove ==
    ASSUME Tab
    PROVE  DialogMoves
<1>1. CASE OpeningStep
  BY <1>1 DEF OpeningStep, Loaded, ReplaceScreen, LoadFails, TryAgain, Reload, DialogMoves
<1>2. CASE WritingStep
  BY <1>2 DEF WritingStep, Type, Write, Uploaded, ItemCreated, Upload, UploadFails, OpenItemForm,
              CreateItem, LeaveItemForm, ItemFails, DialogMoves
<1>3. CASE SavingStep
  BY <1>3 DEF SavingStep, SaveDraft, Saved, SaveFails, Problem, DialogMoves
<1>4. CASE PublishingStep
  BY <1>4 DEF PublishingStep, OpenPublication, ChooseLicense, ClosePublication, ConfirmPublication,
              Published, PublishFails, Problem, Refreshed, RefreshFails, DialogMoves
<1>5. CASE WithdrawingStep
  BY <1>5 DEF WithdrawingStep, OpenWithdrawal, CloseWithdrawal, ConfirmWithdrawal, ActChanged,
              Acted, ActFails, DialogMoves
<1>6. CASE MovingStep
  BY <1>6 DEF MovingStep, MoveSection, Moved, MoveFails, DialogMoves
<1>7. QED  BY <1>1, <1>2, <1>3, <1>4, <1>5, <1>6 DEF Tab

\* The flags stay flags.
LEMMA FlagsMove ==
    ASSUME FlagsTyped, Tab
    PROVE  conflict' \in BOOLEAN /\ license' \in BOOLEAN
<1>1. CASE OpeningStep
  BY <1>1 DEF OpeningStep, Loaded, LoadFails, TryAgain, Reload, FlagsTyped
<1>2. CASE WritingStep
  BY <1>2 DEF WritingStep, Type, Uploaded, ItemCreated, Upload, UploadFails, OpenItemForm,
              CreateItem, LeaveItemForm, ItemFails, FlagsTyped
<1>3. CASE SavingStep
  BY <1>3 DEF SavingStep, SaveDraft, Saved, SaveFails, Problem, FlagsTyped
<1>4. CASE PublishingStep
  BY <1>4 DEF PublishingStep, OpenPublication, ChooseLicense, ClosePublication, ConfirmPublication,
              Published, PublishFails, Problem, Refreshed, RefreshFails, ApplyPublicationState,
              FlagsTyped
<1>5. CASE WithdrawingStep
  BY <1>5 DEF WithdrawingStep, OpenWithdrawal, CloseWithdrawal, ConfirmWithdrawal, ActChanged,
              Acted, ActFails, ApplyPublicationState, FlagsTyped
<1>6. CASE MovingStep
  BY <1>6 DEF MovingStep, MoveSection, Moved, MoveFails, FlagsTyped
<1>7. QED  BY <1>1, <1>2, <1>3, <1>4, <1>5, <1>6 DEF Tab

(* The invariant *)

\* A tab starts with nothing on the screen and the first load under way.
LEMMA EditorStarts ==
    ASSUME EditorInit
    PROVE  EditorInv
<1>1. DraftTyped
  <2>1. PICK content \in Contents, audience \in Sections :
          draft = [Absent EXCEPT !.content = content, !.version = 1, !.state = "draft",
                                 !.audience = audience]
    BY DEF EditorInit
  <2>2. content \in Said /\ "draft" \in States /\ 1 \in Nat /\ Absent.release = 0
    BY DEF Said, States, Absent
  <2>3. draft \in Rows /\ draft.release = 0  BY <2>1, <2>2, BlankTyped DEF Rows
  <2>4. released = <<>>  BY DEF EditorInit
  <2>5. released \in Seq(Said) /\ Len(released) = 0  BY <2>4
  <2>6. QED  BY <2>3, <2>5 DEF DraftTyped
<1>2. call = [kind \in Kinds |-> IF kind = "load" THEN Sent(Blank) ELSE Idle]
  BY DEF EditorInit
<1>3. CallTyped  BY <1>2, SentTyped, IdleTyped, BlankTyped DEF CallTyped
<1>4. \A kind \in Kinds : call[kind].stage # "answered"
  BY <1>2, SentTyped, IdleTyped, BlankTyped
<1>5. call["save"].stage = "idle" /\ call["publish"].stage = "idle"
  BY <1>2, IdleTyped DEF Kinds
<1>6. ScreenTyped
  BY BlankTyped DEF EditorInit, ScreenTyped, Said
<1>7. FlagsTyped /\ DialogInv /\ ScreenInv /\ WritingStays
  BY DEF EditorInit, FlagsTyped, DialogInv, ScreenInv, WritingStays
<1>8. "save" \in Kinds /\ "publish" \in Kinds  BY DEF Kinds
<1>9. ReplyInv  BY <1>4 DEF ReplyInv, ReplyIsTrue, AnsweredWith
<1>10. SaveInv /\ AskedInv /\ AnswerInv
  BY <1>4, <1>5, <1>8 DEF SaveInv, AskedInv, AnswerInv, AnsweredWith, UnderWay, Asks
<1>11. QED  BY <1>1, <1>3, <1>6, <1>7, <1>9, <1>10 DEF EditorInv

\* A step of the tab, of the server or of a colleague, in one: the draft goes on, each
\* request waits, is over, is sent or is served, and the screen moves as the tab has it.
Steps ==
    /\ Onward
    /\ call' \in [Kinds -> Calls]
    /\ \A kind \in Kinds : WaitsOn(kind) \/ call'[kind] = Idle \/ Sends(kind) \/ Serves(kind)
    /\ ScreenMoves
    /\ FlagsTyped'
    /\ DialogInv'

\* What a step, of whoever, does with the draft, the requests, the screen and the dialogs.
LEMMA EveryStep ==
    ASSUME EditorInv, [EditorNext]_editorVars
    PROVE  Steps
<1>1. DraftTyped /\ CallTyped /\ ScreenTyped /\ FlagsTyped /\ DialogInv /\ SaveInv
  BY DEF EditorInv
<1>2. CASE Tab
  <2>1. TabCalls /\ ScreenMoves /\ UNCHANGED draftVars  BY <1>1, <1>2, TabMoves
  <2>2. Onward  BY <1>1, <2>1, StandsStill
  <2>3. DialogMoves /\ conflict' \in BOOLEAN /\ license' \in BOOLEAN
    BY <1>1, <1>2, DialogsMove, FlagsMove
  <2>4. FlagsTyped'
    <3>1. opened' \in BOOLEAN  BY <1>1, <2>3, Zenon DEF DialogMoves, FlagsTyped
    <3>2. dialog' \in {"none", "item", "publish", "act"}
      BY <1>1, <2>3 DEF DialogMoves, FlagsTyped
    <3>3. QED  BY <2>3, <3>1, <3>2 DEF FlagsTyped
  <2>5. DialogInv'
    <3>1. opened => opened'  BY <2>3, Zenon DEF DialogMoves
    <3>2. dialog' # "none" => (dialog # "none" \/ opened)  BY <2>3 DEF DialogMoves
    <3>3. QED  BY <1>1, <3>1, <3>2, Zenon DEF DialogInv
  <2>6. QED  BY <2>1, <2>2, <2>4, <2>5 DEF Steps, TabCalls
<1>3. ASSUME UNCHANGED <<opened, screen, baseline, conflict, license, dialog, observed>>,
             UNCHANGED <<delivered, typed>>
      PROVE  ScreenMoves /\ FlagsTyped' /\ DialogInv'
  <2>1. ScreenMoves  BY <1>1, <1>3, ScreenStays DEF ScreenTyped
  <2>2. QED  BY <1>1, <1>3, <2>1 DEF FlagsTyped, DialogInv
<1>4. CASE Serve
  <2>1. Onward /\ \E kind \in Kinds : Serves(kind)  BY <1>1, <1>4, ServeServes
  <2>2. PICK kind \in Kinds : Serves(kind)  BY <2>1
  <2>3. \A other \in Kinds : WaitsOn(other) \/ Serves(other)  BY <2>2 DEF Serves, WaitsOn
  <2>4. call' \in [Kinds -> Calls]  BY <2>2 DEF Serves
  <2>5. ScreenMoves /\ FlagsTyped' /\ DialogInv'  BY <1>3, <1>4 DEF Serve
  <2>6. QED  BY <2>1, <2>3, <2>4, <2>5 DEF Steps
<1>5. CASE Onward /\ UNCHANGED tabVars
  <2>1. \A kind \in Kinds : WaitsOn(kind)  BY <1>5 DEF tabVars, WaitsOn
  <2>2. call' \in [Kinds -> Calls]  BY <1>1, <1>5 DEF tabVars, CallTyped
  <2>3. ScreenMoves /\ FlagsTyped' /\ DialogInv'  BY <1>3, <1>5 DEF tabVars
  <2>4. QED  BY <1>5, <2>1, <2>2, <2>3 DEF Steps
<1>6. CASE Colleague  BY <1>1, <1>5, <1>6, ColleagueGoesOn
<1>7. CASE UNCHANGED editorVars
  <2>1. UNCHANGED draftVars /\ UNCHANGED tabVars  BY <1>7 DEF editorVars, draftVars, tabVars
  <2>2. QED  BY <1>1, <1>5, <2>1, StandsStill
<1>8. QED  BY <1>2, <1>4, <1>6, <1>7 DEF EditorNext

\* A request is what it was, new, served or over: its fields in the four cases.
LEMMA RequestMoves ==
    ASSUME Steps, NEW kind \in Kinds
    PROVE  \/ WaitsOn(kind)
           \/ call'[kind].stage = "idle"
           \/ call'[kind].stage = "sent" /\ Sends(kind)
           \/ call'[kind].stage = "answered" /\ Serves(kind)
<1>1. CASE call'[kind] = Idle  BY <1>1, IdleTyped
<1>2. CASE Sends(kind)  BY <1>2, SentTyped DEF Sends
<1>3. CASE Serves(kind)  BY <1>3 DEF Serves
<1>4. QED  BY <1>1, <1>2, <1>3 DEF Steps

\* Answers stay true.
LEMMA RepliesStayTrue ==
    ASSUME EditorInv, Steps
    PROVE  ReplyInv'
<1> SUFFICES ASSUME NEW kind \in Kinds, AnsweredWith(kind, "done")'
             PROVE  (/\ AtRevision(Reply(kind).revision, Reply(kind).audience)
                     /\ kind \in {"load", "save"} =>
                            AtVersion(Reply(kind).version, Reply(kind).content))'
  BY DEF ReplyInv, ReplyIsTrue
<1>1. DraftTyped /\ Onward /\ call[kind] \in Calls  BY DEF EditorInv, Steps, CallTyped
<1>2. PICK reply : reply = call'[kind].reply  OBVIOUS
<1>3. SUFFICES /\ AtRevision(reply.revision, reply.audience)'
               /\ kind \in {"load", "save"} => AtVersion(reply.version, reply.content)'
  BY <1>2 DEF Reply
<1>4. CASE WaitsOn(kind)
  <2>1. AnsweredWith(kind, "done") /\ reply = Reply(kind) /\ reply \in Rows
    BY <1>1, <1>2, <1>4 DEF WaitsOn, AnsweredWith, Reply, Calls
  <2>2. /\ AtRevision(reply.revision, reply.audience)
        /\ kind \in {"load", "save"} => AtVersion(reply.version, reply.content)
    BY <2>1 DEF EditorInv, ReplyInv, ReplyIsTrue
  <2>3. reply.revision \in Nat /\ reply.version \in Nat  BY <2>1 DEF Rows
  <2>4. QED  BY <1>1, <2>2, <2>3, TruthStays
<1>5. CASE Serves(kind)
  <2>1. reply = Told(kind)  BY <1>2, <1>5 DEF Serves, AnsweredWith
  <2>2. /\ reply.revision = draft'.revision
        /\ reply.audience = draft'.audience
        /\ kind \in {"load", "save"} => reply = draft'
    BY <1>1, <2>1, ToldTyped DEF Onward
  <2>3. draft' \in Rows  BY <1>1 DEF Onward, DraftTyped
  <2>4. QED  BY <2>2, <2>3 DEF AtRevision, AtVersion, Rows
<1>6. QED  BY <1>4, <1>5, RequestMoves DEF AnsweredWith

\* The screen goes on showing what some answer said.
LEMMA ScreenStaysTrue ==
    ASSUME EditorInv, Steps
    PROVE  ScreenInv'
<1> SUFFICES ASSUME opened'
             PROVE  (/\ screen.version \in delivered
                     /\ AtVersion(screen.version, baseline)
                     /\ screen.revision <= draft.revision
                     /\ screen.sources = "one" => AtRevision(screen.revision, screen.audience))'
  BY DEF ScreenInv
<1>1. DraftTyped /\ Onward /\ ScreenTyped /\ CallTyped /\ ScreenMoves
  BY DEF EditorInv, Steps
<1>2. screen \in Screens /\ \A kind \in Kinds : Reply(kind) \in Rows
  BY <1>1 DEF ScreenTyped, CallTyped, Calls, Reply
<1>3. screen.version \in Nat /\ screen.revision \in Nat  BY <1>2 DEF Screens
<1>4. \A kind \in Kinds : Reply(kind).version \in Nat /\ Reply(kind).revision \in Nat
  BY <1>2 DEF Rows
<1>5. {"load", "save", "publish"} \subseteq Kinds  BY DEF Kinds
<1>6. (screen.version \in delivered /\ AtVersion(screen.version, baseline))'
  <2>1. PICK version, content : version = screen'.version /\ content = baseline'  OBVIOUS
  <2>2. CASE screen'.version = screen.version /\ baseline' = baseline /\ opened' = opened
    <3>1. screen.version \in delivered /\ AtVersion(version, content)
      BY <2>1, <2>2 DEF EditorInv, ScreenInv
    <3>2. AtVersion(version, content)'  BY <1>1, <1>3, <2>1, <2>2, <3>1, TruthStays
    <3>3. QED  BY <1>1, <2>1, <2>2, <3>1, <3>2 DEF ScreenMoves
  <2>3. ASSUME NEW kind \in {"load", "save"},
               AnsweredWith(kind, "done"),
               screen'.version = Reply(kind).version,
               baseline' = Reply(kind).content,
               screen'.version \in delivered'
        PROVE  (screen.version \in delivered /\ AtVersion(screen.version, baseline))'
    <3>1. AtVersion(version, content)
      BY <1>5, <2>1, <2>3 DEF EditorInv, ReplyInv, ReplyIsTrue
    <3>2. AtVersion(version, content)'  BY <1>1, <1>4, <1>5, <2>1, <2>3, <3>1, TruthStays
    <3>3. QED  BY <2>1, <2>3, <3>2
  <2>4. QED  BY <1>1, <2>2, <2>3 DEF ScreenMoves, VersionMoves
<1>7. (/\ screen.revision <= draft.revision
       /\ screen.sources = "one" => AtRevision(screen.revision, screen.audience))'
  <2>1. PICK revision, audience : revision = screen'.revision /\ audience = screen'.audience
    OBVIOUS
  <2>2. CASE /\ screen'.revision = screen.revision
             /\ screen'.audience = screen.audience
             /\ screen'.sources = screen.sources
             /\ opened' = opened
    <3>1. /\ revision <= draft.revision
          /\ screen'.sources = "one" => AtRevision(revision, audience)
      BY <2>1, <2>2 DEF EditorInv, ScreenInv
    <3>2. /\ revision <= draft'.revision
          /\ screen'.sources = "one" => AtRevision(revision, audience)'
      BY <1>1, <1>3, <2>1, <2>2, <3>1, TruthStays
    <3>3. QED  BY <2>1, <3>2
  <2>3. ASSUME NEW kind \in Kinds,
               AnsweredWith(kind, "done"),
               screen'.revision = Reply(kind).revision,
               screen'.audience = Reply(kind).audience
        PROVE  (/\ screen.revision <= draft.revision
                /\ screen.sources = "one" => AtRevision(screen.revision, screen.audience))'
    <3>1. AtRevision(revision, audience)
      BY <2>1, <2>3 DEF EditorInv, ReplyInv, ReplyIsTrue
    <3>2. AtRevision(revision, audience)'  BY <1>1, <1>4, <2>1, <2>3, <3>1, TruthStays
    <3>3. QED  BY <2>1, <3>2 DEF AtRevision
  <2>4. CASE /\ AnsweredWith("publish", "done")
             /\ screen'.revision = Reply("publish").revision
             /\ screen'.sources = "two"
    <3>1. revision <= draft.revision
      BY <1>5, <2>1, <2>4 DEF EditorInv, ReplyInv, ReplyIsTrue, AtRevision
    <3>2. revision <= draft'.revision  BY <1>1, <1>4, <1>5, <2>1, <2>4, <3>1, TruthStays
    <3>3. QED  BY <2>1, <2>4, <3>2
  <2>5. QED  BY <1>1, <2>2, <2>3, <2>4 DEF ScreenMoves, StateMoves
<1>8. QED  BY <1>6, <1>7

\* What is under way goes on saying what it was sent with.
LEMMA SavesStayTrue ==
    ASSUME EditorInv, Steps
    PROVE  SaveInv'
<1>1. "save" \in Kinds /\ call["save"] \in Calls  BY DEF EditorInv, CallTyped, Kinds
<1>2. delivered \subseteq delivered'  BY DEF Steps, ScreenMoves
<1>3. SaveInv /\ ScreenInv /\ ScreenTyped  BY DEF EditorInv
<1>4. CASE WaitsOn("save")
  BY <1>2, <1>3, <1>4 DEF SaveInv, WaitsOn, UnderWay, AnsweredWith, Asked, Reply
<1>5. CASE call'["save"].stage = "idle"
  BY <1>5 DEF SaveInv, UnderWay, AnsweredWith
<1>6. CASE call'["save"].stage = "sent" /\ Sends("save")
  <2>1. PICK shown \in Screens : /\ call'["save"] = Sent(shown)
                                 /\ shown = TextShown
                                 /\ Dirty
    BY <1>6 DEF Sends
  <2>2. call'["save"].asked.version = screen.version  BY <1>3, <2>1, SentTyped, ShownTyped
  <2>3. screen.version \in delivered  BY <1>3, <2>1 DEF Dirty, ScreenInv
  <2>4. QED  BY <1>2, <1>6, <2>2, <2>3 DEF SaveInv, AnsweredWith, Asked
<1>7. CASE call'["save"].stage = "answered" /\ Serves("save")
  <2>1. Asked("save").version \in delivered'  BY <1>2, <1>3, <1>7 DEF Serves, SaveInv
  <2>2. call'["save"].asked = Asked("save")  BY <1>7 DEF Serves, Asked
  <2>3. ASSUME call'["save"].outcome = "done"
        PROVE  call'["save"].reply.content = Asked("save").content
    <3>1. /\ call'["save"].reply = Told("save")
          /\ draft'.content = Asked("save").content
      BY <1>7, <2>3 DEF Serves
    <3>2. DraftTyped'  BY DEF Steps, Onward
    <3>3. Told("save") = draft'  BY <3>2, ToldTyped
    <3>4. QED  BY <3>1, <3>3
  <2>4. QED  BY <1>7, <2>1, <2>2, <2>3 DEF SaveInv, AnsweredWith, Asked, Reply
<1>8. QED  BY <1>1, <1>4, <1>5, <1>6, <1>7, RequestMoves

\* A request that is under way goes on carrying what was on the screen.
LEMMA AskedStaysTrue ==
    ASSUME EditorInv, Steps
    PROVE  AskedInv'
<1> SUFFICES ASSUME Asks("publish")'
             PROVE  (/\ AtVersion(Asked("publish").version, Asked("publish").content)
                     /\ Asked("publish").revision <= draft.revision
                     /\ Asked("publish").sources = "one" =>
                            AtRevision(Asked("publish").revision, Asked("publish").audience))'
  BY DEF AskedInv
<1>1. /\ "publish" \in Kinds
      /\ call["publish"] \in Calls
      /\ DraftTyped /\ Onward /\ ScreenTyped /\ screen \in Screens
      /\ ScreenInv /\ DialogInv
  BY DEF EditorInv, CallTyped, Kinds, Steps, ScreenTyped
<1>2. PICK asked : asked = call'["publish"].asked  OBVIOUS
<1>3. /\ asked \in Screens
      /\ AtVersion(asked.version, asked.content)
      /\ asked.revision <= draft.revision
      /\ asked.sources = "one" => AtRevision(asked.revision, asked.audience)
  <2>1. CASE WaitsOn("publish")
    <3>1. asked = Asked("publish") /\ Asks("publish")  BY <1>2, <2>1 DEF WaitsOn, Asks, Asked
    <3>2. asked \in Screens  BY <1>1, <3>1 DEF Asked, Calls
    <3>3. QED  BY <3>1, <3>2 DEF EditorInv, AskedInv
  <2>2. CASE Sends("publish")
    <3>1. PICK shown \in Screens : /\ call'["publish"] = Sent(shown)
                                   /\ shown = AllShown
                                   /\ dialog = "publish" /\ ~Dirty
      BY <2>2 DEF Sends
    <3>2. asked = AllShown /\ asked \in Screens  BY <1>2, <3>1, SentTyped
    <3>3. opened  BY <1>1, <3>1 DEF DialogInv
    <3>4. screen.content = baseline  BY <3>1, <3>3 DEF Dirty
    <3>5. /\ asked.content = screen.content
          /\ asked.version = screen.version
          /\ asked.audience = screen.audience
          /\ asked.revision = screen.revision
          /\ asked.sources = screen.sources
      BY <1>1, <3>2, ShownTyped
    <3>6. QED  BY <1>1, <3>2, <3>3, <3>4, <3>5 DEF ScreenInv
  <2>3. QED  BY <1>1, <2>1, <2>2, RequestMoves DEF Asks
<1>4. asked.version \in Nat /\ asked.revision \in Nat  BY <1>3 DEF Screens
<1>5. /\ AtVersion(asked.version, asked.content)'
      /\ asked.revision <= draft'.revision
      /\ asked.sources = "one" => AtRevision(asked.revision, asked.audience)'
  BY <1>1, <1>3, <1>4, TruthStays
<1>6. QED  BY <1>2, <1>5 DEF Asked

\* A publication that takes effect makes a release of what was asked, for the readers
\* it was asked for.
LEMMA ReleasesStayTrue ==
    ASSUME EditorInv, Steps
    PROVE  AnswerInv'
<1> SUFFICES ASSUME AnsweredWith("publish", "done")'
             PROVE  (/\ Reply("publish").release \in DOMAIN released
                     /\ released[Reply("publish").release] = Asked("publish").content
                     /\ Asked("publish").sources = "one" =>
                            Reply("publish").audience = Asked("publish").audience)'
  BY DEF AnswerInv, ReleasesAreAsConfirmed
<1>1. "publish" \in Kinds /\ DraftTyped /\ DraftTyped' /\ Onward
  BY DEF EditorInv, Kinds, Steps, Onward
<1>2. CASE WaitsOn("publish")
  <2>1. AnsweredWith("publish", "done")  BY <1>2 DEF WaitsOn, AnsweredWith
  <2>2. /\ Reply("publish").release \in DOMAIN released
        /\ released[Reply("publish").release] = Asked("publish").content
        /\ Asked("publish").sources = "one" =>
               Reply("publish").audience = Asked("publish").audience
    BY <2>1 DEF EditorInv, AnswerInv, ReleasesAreAsConfirmed
  <2>3. /\ call'["publish"].reply = Reply("publish")
        /\ call'["publish"].asked = Asked("publish")
    BY <1>2 DEF WaitsOn, Asked, Reply
  <2>4. /\ Reply("publish").release \in DOMAIN released'
        /\ released'[Reply("publish").release] = released[Reply("publish").release]
    BY <1>1, <2>2 DEF Onward
  <2>5. QED  BY <2>2, <2>3, <2>4 DEF Asked, Reply
<1>3. CASE Serves("publish")
  <2>1. /\ call'["publish"].reply = Told("publish")
        /\ call'["publish"].asked = Asked("publish")
        /\ Asks("publish")
        /\ Publish(Asked("publish"))
    BY <1>3 DEF Serves, AnsweredWith, Asked
  <2>2. PICK asked : asked = Asked("publish")  OBVIOUS
  <2>3. /\ draft.version = asked.version
        /\ draft.revision = asked.revision
    BY <2>1, <2>2 DEF Publish, Seen
  <2>4. /\ asked.content = draft.content
        /\ asked.sources = "one" => asked.audience = draft.audience
    <3>1. /\ AtVersion(asked.version, asked.content)
          /\ asked.sources = "one" => AtRevision(asked.revision, asked.audience)
      BY <2>1, <2>2 DEF EditorInv, AskedInv
    <3>2. QED  BY <2>3, <3>1 DEF AtVersion, AtRevision
  <2>5. /\ draft'.release \in DOMAIN released'
        /\ released'[draft'.release] = draft.content
        /\ draft'.audience = draft.audience
    BY <1>1, <2>1, PublishGoesOn
  <2>6. /\ Told("publish").release = draft'.release
        /\ Told("publish").audience = draft'.audience
    BY <1>1, ToldTyped
  <2>7. QED  BY <2>1, <2>2, <2>4, <2>5, <2>6 DEF Asked, Reply
<1>4. QED  BY <1>1, <1>2, <1>3, RequestMoves DEF AnsweredWith

\* Every step of the tab and of the others keeps the invariant.
LEMMA EditorKeepsInv ==
    ASSUME EditorInv, [EditorNext]_editorVars
    PROVE  EditorInv'
<1>1. Steps  BY EveryStep
<1>2. DraftTyped' /\ CallTyped' /\ ScreenTyped' /\ FlagsTyped' /\ DialogInv'
  BY <1>1 DEF Steps, Onward, CallTyped, ScreenMoves
<1>3. WritingStays'
  <2>1. WritingStays /\ TextMoves  BY <1>1 DEF EditorInv, Steps, ScreenMoves
  <2>2. QED  BY <2>1 DEF WritingStays, TextMoves
<1>4. ReplyInv' /\ ScreenInv' /\ SaveInv' /\ AskedInv' /\ AnswerInv'
  BY <1>1, RepliesStayTrue, ScreenStaysTrue, SavesStayTrue, AskedStaysTrue, ReleasesStayTrue
<1>5. QED  BY <1>2, <1>3, <1>4 DEF EditorInv

\* The inductive invariant of the editor: every answer under way and what the screen
\* shows were true of the draft when they were given, and the draft has only gone on.
THEOREM EditorKept == EditorSpec => []EditorInv
<1>1. EditorInit => EditorInv  BY EditorStarts
<1>2. EditorInv /\ [EditorNext]_editorVars => EditorInv'  BY EditorKeepsInv
<1>3. QED  BY <1>1, <1>2, PTL DEF EditorSpec

\* What the author wrote stays on the screen through every answer, in whatever order
\* the answers of however many requests come (editor.tsx: applyPublicationState,
\* mergePublicationState, what save and publish do with their results).
THEOREM WritingIsKept == EditorSpec => []WritingStays
<1>1. EditorInv => WritingStays  BY DEF EditorInv
<1>2. QED  BY <1>1, EditorKept, PTL

\* A save never takes the place of a version the screen did not get (editor.tsx: save).
THEOREM SavesAreOfDelivered == EditorSpec => []SavesReplaceWhatWasDelivered
<1>1. EditorInv => SavesReplaceWhatWasDelivered
  <2>1. SaveInv => SavesReplaceWhatWasDelivered
    BY DEF SaveInv, SavesReplaceWhatWasDelivered, UnderWay, AnsweredWith
  <2>2. QED  BY <2>1 DEF EditorInv
<1>2. QED  BY <1>1, EditorKept, PTL

\* What is published is what the author confirmed, for the readers the screen showed
\* (editor.tsx: publish; store.ts: publishGuide).
THEOREM ReleasesFollowTheScreen == EditorSpec => []ReleasesAreAsConfirmed
<1>1. EditorInv => ReleasesAreAsConfirmed
  <2>1. AnswerInv => ReleasesAreAsConfirmed  BY DEF AnswerInv, ReleasesAreAsConfirmed
  <2>2. QED  BY <2>1 DEF EditorInv
<1>2. QED  BY <1>1, EditorKept, PTL

(* The order of the steps *)

\* A guide's order: as many steps as fit, each there once.
IsOutline(order) ==
    /\ order \in Seq(StepIds)
    /\ Len(order) \in 1..MaxSteps
    /\ IsInjective(order)

\* A guide's order has a first step, and only steps of the guide.
LEMMA Places ==
    ASSUME NEW order, IsOutline(order)
    PROVE  /\ Len(order) \in Nat \ {0}
           /\ DOMAIN order = 1..Len(order)
           /\ ToSet(order) = {order[place] : place \in 1..Len(order)}
           /\ ToSet(order) \subseteq StepIds
           /\ order[1] \in ToSet(order)
<1>1. order \in Seq(StepIds) /\ Len(order) \in 1..MaxSteps /\ MaxSteps \in Nat
  BY LimitsAssumption DEF IsOutline
<1>2. Len(order) \in Nat \ {0} /\ DOMAIN order = 1..Len(order)  BY <1>1
<1>3. \A place \in 1..Len(order) : order[place] \in StepIds  BY <1>1
<1>4. QED  BY <1>2, <1>3 DEF ToSet

\* A step of the outline has a place.
LEMMA HasPlace ==
    ASSUME NEW order, IsOutline(order), NEW id \in ToSet(order)
    PROVE  PlaceOf(id, order) \in 1..Len(order) /\ order[PlaceOf(id, order)] = id
<1>1. \E place \in DOMAIN order : order[place] = id  BY DEF ToSet
<1>2. QED  BY <1>1, Places DEF PlaceOf

\* A new step at the end.
LEMMA AppendedOutline ==
    ASSUME NEW order, IsOutline(order), NEW id \in StepIds \ ToSet(order), Len(order) < MaxSteps
    PROVE  IsOutline(Append(order, id)) /\ ToSet(Append(order, id)) = ToSet(order) \cup {id}
<1> DEFINE longer == Append(order, id)
<1>1. order \in Seq(StepIds) /\ IsInjective(order) /\ MaxSteps \in Nat
  BY LimitsAssumption DEF IsOutline
<1>2. /\ longer \in Seq(StepIds)
      /\ Len(longer) = Len(order) + 1
      /\ DOMAIN longer = 1..(Len(order) + 1)
      /\ \A place \in 1..Len(order) : longer[place] = order[place]
      /\ longer[Len(order) + 1] = id
  BY <1>1
<1> HIDE DEF longer
<1>3. Len(order) \in Nat \ {0} /\ DOMAIN order = 1..Len(order)  BY Places
<1>4. \A place \in 1..Len(order) : order[place] # id  BY <1>3 DEF ToSet
<1>5. IsInjective(longer)
  BY <1>1, <1>2, <1>3, <1>4 DEF IsInjective
<1>6. ToSet(longer) = ToSet(order) \cup {id}
  BY <1>2, <1>3 DEF ToSet
<1>7. Len(longer) \in 1..MaxSteps  BY <1>1, <1>2, <1>3
<1>8. QED  BY <1>2, <1>5, <1>6, <1>7 DEF IsOutline, longer

\* A copy after a step.
LEMMA InsertedOutline ==
    ASSUME NEW order, IsOutline(order), NEW id \in StepIds \ ToSet(order), Len(order) < MaxSteps,
           NEW place \in 1..Len(order)
    PROVE  /\ IsOutline(InsertAt(order, place + 1, id))
           /\ ToSet(InsertAt(order, place + 1, id)) = ToSet(order) \cup {id}
<1>1. /\ order \in Seq(StepIds) /\ IsInjective(order) /\ MaxSteps \in Nat
      /\ Len(order) \in Nat \ {0} /\ DOMAIN order = 1..Len(order)
  BY LimitsAssumption, Places DEF IsOutline
<1> DEFINE front == SubSeq(order, 1, place)
           back == SubSeq(order, place + 1, Len(order))
           longer == (front \o <<id>>) \o back
<1>a. \A n \in 1..Len(order) : order[n] \in StepIds  BY <1>1
<1>b. /\ Len(order) \in Nat /\ place \in Nat
      /\ 1 <= place /\ place <= Len(order)
  BY <1>1
<1>2. /\ front \in Seq(StepIds) /\ Len(front) = place
      /\ \A n \in 1..place : front[n] = order[n]
  <2>1. 1 \in Int /\ place \in Int /\ \A n \in 1..place : order[n] \in StepIds
    BY <1>1, <1>a
  <2>2. /\ front \in Seq(StepIds)
        /\ Len(front) = IF 1 <= place THEN place - 1 + 1 ELSE 0
        /\ \A n \in 1..(place - 1 + 1) : front[n] = order[1 + n - 1]
    BY <2>1, SubSeqProperties
  <2> HIDE DEF front
  <2>3. QED  BY <1>b, <2>2
<1>3. /\ back \in Seq(StepIds) /\ Len(back) = Len(order) - place
      /\ \A n \in 1..(Len(order) - place) : back[n] = order[place + n]
  <2>1. place + 1 \in Int /\ Len(order) \in Int
        /\ \A n \in (place + 1)..Len(order) : order[n] \in StepIds
    BY <1>1, <1>a
  <2>2. /\ back \in Seq(StepIds)
        /\ Len(back) = IF place + 1 <= Len(order) THEN Len(order) - (place + 1) + 1 ELSE 0
        /\ \A n \in 1..(Len(order) - (place + 1) + 1) : back[n] = order[place + 1 + n - 1]
    BY <2>1, SubSeqProperties
  <2> HIDE DEF back
  <2>3. QED  BY <1>b, <2>2
<1>4. <<id>> \in Seq(StepIds) /\ Len(<<id>>) = 1 /\ <<id>>[1] = id  OBVIOUS
<1>5. InsertAt(order, place + 1, id) = longer
  <2>1. (place + 1) - 1 = place  BY <1>1
  <2>2. SubSeq(order, 1, (place + 1) - 1) = front  BY <2>1
  <2>3. QED  BY <2>2, Zenon DEF InsertAt
<1> HIDE DEF front, back
<1> DEFINE head == front \o <<id>>
<1>6. /\ head \in Seq(StepIds) /\ Len(head) = place + 1
      /\ \A n \in 1..place : head[n] = order[n]
      /\ head[place + 1] = id
  <2>1. PICK last \in Seq(StepIds) : last = <<id>>  BY <1>4
  <2>2. head = front \o last  BY <2>1
  <2> HIDE DEF head
  <2>3. /\ head \in Seq(StepIds) /\ Len(head) = Len(front) + Len(last)
        /\ \A n \in 1..(Len(front) + Len(last)) :
              head[n] = IF n <= Len(front) THEN front[n] ELSE last[n - Len(front)]
    <3>1. front \in Seq(StepIds)  BY <1>2
    <3> HIDE DEF front
    <3>2. QED  BY <2>2, <3>1, ConcatProperties, Zenon
  <2>4. Len(last) = 1 /\ last[1] = id  BY <1>4, <2>1
  <2>5. Len(front) = place /\ \A n \in 1..place : front[n] = order[n]  BY <1>2
  <2> HIDE DEF front
  <2>6. Len(head) = place + 1  BY <2>3, <2>4, <2>5
  <2>7. \A n \in 1..place : head[n] = order[n]  BY <1>b, <2>3, <2>4, <2>5
  <2>8. head[place + 1] = id
    <3>1. place + 1 \in 1..(Len(front) + Len(last)) /\ ~(place + 1 <= Len(front))
          /\ (place + 1) - Len(front) = 1
      BY <1>b, <2>4, <2>5
    <3>2. QED  BY <2>3, <2>4, <3>1
  <2>9. QED  BY <2>3, <2>6, <2>7, <2>8
<1>7. /\ longer \in Seq(StepIds) /\ Len(longer) = Len(order) + 1
      /\ \A n \in 1..(place + 1) : longer[n] = head[n]
      /\ \A n \in (place + 2)..(Len(order) + 1) : longer[n] = back[n - (place + 1)]
  <2> HIDE DEF head
  <2>1. longer = head \o back  BY DEF head
  <2>2. /\ longer \in Seq(StepIds)
        /\ Len(longer) = Len(head) + Len(back)
        /\ \A n \in 1..(Len(head) + Len(back)) :
              longer[n] = IF n <= Len(head) THEN head[n] ELSE back[n - Len(head)]
    <3>1. head \in Seq(StepIds) /\ back \in Seq(StepIds)  BY <1>3, <1>6
    <3> HIDE DEF longer
    <3>2. QED  BY <2>1, <3>1, ConcatProperties, Zenon
  <2> HIDE DEF longer
  <2>3. Len(head) = place + 1 /\ Len(back) = Len(order) - place  BY <1>3, <1>6
  <2>4. Len(longer) = Len(order) + 1  BY <1>b, <2>2, <2>3
  <2>5. \A n \in 1..(Len(order) + 1) :
          longer[n] = IF n <= place + 1 THEN head[n] ELSE back[n - (place + 1)]
    <3>1. Len(head) + Len(back) = Len(order) + 1  BY <1>b, <2>3
    <3>2. QED  BY <2>2, <2>3, <3>1
  <2>6. \A n \in 1..(place + 1) : longer[n] = head[n]  BY <1>b, <2>5
  <2>7. \A n \in (place + 2)..(Len(order) + 1) : longer[n] = back[n - (place + 1)]
    BY <1>b, <2>5
  <2>8. QED  BY <2>2, <2>4, <2>6, <2>7
<1> HIDE DEF longer, head
<1>8. DOMAIN longer = 1..(Len(order) + 1)  BY <1>1, <1>7
<1>9. /\ \A n \in 1..place : longer[n] = order[n]
      /\ longer[place + 1] = id
      /\ \A n \in (place + 2)..(Len(order) + 1) : longer[n] = order[n - 1]
  <2>1. \A n \in 1..place : longer[n] = order[n]  BY <1>b, <1>6, <1>7
  <2>2. longer[place + 1] = id  BY <1>b, <1>6, <1>7
  <2>3. ASSUME NEW n \in (place + 2)..(Len(order) + 1)
        PROVE  longer[n] = order[n - 1]
    <3>1. n - (place + 1) \in 1..(Len(order) - place) /\ place + (n - (place + 1)) = n - 1
      BY <1>b
    <3>2. back[n - (place + 1)] = order[n - 1]  BY <1>3, <3>1
    <3>3. QED  BY <1>7, <3>2
  <2>4. QED  BY <2>1, <2>2, <2>3
<1>10. \A n \in 1..Len(order) : order[n] # id  BY <1>1 DEF ToSet
<1>11. IsInjective(longer)
  <2>1. \A n \in 1..Len(order), m \in 1..Len(order) : order[n] = order[m] => n = m
    BY <1>1 DEF IsInjective
  <2>2. SUFFICES ASSUME NEW n \in 1..(Len(order) + 1), NEW m \in 1..(Len(order) + 1),
                        longer[n] = longer[m]
                 PROVE  n = m
    BY <1>8 DEF IsInjective
  <2>3. \A k \in 1..(Len(order) + 1) :
          \/ k \in 1..place /\ k \in 1..Len(order)
          \/ k = place + 1
          \/ k \in (place + 2)..(Len(order) + 1) /\ k - 1 \in 1..Len(order) /\ k - 1 > place
    BY <1>b
  <2>4. CASE n = place + 1  BY <1>9, <1>10, <2>2, <2>3, <2>4
  <2>5. CASE m = place + 1  BY <1>9, <1>10, <2>2, <2>3, <2>5
  <2>6. CASE n # place + 1 /\ m # place + 1
    <3>1. PICK k \in 1..Len(order), l \in 1..Len(order) :
            /\ k = IF n <= place THEN n ELSE n - 1
            /\ l = IF m <= place THEN m ELSE m - 1
      BY <1>b, <2>3, <2>6
    <3>2. longer[n] = order[k] /\ longer[m] = order[l]  BY <1>b, <1>9, <2>3, <2>6, <3>1
    <3>3. k = l  BY <2>1, <2>2, <3>2
    <3>4. QED  BY <1>b, <2>3, <2>6, <3>1, <3>3
  <2>7. QED  BY <2>4, <2>5, <2>6
<1>12. ToSet(longer) = ToSet(order) \cup {id}
  <2>1. \A n \in 1..Len(order) : \E m \in 1..(Len(order) + 1) : longer[m] = order[n]
    <3> SUFFICES ASSUME NEW n \in 1..Len(order)
                 PROVE  \E m \in 1..(Len(order) + 1) : longer[m] = order[n]
      OBVIOUS
    <3>1. CASE n <= place  BY <1>1, <1>9, <3>1
    <3>2. CASE n > place
      <4>1. n + 1 \in (place + 2)..(Len(order) + 1) /\ (n + 1) - 1 = n  BY <1>1, <3>2
      <4>2. longer[n + 1] = order[n]  BY <1>9, <4>1
      <4>3. QED  BY <1>1, <4>1, <4>2
    <3>3. QED  BY <1>1, <3>1, <3>2
  <2>2. \A m \in 1..(Len(order) + 1) : longer[m] = id \/ \E n \in 1..Len(order) : longer[m] = order[n]
    BY <1>1, <1>9
  <2>3. place + 1 \in 1..(Len(order) + 1)  BY <1>1
  <2>4. ToSet(longer) = {longer[m] : m \in 1..(Len(order) + 1)}  BY <1>8 DEF ToSet
  <2>5. ToSet(order) = {order[n] : n \in 1..Len(order)}  BY <1>1 DEF ToSet
  <2>6. longer[place + 1] = id  BY <1>9
  <2> HIDE DEF front, back
  <2>7. ToSet(longer) \subseteq ToSet(order) \cup {id}  BY <2>2, <2>4, <2>5
  <2>8. ToSet(order) \subseteq ToSet(longer)  BY <2>1, <2>4, <2>5
  <2>9. id \in ToSet(longer)  BY <2>3, <2>4, <2>6
  <2>10. QED  BY <2>7, <2>8, <2>9
<1>13. Len(longer) \in 1..MaxSteps  BY <1>1, <1>7
<1>14. QED  BY <1>5, <1>7, <1>11, <1>12, <1>13 DEF IsOutline

\* Two steps that change places.
LEMMA SwappedOutline ==
    ASSUME NEW order, IsOutline(order), NEW one \in 1..Len(order), NEW two \in 1..Len(order)
    PROVE  LET swapped == [order EXCEPT ![one] = order[two], ![two] = order[one]]
           IN  IsOutline(swapped) /\ ToSet(swapped) = ToSet(order)
<1> DEFINE swapped == [order EXCEPT ![one] = order[two], ![two] = order[one]]
<1>1. /\ order \in Seq(StepIds) /\ IsInjective(order)
      /\ Len(order) \in Nat \ {0} /\ Len(order) \in 1..MaxSteps /\ DOMAIN order = 1..Len(order)
  BY Places DEF IsOutline
<1>2. /\ DOMAIN swapped = 1..Len(order)
      /\ \A n \in 1..Len(order) : swapped[n] = IF n = two THEN order[one]
                                               ELSE IF n = one THEN order[two] ELSE order[n]
  BY <1>1
<1>3. \A n \in 1..Len(order) : order[n] \in StepIds  BY <1>1
<1>4. swapped \in Seq(StepIds) /\ Len(swapped) = Len(order)
  <2>1. swapped \in [1..Len(order) -> StepIds]  BY <1>1, <1>3
  <2>2. QED  BY <1>1, <1>2, <2>1
<1> HIDE DEF swapped
<1>5. IsInjective(swapped)  BY <1>1, <1>2 DEF IsInjective
<1>6. ToSet(swapped) = ToSet(order)  BY <1>1, <1>2 DEF ToSet
<1>7. QED  BY <1>1, <1>4, <1>5, <1>6 DEF IsOutline, swapped

\* One step less.
LEMMA ShortenedOutline ==
    ASSUME NEW order, IsOutline(order), Len(order) > 1, NEW place \in 1..Len(order)
    PROVE  /\ IsOutline(RemoveAt(order, place))
           /\ ToSet(RemoveAt(order, place)) = ToSet(order) \ {order[place]}
<1>1. /\ order \in Seq(StepIds) /\ IsInjective(order) /\ MaxSteps \in Nat
      /\ Len(order) \in Nat \ {0} /\ Len(order) \in 1..MaxSteps /\ DOMAIN order = 1..Len(order)
  BY LimitsAssumption, Places DEF IsOutline
<1> DEFINE front == SubSeq(order, 1, place - 1)
           back == SubSeq(order, place + 1, Len(order))
           shorter == front \o back
<1>a. \A n \in 1..Len(order) : order[n] \in StepIds  BY <1>1
<1>b. /\ Len(order) \in Nat /\ place \in Nat
      /\ 1 <= place /\ place <= Len(order)
  BY <1>1
<1>2. /\ front \in Seq(StepIds) /\ Len(front) = place - 1
      /\ \A n \in 1..(place - 1) : front[n] = order[n]
  <2>1. 1 \in Int /\ place - 1 \in Int /\ \A n \in 1..(place - 1) : order[n] \in StepIds
    BY <1>1, <1>a
  <2>2. /\ front \in Seq(StepIds)
        /\ Len(front) = IF 1 <= place - 1 THEN (place - 1) - 1 + 1 ELSE 0
        /\ \A n \in 1..((place - 1) - 1 + 1) : front[n] = order[1 + n - 1]
    BY <2>1, SubSeqProperties
  <2> HIDE DEF front
  <2>3. QED  BY <1>b, <2>2
<1>3. /\ back \in Seq(StepIds) /\ Len(back) = Len(order) - place
      /\ \A n \in 1..(Len(order) - place) : back[n] = order[place + n]
  <2>1. place + 1 \in Int /\ Len(order) \in Int
        /\ \A n \in (place + 1)..Len(order) : order[n] \in StepIds
    BY <1>1, <1>a
  <2>2. /\ back \in Seq(StepIds)
        /\ Len(back) = IF place + 1 <= Len(order) THEN Len(order) - (place + 1) + 1 ELSE 0
        /\ \A n \in 1..(Len(order) - (place + 1) + 1) : back[n] = order[place + 1 + n - 1]
    BY <2>1, SubSeqProperties
  <2> HIDE DEF back
  <2>3. QED  BY <1>b, <2>2
<1>4. RemoveAt(order, place) = shorter  BY DEF RemoveAt
<1> HIDE DEF front, back
<1>5. /\ shorter \in Seq(StepIds) /\ Len(shorter) = Len(order) - 1
      /\ \A n \in 1..(place - 1) : shorter[n] = front[n]
      /\ \A n \in place..(Len(order) - 1) : shorter[n] = back[n - (place - 1)]
  <2>1. /\ shorter \in Seq(StepIds)
        /\ Len(shorter) = Len(front) + Len(back)
        /\ \A n \in 1..(Len(front) + Len(back)) :
              shorter[n] = IF n <= Len(front) THEN front[n] ELSE back[n - Len(front)]
    BY <1>2, <1>3, ConcatProperties
  <2> HIDE DEF shorter
  <2>2. Len(front) = place - 1 /\ Len(back) = Len(order) - place  BY <1>2, <1>3
  <2>3. Len(shorter) = Len(order) - 1  BY <1>b, <2>1, <2>2
  <2>4. \A n \in 1..(Len(order) - 1) :
          shorter[n] = IF n <= place - 1 THEN front[n] ELSE back[n - (place - 1)]
    <3>1. Len(front) + Len(back) = Len(order) - 1  BY <1>b, <2>2
    <3>2. QED  BY <2>1, <2>2, <3>1
  <2>5. \A n \in 1..(place - 1) : shorter[n] = front[n]  BY <1>b, <2>4
  <2>6. \A n \in place..(Len(order) - 1) : shorter[n] = back[n - (place - 1)]
    BY <1>b, <2>4
  <2>7. QED  BY <2>1, <2>3, <2>5, <2>6
<1> HIDE DEF shorter
<1>6. DOMAIN shorter = 1..(Len(order) - 1)  BY <1>1, <1>5
<1>7. /\ \A n \in 1..(place - 1) : shorter[n] = order[n]
      /\ \A n \in place..(Len(order) - 1) : shorter[n] = order[n + 1]
  BY <1>1, <1>2, <1>3, <1>5
<1>8. IsInjective(shorter)  BY <1>1, <1>6, <1>7 DEF IsInjective
<1>9. ToSet(shorter) = ToSet(order) \ {order[place]}
  <2>1. \A n \in 1..(Len(order) - 1) :
          shorter[n] # order[place] /\ \E m \in 1..Len(order) : shorter[n] = order[m]
    BY <1>1, <1>7 DEF IsInjective
  <2>2. \A m \in 1..Len(order) : m # place => \E n \in 1..(Len(order) - 1) : shorter[n] = order[m]
    <3> SUFFICES ASSUME NEW m \in 1..Len(order), m # place
                 PROVE  \E n \in 1..(Len(order) - 1) : shorter[n] = order[m]
      OBVIOUS
    <3>1. CASE m < place  BY <1>1, <1>7, <3>1
    <3>2. CASE m > place
      <4>1. m - 1 \in place..(Len(order) - 1) /\ (m - 1) + 1 = m  BY <1>1, <3>2
      <4>2. shorter[m - 1] = order[m]  BY <1>7, <4>1
      <4>3. QED  BY <1>1, <4>1, <4>2
    <3>3. QED  BY <1>1, <3>1, <3>2
  <2>3. ToSet(shorter) = {shorter[n] : n \in 1..(Len(order) - 1)}  BY <1>6 DEF ToSet
  <2>4. ToSet(order) = {order[m] : m \in 1..Len(order)}  BY <1>1 DEF ToSet
  <2>5. ToSet(shorter) \subseteq ToSet(order) \ {order[place]}  BY <2>1, <2>3, <2>4
  <2>6. ASSUME NEW id \in ToSet(order), id # order[place]
        PROVE  id \in ToSet(shorter)
    <3>1. PICK m \in 1..Len(order) : id = order[m]  BY <2>4
    <3>2. m # place  BY <2>6, <3>1
    <3>3. PICK n \in 1..(Len(order) - 1) : shorter[n] = order[m]  BY <2>2, <3>2
    <3>4. QED  BY <2>3, <3>1, <3>3
  <2>7. QED  BY <2>5, <2>6
<1>10. Len(shorter) \in 1..MaxSteps  BY <1>1, <1>5
<1>11. QED  BY <1>4, <1>5, <1>8, <1>9, <1>10 DEF IsOutline

-----------------------------------------------------------------------------
(* The document, the canvas and what was typed *)

Kept == Texts \cup {Broken, Untyped}

DocumentTyped ==
    /\ IsOutline(outline)
    /\ page \in [StepIds -> Pages]
    /\ prepared \in [Items -> {"none", "keep", "use"}]

ViewTyped ==
    /\ selected \in ToSet(outline)
    /\ details \in BOOLEAN
    /\ preview \in BOOLEAN

\* The visual editor holds text while it is on the screen.
TextTyped ==
    /\ kept \in [StepIds -> Kept]
    /\ errors \subseteq StepIds
    /\ lastBody \in Texts
    /\ OnCanvas => canvas \in Texts \cup {Broken}
    /\ ~OnCanvas => canvas = Closed

PictureTyped == picture \in Photos \cup {"none", "sending"}

\* What the document and the marks say of the text typed in the steps of an order.
Agree(order, says, typedText, marked) ==
    \A id \in ToSet(order) :
        /\ typedText[id] = Broken <=> id \in marked
        /\ typedText[id] \in Texts => says[id].text = typedText[id]

\* The visual editor shows what was typed.
CanvasShows == canvas # Closed /\ kept[selected] # Untyped => canvas = kept[selected]

AuthoringInv ==
    /\ DocumentTyped
    /\ ViewTyped
    /\ TextTyped
    /\ PictureTyped
    /\ Agree(outline, page, kept, errors)
    /\ CanvasShows

\* Texts, and the three marks that are none.
LEMMA TextsApart ==
    /\ Broken \notin Texts /\ Untyped \notin Texts /\ Closed \notin Texts
    /\ Broken # Untyped /\ Broken # Closed /\ Untyped # Closed
    /\ BlankText \in Texts
BY TextsAssumption DEF Broken, Untyped, Closed

\* What the property says, in the parts of the invariant.
LEMMA InvSaysProperty == AuthoringInv => WhatIsTypedIsSaved
BY DEF AuthoringInv, Agree, CanvasShows, WhatIsTypedIsSaved

\* A saved document is one the editor can show.
LEMMA SavedTyped ==
    ASSUME NEW document \in SavedDocuments
    PROVE  /\ IsOutline(document.outline)
           /\ document.page \in [StepIds -> Pages]
           /\ document.prepared \in [Items -> {"none", "keep", "use"}]
           /\ document.outline[1] \in ToSet(document.outline)
           /\ document.outline[1] \in StepIds
           /\ document.page[document.outline[1]].text \in Texts
<1>1. WellFormed(document)  BY DocumentsAssumption
<1>2. IsOutline(document.outline)  BY <1>1 DEF WellFormed, IsOutline
<1>3. document.outline[1] \in ToSet(document.outline) /\ document.outline[1] \in StepIds
  BY <1>2, Places
<1>4. document.page[document.outline[1]] \in Pages  BY <1>1, <1>3 DEF WellFormed
<1>5. QED  BY <1>1, <1>2, <1>3, <1>4 DEF WellFormed, Pages

\* An editor that opens on a saved document starts within the invariant.
LEMMA AuthoringStarts ==
    ASSUME AuthoringInit
    PROVE  AuthoringInv
<1>1. PICK document \in SavedDocuments :
        /\ outline = document.outline
        /\ page = document.page
        /\ prepared = document.prepared
        /\ selected = document.outline[1]
        /\ details = FALSE
        /\ preview = FALSE
        /\ kept = [id \in StepIds |-> Untyped]
        /\ errors = {}
        /\ canvas = document.page[document.outline[1]].text
        /\ lastBody = canvas
        /\ picture = "none"
  BY DEF AuthoringInit
<1>2. DocumentTyped /\ ViewTyped  BY <1>1, SavedTyped DEF DocumentTyped, ViewTyped
<1>3. TextTyped /\ PictureTyped
  BY <1>1, SavedTyped DEF TextTyped, Kept, OnCanvas, PictureTyped
<1>4. \A id \in ToSet(outline) : kept[id] = Untyped
  BY <1>1, <1>2, Places DEF DocumentTyped
<1>5. Agree(outline, page, kept, errors)  BY <1>1, <1>4, TextsApart DEF Agree
<1>6. CanvasShows  BY <1>2, <1>4 DEF CanvasShows, ViewTyped
<1>7. QED  BY <1>2, <1>3, <1>5, <1>6 DEF AuthoringInv

\* What the screen shows next, when the marks agree with what was typed: the editor
\* opens on the typed text and marks it, or stays as it is.
LEMMA ViewKeeps ==
    ASSUME AuthoringInv, DocumentTyped', kept' \in [StepIds -> Kept],
           NEW id \in ToSet(outline'), NEW inDetails \in BOOLEAN, NEW inPreview \in BOOLEAN,
           NEW marked \in SUBSET StepIds,
           Agree(outline', page', kept', marked),
           OnCanvas /\ selected = id => kept'[id] = kept[id],
           View(id, inDetails, inPreview, marked)
    PROVE  AuthoringInv'
<1>1. selected' = id /\ details' = inDetails /\ preview' = inPreview  BY DEF View
<1>2. ViewTyped'  BY <1>1 DEF ViewTyped
<1>3. OnCanvas' <=> ~inDetails /\ ~inPreview  BY <1>1 DEF OnCanvas
<1>4. id \in StepIds  BY Places DEF DocumentTyped
<1>5. kept'[id] \in Kept /\ page'[id].text \in Texts
  <2>1. page'[id] \in Pages  BY <1>4 DEF DocumentTyped
  <2>2. QED  BY <1>4, <2>1 DEF Pages
<1>6. CASE inDetails \/ inPreview
  <2>1. canvas' = Closed /\ lastBody' = lastBody /\ errors' = marked /\ picture' = "none"
    BY <1>6 DEF View
  <2>2. TextTyped' /\ PictureTyped'
    BY <1>3, <1>6, <2>1 DEF TextTyped, PictureTyped, AuthoringInv
  <2>3. CanvasShows'  BY <2>1 DEF CanvasShows
  <2>4. Agree(outline, page, kept, errors)'  BY <2>1 DEF Agree
  <2>5. QED  BY <1>2, <2>2, <2>3, <2>4 DEF AuthoringInv
<1>7. CASE ~inDetails /\ ~inPreview /\ OnCanvas /\ selected = id
  <2>1. canvas' = canvas /\ lastBody' = lastBody /\ errors' = marked /\ picture' = picture
    BY <1>7 DEF View
  <2>2. canvas \in Texts \cup {Broken} /\ lastBody \in Texts
    BY <1>7 DEF AuthoringInv, TextTyped
  <2>3. TextTyped' /\ PictureTyped'
    BY <1>3, <1>7, <2>1, <2>2 DEF TextTyped, PictureTyped, AuthoringInv
  <2>4. CanvasShows'
    BY <1>1, <1>7, <2>1 DEF CanvasShows, AuthoringInv
  <2>5. Agree(outline, page, kept, errors)'  BY <2>1 DEF Agree
  <2>6. QED  BY <1>2, <2>3, <2>4, <2>5 DEF AuthoringInv
<1>8. CASE ~inDetails /\ ~inPreview /\ ~(OnCanvas /\ selected = id)
  <2>1. /\ canvas' = IF kept'[id] # Untyped THEN kept'[id] ELSE page'[id].text
        /\ lastBody' = page'[id].text
        /\ errors' = IF canvas' = Broken THEN marked \cup {id} ELSE marked \ {id}
        /\ picture' = picture
    BY <1>8, Zenon DEF View, OpensOn, OpenReports
  <2>2. canvas' \in Texts \cup {Broken}  BY <1>5, <2>1 DEF Kept
  <2>3. errors' \subseteq StepIds  BY <1>4, <2>1
  <2>4. TextTyped' /\ PictureTyped'
    BY <1>3, <1>5, <1>8, <2>1, <2>2, <2>3 DEF TextTyped, PictureTyped, AuthoringInv
  <2>5. CanvasShows'  BY <1>1, <2>1 DEF CanvasShows
  <2>6. canvas' = Broken <=> id \in marked
    BY <1>5, <2>1, TextsApart DEF Agree
  <2>7. errors' = marked  BY <2>1, <2>6
  <2>8. Agree(outline, page, kept, errors)'  BY <2>7 DEF Agree
  <2>9. QED  BY <1>2, <2>4, <2>5, <2>8 DEF AuthoringInv
<1>9. QED  BY <1>6, <1>7, <1>8

\* A new id is no step's and marks none.
LEMMA FreshIsNew ==
    ASSUME DocumentTyped, NEW id \in StepIds, Fresh(id)
    PROVE  id \notin ToSet(outline) /\ kept[id] = Untyped /\ id \notin errors
BY Places DEF Fresh, InOutline, Contains, DocumentTyped

\* Looking elsewhere changes nothing that was written.
LEMMA LookingKeeps ==
    ASSUME AuthoringInv, NEW id \in ToSet(outline), NEW inDetails \in BOOLEAN,
           NEW inPreview \in BOOLEAN, UNCHANGED <<documentVars, kept>>,
           View(id, inDetails, inPreview, errors)
    PROVE  AuthoringInv'
<1>1. outline' = outline /\ page' = page /\ prepared' = prepared /\ kept' = kept
  BY DEF documentVars
<1>2. DocumentTyped' /\ kept' \in [StepIds -> Kept]
  BY <1>1 DEF AuthoringInv, DocumentTyped, TextTyped
<1>3. errors \in SUBSET StepIds /\ Agree(outline', page', kept', errors)
  BY <1>1 DEF AuthoringInv, TextTyped
<1>4. QED  BY <1>1, <1>2, <1>3, ViewKeeps

\* Selecting a step, the details, the preview, and an issue that leads to its step.
LEMMA LookingStepKeeps ==
    ASSUME AuthoringInv,
           \/ \E id \in StepIds : SelectStep(id) \/ FollowIssue(id)
           \/ ShowDetails
           \/ TogglePreview
    PROVE  AuthoringInv'
<1>1. selected \in ToSet(outline) /\ details \in BOOLEAN /\ preview \in BOOLEAN
  BY DEF AuthoringInv, ViewTyped
<1>2. ASSUME NEW id \in StepIds, SelectStep(id)
      PROVE  AuthoringInv'
  <2>1. InOutline(id) /\ UNCHANGED <<documentVars, kept>> /\ View(id, FALSE, preview, errors)
    BY <1>2 DEF SelectStep
  <2>2. id \in ToSet(outline)  BY <2>1, Places DEF InOutline, Contains, AuthoringInv, DocumentTyped
  <2>3. QED  BY <1>1, <2>1, <2>2, LookingKeeps
<1>3. ASSUME NEW id \in StepIds, FollowIssue(id)
      PROVE  AuthoringInv'
  <2>1. /\ \E issue \in Issues(Document) : \E kind \in DOMAIN issue : issue[kind] = id
        /\ UNCHANGED <<documentVars, kept>> /\ View(id, FALSE, FALSE, errors)
    BY <1>3 DEF FollowIssue
  <2>2. id \in ToSet(outline)  BY <2>1 DEF Issues, Document
  <2>3. QED  BY <2>1, <2>2, LookingKeeps
<1>4. CASE ShowDetails
  <2>1. UNCHANGED <<documentVars, kept>> /\ View(selected, TRUE, preview, errors)
    BY <1>4 DEF ShowDetails
  <2>2. PICK id : id = selected  OBVIOUS
  <2>3. PICK shown \in BOOLEAN : shown = preview  BY <1>1
  <2>4. id \in ToSet(outline) /\ View(id, TRUE, shown, errors)  BY <1>1, <2>1, <2>2, <2>3, Zenon
  <2>5. QED  BY <2>1, <2>4, LookingKeeps
<1>5. CASE TogglePreview
  <2>1. UNCHANGED <<documentVars, kept>> /\ View(selected, details, ~preview, errors)
    BY <1>5 DEF TogglePreview
  <2>2. PICK shown \in BOOLEAN, opposite \in BOOLEAN : shown = details /\ opposite = ~preview
    BY <1>1
  <2>3. View(selected, shown, opposite, errors)  BY <2>1, <2>2, Zenon
  <2>4. QED  BY <1>1, <2>1, <2>3, LookingKeeps
<1>6. QED  BY <1>2, <1>3, <1>4, <1>5

\* Typing: the text is kept, and becomes the step's unless the format cannot hold it.
LEMMA TypingKeeps ==
    ASSUME AuthoringInv, NEW text \in Texts \cup {Broken}, TypeInstructions(text)
    PROVE  AuthoringInv'
<1>1. /\ OnCanvas
      /\ canvas' = text
      /\ kept' = [kept EXCEPT ![selected] = text]
      /\ outline' = outline /\ prepared' = prepared
      /\ selected' = selected /\ details' = details /\ preview' = preview
      /\ picture' = picture
  BY DEF TypeInstructions, viewVars
<1>2. /\ DocumentTyped /\ ViewTyped /\ TextTyped /\ PictureTyped
      /\ Agree(outline, page, kept, errors)
  BY DEF AuthoringInv
<1>3. selected \in StepIds /\ page \in [StepIds -> Pages] /\ ToSet(outline) \subseteq StepIds
  BY <1>2, Places DEF DocumentTyped, ViewTyped
<1>4. kept' \in [StepIds -> Kept] /\ kept'[selected] = text
      /\ \A id \in StepIds \ {selected} : kept'[id] = kept[id]
  BY <1>1, <1>2, <1>3 DEF TextTyped, Kept
<1>5. ViewTyped' /\ PictureTyped'  BY <1>1, <1>2 DEF ViewTyped, PictureTyped
<1>6. CanvasShows'  BY <1>1, <1>4 DEF CanvasShows
<1>7. OnCanvas'  BY <1>1 DEF OnCanvas
<1>8. CASE text = Broken
  <2>1. page' = page /\ lastBody' = lastBody /\ errors' = errors \cup {selected}
    BY <1>8 DEF TypeInstructions
  <2>2. DocumentTyped'  BY <1>1, <1>2, <2>1 DEF DocumentTyped
  <2>3. TextTyped'  BY <1>1, <1>2, <1>3, <1>4, <1>7, <2>1 DEF TextTyped
  <2>4. Agree(outline, page, kept, errors)'
    BY <1>1, <1>2, <1>3, <1>4, <1>8, <2>1, TextsApart DEF Agree
  <2>5. QED  BY <1>5, <1>6, <2>2, <2>3, <2>4 DEF AuthoringInv
<1>9. CASE text # Broken
  <2>1. /\ page' = [page EXCEPT ![selected].text = text]
        /\ lastBody' = text
        /\ errors' = errors \ {selected}
        /\ text \in Texts
    BY <1>9 DEF TypeInstructions
  <2>2. PICK says : says = [page[selected] EXCEPT !.text = text]  OBVIOUS
  <2>3. says \in Pages /\ says.text = text
    <3>1. page[selected] \in Pages  BY <1>3
    <3>2. QED  BY <2>1, <2>2, <3>1 DEF Pages
  <2>4. page' = [page EXCEPT ![selected] = says]  BY <2>1, <2>2
  <2>5. /\ page' \in [StepIds -> Pages]
        /\ page'[selected].text = text
        /\ \A id \in StepIds \ {selected} : page'[id] = page[id]
    BY <1>3, <2>3, <2>4
  <2>6. DocumentTyped'  BY <1>1, <1>2, <2>5 DEF DocumentTyped
  <2>7. TextTyped'  BY <1>1, <1>2, <1>3, <1>4, <1>7, <2>1 DEF TextTyped
  <2>8. Agree(outline, page, kept, errors)'
    <3> SUFFICES ASSUME NEW id \in ToSet(outline)
                 PROVE  /\ kept'[id] = Broken <=> id \in errors'
                        /\ kept'[id] \in Texts => page'[id].text = kept'[id]
      BY <1>1 DEF Agree
    <3>1. CASE id = selected  BY <1>4, <1>9, <2>1, <2>5, <3>1
    <3>2. CASE id # selected
      <4>1. kept'[id] = kept[id] /\ page'[id] = page[id] /\ (id \in errors' <=> id \in errors)
        BY <1>3, <1>4, <2>1, <2>5, <3>2
      <4>2. QED  BY <1>2, <4>1 DEF Agree
    <3>3. QED  BY <3>1, <3>2
  <2>9. QED  BY <1>5, <1>6, <2>6, <2>7, <2>8 DEF AuthoringInv
<1>10. QED  BY <1>8, <1>9

\* A change of the document that leaves the order and the instructions alone.
LEMMA EditsKeep ==
    ASSUME AuthoringInv, page' \in [StepIds -> Pages],
           prepared' \in [Items -> {"none", "keep", "use"}],
           \A id \in StepIds : page'[id].text = page[id].text,
           UNCHANGED <<outline, viewVars, textVars>>, picture' \in Photos \cup {"none", "sending"}
    PROVE  AuthoringInv'
<1>1. /\ outline' = outline
      /\ selected' = selected /\ details' = details /\ preview' = preview
      /\ kept' = kept /\ errors' = errors /\ canvas' = canvas /\ lastBody' = lastBody
  BY DEF viewVars, textVars
<1>2. DocumentTyped' /\ ViewTyped' /\ TextTyped' /\ PictureTyped' /\ CanvasShows'
  BY <1>1 DEF AuthoringInv, DocumentTyped, ViewTyped, TextTyped, PictureTyped, CanvasShows, OnCanvas
<1>3. ToSet(outline) \subseteq StepIds  BY Places DEF AuthoringInv, DocumentTyped
<1>4. Agree(outline, page, kept, errors)'  BY <1>1, <1>3 DEF AuthoringInv, Agree
<1>5. QED  BY <1>2, <1>4 DEF AuthoringInv

\* One step says something else, with the same instructions.
LEMMA StepEditKeeps ==
    ASSUME AuthoringInv, NEW id \in StepIds, NEW says \in Pages, says.text = page[id].text,
           page' = [page EXCEPT ![id] = says], prepared' \in [Items -> {"none", "keep", "use"}],
           UNCHANGED <<outline, viewVars, textVars>>, picture' \in Photos \cup {"none", "sending"}
    PROVE  AuthoringInv'
<1>1. page \in [StepIds -> Pages]  BY DEF AuthoringInv, DocumentTyped
<1>2. page' \in [StepIds -> Pages] /\ \A other \in StepIds : page'[other].text = page[other].text
  BY <1>1
<1>3. QED  BY <1>2, EditsKeep

\* What a step says may change in its prerequisites, its uses and its pictures.
LEMMA StepSays ==
    ASSUME NEW says \in Pages
    PROVE  /\ \A earlier \in SUBSET StepIds : [says EXCEPT !.earlier = earlier] \in Pages
           /\ \A earlier \in SUBSET StepIds : [says EXCEPT !.earlier = earlier].text = says.text
           /\ \A photos \in SUBSET Photos : [says EXCEPT !.photos = photos] \in Pages
           /\ \A photos \in SUBSET Photos : [says EXCEPT !.photos = photos].text = says.text
           /\ \A item \in Items, mode \in {"none", "consume", "reuse"} :
                 [says EXCEPT !.uses[item] = mode] \in Pages
           /\ \A item \in Items, mode \in {"none", "consume", "reuse"} :
                 [says EXCEPT !.uses[item] = mode].text = says.text
BY DEF Pages

\* A new step opens on blank instructions.
LEMMA AddKeeps ==
    ASSUME AuthoringInv, NEW id \in StepIds, AddStep(id)
    PROVE  AuthoringInv'
<1>1. /\ Len(outline) < MaxSteps
      /\ Fresh(id)
      /\ outline' = Append(outline, id)
      /\ page' = [page EXCEPT ![id] = NewStep]
      /\ prepared' = prepared /\ kept' = kept
      /\ View(id, FALSE, preview, errors)
  BY DEF AddStep
<1>2. /\ DocumentTyped /\ page \in [StepIds -> Pages]
      /\ kept \in [StepIds -> Kept] /\ errors \in SUBSET StepIds
      /\ preview \in BOOLEAN /\ selected \in ToSet(outline)
      /\ Agree(outline, page, kept, errors)
  BY DEF AuthoringInv, DocumentTyped, TextTyped, ViewTyped
<1>3. id \notin ToSet(outline) /\ kept[id] = Untyped /\ id \notin errors
  BY <1>1, <1>2, FreshIsNew
<1>4. IsOutline(outline') /\ ToSet(outline') = ToSet(outline) \cup {id}
  BY <1>1, <1>2, <1>3, AppendedOutline DEF DocumentTyped
<1>5. NewStep \in Pages  BY TextsApart DEF NewStep, Pages
<1>6. /\ page' \in [StepIds -> Pages]
      /\ \A other \in StepIds \ {id} : page'[other] = page[other]
  BY <1>1, <1>2, <1>5
<1>7. DocumentTyped'  BY <1>1, <1>2, <1>4, <1>6 DEF DocumentTyped
<1>8. Agree(outline', page', kept', errors)
  <2> SUFFICES ASSUME NEW other \in ToSet(outline')
               PROVE  /\ kept'[other] = Broken <=> other \in errors
                      /\ kept'[other] \in Texts => page'[other].text = kept'[other]
    BY DEF Agree
  <2>1. CASE other = id  BY <1>1, <1>3, <2>1, TextsApart
  <2>2. CASE other # id
    <3>1. other \in ToSet(outline) /\ page'[other] = page[other] /\ kept'[other] = kept[other]
      BY <1>1, <1>2, <1>4, <1>6, <2>2, Places DEF DocumentTyped
    <3>2. QED  BY <1>2, <3>1 DEF Agree
  <2>3. QED  BY <2>1, <2>2
<1>9. kept' \in [StepIds -> Kept] /\ id \in ToSet(outline') /\ id # selected
  BY <1>1, <1>2, <1>3, <1>4
<1>10. PICK shown \in BOOLEAN : shown = preview  BY <1>2
<1>11. View(id, FALSE, shown, errors)  BY <1>1, <1>10, Zenon
<1>12. QED  BY <1>2, <1>7, <1>8, <1>9, <1>11, ViewKeeps

\* A duplicate has the text of the step it is of, what was typed there and the mark.
LEMMA DuplicateKeeps ==
    ASSUME AuthoringInv, NEW id \in StepIds, DuplicateStep(id)
    PROVE  AuthoringInv'
<1>1. PICK marked \in SUBSET (errors \cup {id}) :
        /\ Len(outline) < MaxSteps
        /\ Fresh(id)
        /\ outline' = InsertAt(outline, PlaceOf(selected, outline) + 1, id)
        /\ page' = [page EXCEPT ![id] = page[selected]]
        /\ kept' = [kept EXCEPT ![id] = kept[selected]]
        /\ prepared' = prepared
        /\ marked = IF selected \in errors THEN errors \cup {id} ELSE errors
        /\ View(id, FALSE, FALSE, marked)
  BY DEF DuplicateStep
<1>2. /\ DocumentTyped /\ page \in [StepIds -> Pages]
      /\ kept \in [StepIds -> Kept] /\ errors \in SUBSET StepIds
      /\ selected \in ToSet(outline) /\ selected \in StepIds
      /\ Agree(outline, page, kept, errors)
  BY Places DEF AuthoringInv, DocumentTyped, TextTyped, ViewTyped
<1>3. id \notin ToSet(outline) /\ kept[id] = Untyped /\ id \notin errors
  BY <1>1, <1>2, FreshIsNew
<1>4. IsOutline(outline') /\ ToSet(outline') = ToSet(outline) \cup {id}
  <2>1. PlaceOf(selected, outline) \in 1..Len(outline)
    BY <1>2, HasPlace DEF DocumentTyped
  <2>2. QED  BY <1>1, <1>2, <1>3, <2>1, InsertedOutline DEF DocumentTyped
<1>5. /\ page' \in [StepIds -> Pages]
      /\ page'[id] = page[selected]
      /\ \A other \in StepIds \ {id} : page'[other] = page[other]
  BY <1>1, <1>2
<1>6. /\ kept' \in [StepIds -> Kept]
      /\ kept'[id] = kept[selected]
      /\ \A other \in StepIds \ {id} : kept'[other] = kept[other]
  BY <1>1, <1>2
<1>7. DocumentTyped'  BY <1>1, <1>2, <1>4, <1>5 DEF DocumentTyped
<1>8. Agree(outline', page', kept', marked)
  <2> SUFFICES ASSUME NEW other \in ToSet(outline')
               PROVE  /\ kept'[other] = Broken <=> other \in marked
                      /\ kept'[other] \in Texts => page'[other].text = kept'[other]
    BY DEF Agree
  <2>1. CASE other = id
    <3>1. other \in marked <=> selected \in errors  BY <1>1, <1>3, <2>1
    <3>2. QED  BY <1>2, <1>5, <1>6, <2>1, <3>1 DEF Agree
  <2>2. CASE other # id
    <3>1. /\ other \in ToSet(outline) /\ page'[other] = page[other] /\ kept'[other] = kept[other]
          /\ other \in marked <=> other \in errors
      BY <1>1, <1>2, <1>4, <1>5, <1>6, <2>2, Places DEF DocumentTyped
    <3>2. QED  BY <1>2, <3>1 DEF Agree
  <2>3. QED  BY <2>1, <2>2
<1>9. id \in ToSet(outline') /\ id # selected /\ marked \in SUBSET StepIds
  BY <1>1, <1>2, <1>3, <1>4
<1>10. View(id, FALSE, FALSE, marked)  BY <1>1
<1>11. QED  BY <1>6, <1>7, <1>8, <1>9, <1>10, ViewKeeps

\* A removed step leaves no text and no mark behind, and the one before it opens.
LEMMA RemoveKeeps ==
    ASSUME AuthoringInv, RemoveStep
    PROVE  AuthoringInv'
<1>1. PICK place, target :
        /\ place = PlaceOf(selected, outline)
        /\ target = outline[IF place = 1 THEN 2 ELSE place - 1]
        /\ Len(outline) > 1
        /\ outline' = RemoveAt(outline, place)
        /\ page' = ForgetStep(selected)
        /\ kept' = [kept EXCEPT ![selected] = Untyped]
        /\ prepared' = prepared
        /\ View(target, FALSE, FALSE, errors \ {selected})
  BY DEF RemoveStep
<1>2. /\ DocumentTyped /\ IsOutline(outline) /\ page \in [StepIds -> Pages]
      /\ kept \in [StepIds -> Kept] /\ errors \in SUBSET StepIds
      /\ selected \in ToSet(outline) /\ selected \in StepIds
      /\ Agree(outline, page, kept, errors)
  BY Places DEF AuthoringInv, DocumentTyped, TextTyped, ViewTyped
<1>3. place \in 1..Len(outline) /\ outline[place] = selected  BY <1>1, <1>2, HasPlace
<1>4. IsOutline(outline') /\ ToSet(outline') = ToSet(outline) \ {selected}
  BY <1>1, <1>2, <1>3, ShortenedOutline
<1>5. target \in ToSet(outline')
  <2>1. /\ Len(outline) \in Nat /\ DOMAIN outline = 1..Len(outline)
        /\ ToSet(outline) = {outline[n] : n \in 1..Len(outline)}
        /\ IsInjective(outline)
    BY <1>2, Places DEF IsOutline
  <2>2. PICK n : n = IF place = 1 THEN 2 ELSE place - 1  OBVIOUS
  <2>3. n \in 1..Len(outline) /\ n # place  BY <1>1, <1>3, <2>1, <2>2
  <2>4. outline[n] # outline[place]  BY <1>3, <2>1, <2>3 DEF IsInjective
  <2>5. target = outline[n]  BY <1>1, <2>2
  <2>6. QED  BY <1>3, <1>4, <2>1, <2>3, <2>4, <2>5
<1>6. /\ page' \in [StepIds -> Pages]
      /\ \A id \in StepIds \ {selected} : page'[id].text = page[id].text
  <2>1. page' = [id \in StepIds |->
                   IF id = selected THEN NewStep
                   ELSE [page[id] EXCEPT !.earlier = page[id].earlier \ {selected}]]
    BY <1>1 DEF ForgetStep
  <2>2. NewStep \in Pages  BY TextsApart DEF NewStep, Pages
  <2>3. ASSUME NEW id \in StepIds
        PROVE  /\ [page[id] EXCEPT !.earlier = page[id].earlier \ {selected}] \in Pages
               /\ [page[id] EXCEPT !.earlier = page[id].earlier \ {selected}].text = page[id].text
    <3>1. page[id] \in Pages  BY <1>2
    <3>2. PICK earlier \in SUBSET StepIds : earlier = page[id].earlier \ {selected}
      BY <3>1 DEF Pages
    <3>3. QED  BY <3>1, <3>2, StepSays
  <2>4. DOMAIN page' = StepIds /\ \A id \in StepIds : page'[id] \in Pages
    <3>1. ASSUME NEW id \in StepIds
          PROVE  page'[id] \in Pages
      <4>1. CASE id = selected  BY <2>1, <2>2, <4>1
      <4>2. CASE id # selected
        <5>1. page'[id] = [page[id] EXCEPT !.earlier = page[id].earlier \ {selected}]
          BY <2>1, <4>2
        <5>2. QED  BY <2>3, <5>1
      <4>3. QED  BY <4>1, <4>2
    <3>2. QED  BY <2>1, <3>1
  <2>5. page' \in [StepIds -> Pages]  BY <2>1, <2>4
  <2>6. QED  BY <2>1, <2>3, <2>5
<1>7. /\ kept' \in [StepIds -> Kept]
      /\ \A id \in StepIds \ {selected} : kept'[id] = kept[id]
  BY <1>1, <1>2 DEF Kept
<1>8. DocumentTyped'  BY <1>1, <1>2, <1>4, <1>6 DEF AuthoringInv, DocumentTyped
<1>9. Agree(outline', page', kept', errors \ {selected})
  <2> SUFFICES ASSUME NEW id \in ToSet(outline')
               PROVE  /\ kept'[id] = Broken <=> id \in errors \ {selected}
                      /\ kept'[id] \in Texts => page'[id].text = kept'[id]
    BY DEF Agree
  <2>1. id \in ToSet(outline) /\ id # selected /\ id \in StepIds  BY <1>2, <1>4, Places
  <2>2. kept'[id] = kept[id] /\ page'[id].text = page[id].text  BY <1>6, <1>7, <2>1
  <2>3. QED  BY <1>2, <2>1, <2>2 DEF Agree
<1>10. target # selected  BY <1>4, <1>5
<1>11. errors \ {selected} \in SUBSET StepIds  BY <1>2
<1>12. View(target, FALSE, FALSE, errors \ {selected})  BY <1>1
<1>13. PICK marked \in SUBSET StepIds : marked = errors \ {selected}  BY <1>11
<1>14. QED  BY <1>5, <1>7, <1>8, <1>9, <1>10, <1>12, <1>13, ViewKeeps

\* A step that moves stays on the screen, with its text.
LEMMA MoveKeeps ==
    ASSUME AuthoringInv, NEW delta \in {1, -1}, MoveStep(delta)
    PROVE  AuthoringInv' /\ ToSet(outline') = ToSet(outline)
<1>1. PICK place, target :
        /\ place = PlaceOf(selected, outline)
        /\ target \in DOMAIN outline
        /\ outline' = [outline EXCEPT ![place] = outline[target], ![target] = selected]
        /\ UNCHANGED <<page, prepared, viewVars, textVars, picture>>
  BY DEF MoveStep
<1>2. IsOutline(outline) /\ selected \in ToSet(outline)
  BY DEF AuthoringInv, DocumentTyped, ViewTyped
<1>3. place \in 1..Len(outline) /\ outline[place] = selected /\ target \in 1..Len(outline)
  BY <1>1, <1>2, HasPlace, Places
<1>4. outline' = [outline EXCEPT ![place] = outline[target], ![target] = outline[place]]
  BY <1>1, <1>3
<1>5. IsOutline(outline') /\ ToSet(outline') = ToSet(outline)
  BY <1>2, <1>3, <1>4, SwappedOutline
<1>6. /\ page' = page /\ prepared' = prepared
      /\ selected' = selected /\ details' = details /\ preview' = preview
      /\ kept' = kept /\ errors' = errors /\ canvas' = canvas /\ lastBody' = lastBody
      /\ picture' = picture
  BY <1>1 DEF viewVars, textVars
<1>7. DocumentTyped' /\ ViewTyped' /\ TextTyped' /\ PictureTyped' /\ CanvasShows'
      /\ Agree(outline, page, kept, errors)'
  BY <1>5, <1>6 DEF AuthoringInv, DocumentTyped, ViewTyped, TextTyped, PictureTyped, CanvasShows,
                    OnCanvas, Agree
<1>8. QED  BY <1>5, <1>7 DEF AuthoringInv

\* The step on the screen, its text and its uses.
LEMMA SelectedStep ==
    ASSUME AuthoringInv
    PROVE  /\ selected \in StepIds
           /\ selected \in ToSet(outline)
           /\ ToSet(outline) \subseteq StepIds
           /\ page \in [StepIds -> Pages]
           /\ prepared \in [Items -> {"none", "keep", "use"}]
           /\ page[selected] \in Pages
           /\ picture \in Photos \cup {"none", "sending"}
BY Places DEF AuthoringInv, DocumentTyped, ViewTyped, PictureTyped

\* Prerequisites leave the instructions alone.
LEMMA PrerequisitesKeep ==
    ASSUME AuthoringInv, NEW id \in StepIds, RequireStep(id) \/ DropPrerequisite(id)
    PROVE  AuthoringInv'
<1>1. page[selected].earlier \in SUBSET StepIds  BY SelectedStep DEF Pages
<1>2. PICK earlier \in SUBSET StepIds :
        /\ page' = [page EXCEPT ![selected].earlier = earlier]
        /\ prepared' = prepared
        /\ UNCHANGED <<outline, viewVars, textVars, picture>>
  BY <1>1 DEF RequireStep, DropPrerequisite, Edits
<1>3. PICK says : says = [page[selected] EXCEPT !.earlier = earlier]  OBVIOUS
<1>4. says \in Pages /\ says.text = page[selected].text  BY <1>3, SelectedStep, StepSays
<1>5. page' = [page EXCEPT ![selected] = says]  BY <1>2, <1>3
<1>6. QED  BY <1>2, <1>4, <1>5, SelectedStep, StepEditKeeps

\* So do pictures.
LEMMA PicturesKeep ==
    ASSUME AuthoringInv,
           \/ SendPicture \/ PictureSent \/ DiscardPicture \/ AddPicture
           \/ \E photo \in Photos : RemovePicture(photo)
    PROVE  AuthoringInv'
<1>1. CASE SendPicture \/ PictureSent \/ DiscardPicture
  <2>1. picture' \in Photos \cup {"none", "sending"}
    BY <1>1 DEF SendPicture, PictureSent, DiscardPicture
  <2>2. UNCHANGED <<documentVars, viewVars, textVars>>
    BY <1>1 DEF SendPicture, PictureSent, DiscardPicture
  <2>3. outline' = outline /\ page' = page /\ prepared' = prepared
    BY <2>2 DEF documentVars
  <2>4. QED  BY <2>1, <2>2, <2>3, SelectedStep, EditsKeep
<1>2. CASE AddPicture \/ \E photo \in Photos : RemovePicture(photo)
  <2>1. page[selected].photos \in SUBSET Photos  BY SelectedStep DEF Pages
  <2>2. PICK photos \in SUBSET Photos :
          /\ page' = [page EXCEPT ![selected].photos = photos]
          /\ prepared' = prepared
          /\ UNCHANGED <<outline, viewVars, textVars>>
          /\ picture' \in {picture, "none"}
    BY <1>2, <2>1 DEF AddPicture, RemovePicture, Edits
  <2>3. PICK says : says = [page[selected] EXCEPT !.photos = photos]  OBVIOUS
  <2>4. says \in Pages /\ says.text = page[selected].text  BY <2>3, SelectedStep, StepSays
  <2>5. page' = [page EXCEPT ![selected] = says]  BY <2>2, <2>3
  <2>6. picture' \in Photos \cup {"none", "sending"}  BY <2>2, SelectedStep
  <2>7. QED  BY <2>2, <2>4, <2>5, <2>6, SelectedStep, StepEditKeeps
<1>3. QED  BY <1>1, <1>2

Modes == {"none", "consume", "reuse"}
Roles == {"none", "keep", "use"}

\* One use of an item in one step, and what the guide does with the item.
LEMMA UseKeeps ==
    ASSUME AuthoringInv, NEW item \in Items, NEW mode \in Modes, NEW role \in Roles,
           Edits([page EXCEPT ![selected].uses[item] = mode], [prepared EXCEPT ![item] = role])
    PROVE  AuthoringInv'
<1>1. /\ page' = [page EXCEPT ![selected].uses[item] = mode]
      /\ prepared' = [prepared EXCEPT ![item] = role]
      /\ UNCHANGED <<outline, viewVars, textVars, picture>>
  BY DEF Edits
<1>2. PICK says : says = [page[selected] EXCEPT !.uses[item] = mode]  OBVIOUS
<1>3. says \in Pages /\ says.text = page[selected].text
  BY <1>2, SelectedStep, StepSays DEF Modes
<1>4. page' = [page EXCEPT ![selected] = says]  BY <1>1, <1>2
<1>5. prepared' \in [Items -> {"none", "keep", "use"}]  BY <1>1, SelectedStep DEF Roles
<1>6. QED  BY <1>1, <1>3, <1>4, <1>5, SelectedStep, StepEditKeeps

\* One use of an item in every step.
LEMMA UsesKeep ==
    ASSUME AuthoringInv, NEW item \in Items, NEW role \in Roles,
           \/ page' = page
           \/ page' = WithoutUses(item)
           \/ page' = UsesOf(item, role),
           prepared' = [prepared EXCEPT ![item] = role],
           UNCHANGED <<outline, viewVars, textVars, picture>>
    PROVE  AuthoringInv'
<1>1. prepared' \in [Items -> {"none", "keep", "use"}]  BY SelectedStep DEF Roles
<1>2. \A id \in StepIds : page[id] \in Pages  BY SelectedStep
<1>3. ASSUME NEW mode \in Modes, NEW id \in StepIds
      PROVE  /\ [page[id] EXCEPT !.uses[item] = mode] \in Pages
             /\ [page[id] EXCEPT !.uses[item] = mode].text = page[id].text
  BY <1>2, StepSays DEF Modes
<1>4. /\ page' \in [StepIds -> Pages]
      /\ \A id \in StepIds : page'[id].text = page[id].text
  <2>1. CASE page' = page  BY <2>1, SelectedStep
  <2>2. CASE page' = WithoutUses(item)
    <3>1. page' = [id \in StepIds |-> [page[id] EXCEPT !.uses[item] = "none"]]
      BY <2>2 DEF WithoutUses
    <3>2. QED  BY <1>3, <3>1 DEF Modes
  <2>3. CASE page' = UsesOf(item, role)
    <3>1. page' = [id \in StepIds |->
                     IF role = "keep" /\ Used(id, item)
                     THEN [page[id] EXCEPT !.uses[item] = "reuse"] ELSE page[id]]
      BY <2>3 DEF UsesOf
    <3>2. QED  BY <1>2, <1>3, <3>1 DEF Modes
  <2>4. QED  BY <2>1, <2>2, <2>3
<1>5. QED  BY <1>1, <1>4, SelectedStep, EditsKeep

\* So do the preparation list and the uses of its items, wherever they are edited.
LEMMA RequirementsKeep ==
    ASSUME AuthoringInv, NEW item \in Items,
           \/ RemoveItem(item) \/ AssignItem(item) \/ UnassignItem(item)
           \/ \E role \in {"keep", "use"} : PrepareItem(item, role) \/ ChangeRole(item, role)
           \/ \E mode \in {"consume", "reuse"} : ChangeMode(item, mode)
    PROVE  AuthoringInv'
<1>1. prepared[item] \in Roles /\ prepared = [prepared EXCEPT ![item] = prepared[item]]
  BY SelectedStep DEF Roles
<1>2. CASE RemoveItem(item)
           \/ \E role \in {"keep", "use"} : PrepareItem(item, role) \/ ChangeRole(item, role)
  <2>1. PICK role \in Roles :
          /\ page' = page \/ page' = WithoutUses(item) \/ page' = UsesOf(item, role)
          /\ prepared' = [prepared EXCEPT ![item] = role]
          /\ UNCHANGED <<outline, viewVars, textVars, picture>>
    BY <1>2 DEF RemoveItem, PrepareItem, ChangeRole, Edits, Roles
  <2>2. QED  BY <2>1, UsesKeep
<1>3. CASE AssignItem(item)
  <2>1. PICK role \in Roles, mode \in Modes :
          Edits([page EXCEPT ![selected].uses[item] = mode], [prepared EXCEPT ![item] = role])
    BY <1>1, <1>3 DEF AssignItem, Mode, Roles, Modes
  <2>2. QED  BY <2>1, UseKeeps
<1>4. CASE UnassignItem(item)
  <2>1. CASE Edits([page EXCEPT ![selected].uses[item] = "none"], prepared)
    <3>1. Edits([page EXCEPT ![selected].uses[item] = "none"],
                [prepared EXCEPT ![item] = prepared[item]])
      BY <1>1, <2>1
    <3>2. PICK role \in Roles : role = prepared[item]  BY <1>1
    <3>3. QED  BY <3>1, <3>2, UseKeeps DEF Modes
  <2>2. CASE Edits(WithoutUses(item), [prepared EXCEPT ![item] = "none"])
    BY <2>2, UsesKeep DEF Edits, Roles
  <2>3. QED  BY <1>4, <2>1, <2>2 DEF UnassignItem
<1>5. CASE \E mode \in {"consume", "reuse"} : ChangeMode(item, mode)
  <2>1. PICK mode \in Modes : Edits([page EXCEPT ![selected].uses[item] = mode], prepared)
    BY <1>5 DEF ChangeMode, Modes
  <2>2. PICK role \in Roles : role = prepared[item]  BY <1>1
  <2>3. Edits([page EXCEPT ![selected].uses[item] = mode], [prepared EXCEPT ![item] = role])
    BY <1>1, <2>1, <2>2
  <2>4. QED  BY <2>3, UseKeeps
<1>6. QED  BY <1>2, <1>3, <1>4, <1>5

\* A load: nothing of what was typed is left, and nothing is marked.
LEMMA LoadKeeps ==
    ASSUME AuthoringInv, NEW document \in SavedDocuments, LoadDocument(document)
    PROVE  AuthoringInv'
<1>1. /\ outline' = document.outline /\ page' = document.page /\ prepared' = document.prepared
      /\ kept' = [id \in StepIds |-> Untyped]
      /\ errors' = {}
      /\ selected' = document.outline[1]
      /\ details' = details /\ preview' = preview /\ picture' = picture
      /\ OnCanvas => /\ canvas' \in {canvas, document.page[document.outline[1]].text}
                     /\ lastBody' = document.page[document.outline[1]].text
      /\ ~OnCanvas => canvas' = canvas /\ lastBody' = lastBody
  BY DEF LoadDocument, ShowDocument, MarksAfterLoad
<1>2. /\ IsOutline(document.outline)
      /\ document.outline[1] \in StepIds
      /\ ToSet(document.outline) \subseteq StepIds
  BY SavedTyped, Places
<1>3. DocumentTyped' /\ ViewTyped' /\ PictureTyped'
  BY <1>1, SavedTyped DEF AuthoringInv, DocumentTyped, ViewTyped, PictureTyped
<1>4. TextTyped'
  <2>1. kept' \in [StepIds -> Kept] /\ errors' \subseteq StepIds  BY <1>1 DEF Kept
  <2>2. TextTyped  BY DEF AuthoringInv
  <2>3. OnCanvas' <=> OnCanvas  BY <1>1 DEF OnCanvas
  <2>4. CASE OnCanvas  BY <1>1, <2>1, <2>2, <2>3, <2>4, SavedTyped DEF TextTyped
  <2>5. CASE ~OnCanvas  BY <1>1, <2>1, <2>2, <2>3, <2>5 DEF TextTyped
  <2>6. QED  BY <2>4, <2>5
<1>5. \A id \in ToSet(outline') : kept'[id] = Untyped  BY <1>1, <1>2
<1>6. Agree(outline, page, kept, errors)'  BY <1>1, <1>5, TextsApart DEF Agree
<1>7. CanvasShows'  BY <1>1, <1>2 DEF CanvasShows
<1>8. QED  BY <1>3, <1>4, <1>6, <1>7 DEF AuthoringInv

\* Every step of an author's session keeps the invariant.
LEMMA AuthoringKeepsInv ==
    ASSUME AuthoringInv, [AuthoringNext]_authoringVars
    PROVE  AuthoringInv'
<1>1. CASE AuthoringNext
  BY <1>1, LookingStepKeeps, TypingKeeps, AddKeeps, DuplicateKeeps, RemoveKeeps, MoveKeeps,
     PrerequisitesKeep, RequirementsKeep, PicturesKeep, LoadKeeps DEF AuthoringNext
<1>2. CASE UNCHANGED authoringVars
  BY <1>2 DEF authoringVars, documentVars, viewVars, textVars, AuthoringInv, DocumentTyped,
     ViewTyped, TextTyped, PictureTyped, CanvasShows, OnCanvas, Agree
<1>3. QED  BY <1>1, <1>2

\* An author's session keeps the document well formed, what was typed beside it, and the
\* marks and the visual editor true to both.
THEOREM AuthoringKept == AuthoringSpec => []AuthoringInv
<1>1. AuthoringInit => AuthoringInv  BY AuthoringStarts
<1>2. AuthoringInv /\ [AuthoringNext]_authoringVars => AuthoringInv'  BY AuthoringKeepsInv
<1>3. QED  BY <1>1, <1>2, PTL DEF AuthoringSpec

\* While a save is offered, every step says in the document what was typed there last, and
\* text that cannot be saved, and nothing else, holds the save back.
THEOREM TypedTextIsSaved == AuthoringSpec => []WhatIsTypedIsSaved
<1>1. AuthoringInv => WhatIsTypedIsSaved  BY InvSaysProperty
<1>2. QED  BY <1>1, AuthoringKept, PTL

-----------------------------------------------------------------------------
(* What is left to repair before publishing *)

\* Steps that require steps of the guide, and use what it prepares as it prepares it.
Clean(Listed, says, list) ==
    \A id \in Listed :
        /\ says[id].earlier \subseteq Listed
        /\ \A item \in Items :
             /\ says[id].uses[item] # "none" => list[item] # "none"
             /\ says[id].uses[item] = "consume" => list[item] # "keep"

Repaired == Clean(ToSet(outline), page, prepared)

\* An item may come on the preparation list, to be used up.
Prepares(item, role) ==
    role = prepared[item] \/ (prepared[item] = "none" /\ role = "use")

\* A step may use an item as the guide prepares it.
Suits(mode, role) ==
    /\ mode # "none" => role # "none"
    /\ mode = "consume" => role # "keep"

\* Of a document that is clean, only the order can be wrong, and only of such a one.
LEMMA OnlyOrderMeansClean ==
    ASSUME NEW document
    PROVE  (\A issue \in Issues(document) : DOMAIN issue = {"later"})
           <=> Clean(ToSet(document.outline), document.page, document.prepared)
<1> DEFINE Listed == ToSet(document.outline)
           says == document.page
           Deleted == {id \in Listed : \E other \in says[id].earlier : other \notin Listed}
           Later == {id \in Listed : \E other \in says[id].earlier \cap Listed :
                        PlaceOf(other, document.outline) >= PlaceOf(id, document.outline)}
           Removed == {id \in Listed : \E item \in Items :
                          says[id].uses[item] # "none" /\ document.prepared[item] = "none"}
           UsedUp == {id \in Listed : \E item \in Items :
                         says[id].uses[item] = "consume" /\ document.prepared[item] = "keep"}
<1>1. Issues(document) = [deleted : Deleted] \cup [later : Later] \cup [removed : Removed]
                         \cup [usedUp : UsedUp]
  BY DEF Issues
<1>2. Clean(Listed, says, document.prepared) <=> Deleted = {} /\ Removed = {} /\ UsedUp = {}
  BY DEF Clean
<1> HIDE DEF Deleted, Later, Removed, UsedUp
<1>3. ASSUME \A issue \in Issues(document) : DOMAIN issue = {"later"}
      PROVE  Deleted = {} /\ Removed = {} /\ UsedUp = {}
  <2>1. \A id \in Deleted : [deleted |-> id] \in [deleted : Deleted]  OBVIOUS
  <2>2. \A id \in Removed : [removed |-> id] \in [removed : Removed]  OBVIOUS
  <2>3. \A id \in UsedUp : [usedUp |-> id] \in [usedUp : UsedUp]  OBVIOUS
  <2>4. \A id : /\ DOMAIN [deleted |-> id] # {"later"}
                /\ DOMAIN [removed |-> id] # {"later"}
                /\ DOMAIN [usedUp |-> id] # {"later"}
    OBVIOUS
  <2>5. \A id \in Deleted : DOMAIN [deleted |-> id] = {"later"}  BY <1>1, <1>3, <2>1
  <2>6. \A id \in Removed : DOMAIN [removed |-> id] = {"later"}  BY <1>1, <1>3, <2>2
  <2>7. \A id \in UsedUp : DOMAIN [usedUp |-> id] = {"later"}  BY <1>1, <1>3, <2>3
  <2>8. QED  BY <2>4, <2>5, <2>6, <2>7, Zenon
<1>4. ASSUME Deleted = {}, Removed = {}, UsedUp = {}, NEW issue \in Issues(document)
      PROVE  DOMAIN issue = {"later"}
  <2>1. issue \in [deleted : {}] \/ issue \in [later : Later] \/ issue \in [removed : {}]
        \/ issue \in [usedUp : {}]
    BY <1>1, <1>4
  <2>2. issue \in [later : Later]  BY <2>1
  <2>3. QED  BY <2>2
<1>5. QED  BY <1>2, <1>3, <1>4

\* One step's prerequisites, uses and pictures.
LEMMA OneStepStaysClean ==
    ASSUME AuthoringInv, Repaired, NEW says,
           outline' = outline, page' = [page EXCEPT ![selected] = says],
           \A item \in Items : Prepares(item, prepared'[item]),
           says.earlier \subseteq ToSet(outline),
           \A item \in Items : Suits(says.uses[item], prepared'[item])
    PROVE  Repaired'
<1>1. /\ page'[selected] = says
      /\ \A id \in ToSet(outline) \ {selected} : page'[id] = page[id]
  BY SelectedStep
<1>2. SUFFICES ASSUME NEW id \in ToSet(outline)
               PROVE  /\ page'[id].earlier \subseteq ToSet(outline)
                      /\ \A item \in Items :
                           /\ page'[id].uses[item] # "none" => prepared'[item] # "none"
                           /\ page'[id].uses[item] = "consume" => prepared'[item] # "keep"
  BY DEF Repaired, Clean
<1>3. CASE id = selected  BY <1>1, <1>3 DEF Suits
<1>4. CASE id # selected
  <2>1. page'[id] = page[id]  BY <1>1, <1>4
  <2>2. /\ page[id].earlier \subseteq ToSet(outline)
        /\ \A item \in Items : /\ page[id].uses[item] # "none" => prepared[item] # "none"
                               /\ page[id].uses[item] = "consume" => prepared[item] # "keep"
    BY DEF Repaired, Clean
  <2>3. QED  BY <2>1, <2>2 DEF Prepares
<1>5. QED  BY <1>3, <1>4

\* Listed that come, go, move, are typed in or looked at.
LEMMA StepsStayClean ==
    ASSUME AuthoringInv, Repaired,
           \/ \E id \in StepIds :
                SelectStep(id) \/ AddStep(id) \/ DuplicateStep(id) \/ FollowIssue(id)
           \/ ShowDetails \/ TogglePreview
           \/ \E text \in Texts \cup {Broken} : TypeInstructions(text)
           \/ \E delta \in {1, -1} : MoveStep(delta)
           \/ RemoveStep
    PROVE  Repaired'
<1>1. /\ IsOutline(outline) /\ DocumentTyped
      /\ selected \in StepIds /\ selected \in ToSet(outline)
      /\ ToSet(outline) \subseteq StepIds /\ page \in [StepIds -> Pages]
  BY SelectedStep DEF AuthoringInv, DocumentTyped
<1>2. CASE \/ \E id \in StepIds : SelectStep(id) \/ FollowIssue(id)
           \/ ShowDetails \/ TogglePreview
  <2>1. outline' = outline /\ page' = page /\ prepared' = prepared
    BY <1>2 DEF SelectStep, FollowIssue, ShowDetails, TogglePreview, documentVars
  <2>2. QED  BY <2>1 DEF Repaired, Clean
<1>3. ASSUME NEW id \in StepIds, AddStep(id)
      PROVE  Repaired'
  <2>1. /\ id \notin ToSet(outline) /\ Len(outline) < MaxSteps
        /\ outline' = Append(outline, id) /\ prepared' = prepared
        /\ page' = [page EXCEPT ![id] = NewStep]
    BY <1>1, <1>3, FreshIsNew DEF AddStep
  <2>2. ToSet(outline') = ToSet(outline) \cup {id}  BY <1>1, <2>1, AppendedOutline
  <2>3. NewStep.earlier = {} /\ \A item \in Items : NewStep.uses[item] = "none"  BY DEF NewStep
  <2>4. page'[id] = NewStep /\ \A other \in ToSet(outline) : page'[other] = page[other]
    BY <1>1, <2>1
  <2>5. QED  BY <2>1, <2>2, <2>3, <2>4 DEF Repaired, Clean
<1>4. ASSUME NEW id \in StepIds, DuplicateStep(id)
      PROVE  Repaired'
  <2>1. /\ id \notin ToSet(outline) /\ Len(outline) < MaxSteps
        /\ outline' = InsertAt(outline, PlaceOf(selected, outline) + 1, id)
        /\ prepared' = prepared /\ page' = [page EXCEPT ![id] = page[selected]]
    BY <1>1, <1>4, FreshIsNew DEF DuplicateStep
  <2>2. PlaceOf(selected, outline) \in 1..Len(outline)  BY <1>1, HasPlace
  <2>3. ToSet(outline') = ToSet(outline) \cup {id}  BY <1>1, <2>1, <2>2, InsertedOutline
  <2>4. page'[id] = page[selected] /\ \A other \in ToSet(outline) : page'[other] = page[other]
    BY <1>1, <2>1
  <2>5. QED  BY <1>1, <2>1, <2>3, <2>4 DEF Repaired, Clean
<1>5. ASSUME NEW text \in Texts \cup {Broken}, TypeInstructions(text)
      PROVE  Repaired'
  <2>1. /\ outline' = outline /\ prepared' = prepared
        /\ page' = page \/ page' = [page EXCEPT ![selected].text = text]
    BY <1>5 DEF TypeInstructions
  <2>2. ASSUME NEW id \in ToSet(outline)
        PROVE  page'[id].earlier = page[id].earlier /\ page'[id].uses = page[id].uses
    <3>1. page[id] \in Pages  BY <1>1
    <3>2. CASE page' = page  BY <3>2
    <3>3. CASE page' = [page EXCEPT ![selected].text = text]
      <4>1. page'[id] = page[id] \/ page'[id] = [page[id] EXCEPT !.text = text]  BY <1>1, <3>3
      <4>2. QED  BY <3>1, <4>1 DEF Pages
    <3>4. QED  BY <2>1, <3>2, <3>3
  <2>3. QED  BY <2>1, <2>2 DEF Repaired, Clean
<1>6. ASSUME NEW delta \in {1, -1}, MoveStep(delta)
      PROVE  Repaired'
  <2>1. ToSet(outline') = ToSet(outline)  BY <1>6, MoveKeeps
  <2>2. page' = page /\ prepared' = prepared  BY <1>6 DEF MoveStep
  <2>3. QED  BY <2>1, <2>2 DEF Repaired, Clean
<1>7. CASE RemoveStep
  <2>1. /\ Len(outline) > 1 /\ prepared' = prepared
        /\ outline' = RemoveAt(outline, PlaceOf(selected, outline))
        /\ page' = [id \in StepIds |->
                      IF id = selected THEN NewStep
                      ELSE [page[id] EXCEPT !.earlier = page[id].earlier \ {selected}]]
    BY <1>7 DEF RemoveStep, ForgetStep
  <2>2. ToSet(outline') = ToSet(outline) \ {selected}
    BY <1>1, <2>1, HasPlace, ShortenedOutline
  <2>3. ASSUME NEW id \in ToSet(outline')
        PROVE  /\ page'[id].earlier = page[id].earlier \ {selected}
               /\ page'[id].uses = page[id].uses
    <3>1. id \in StepIds /\ id # selected /\ page[id] \in Pages  BY <1>1, <2>2
    <3>2. page'[id] = [page[id] EXCEPT !.earlier = page[id].earlier \ {selected}]
      BY <2>1, <3>1
    <3>3. QED  BY <3>1, <3>2 DEF Pages
  <2>4. QED  BY <2>1, <2>2, <2>3 DEF Repaired, Clean
<1>8. QED  BY <1>2, <1>3, <1>4, <1>5, <1>6, <1>7

\* Prerequisites and pictures of the step on the screen.
LEMMA SelectedStaysClean ==
    ASSUME AuthoringInv, Repaired,
           \/ \E id \in StepIds : RequireStep(id) \/ DropPrerequisite(id)
           \/ SendPicture \/ PictureSent \/ DiscardPicture \/ AddPicture
           \/ \E photo \in Photos : RemovePicture(photo)
    PROVE  Repaired'
<1>1. /\ selected \in ToSet(outline) /\ ToSet(outline) \subseteq StepIds
      /\ page[selected] \in Pages /\ IsOutline(outline)
  BY SelectedStep DEF AuthoringInv, DocumentTyped
<1>2. /\ page[selected].earlier \subseteq ToSet(outline)
      /\ \A item \in Items : Suits(page[selected].uses[item], prepared[item])
      /\ prepared' = prepared => \A item \in Items : Prepares(item, prepared'[item])
  BY <1>1 DEF Repaired, Clean, Suits, Prepares
<1>3. CASE SendPicture \/ PictureSent \/ DiscardPicture
  <2>1. outline' = outline /\ page' = page /\ prepared' = prepared
    BY <1>3 DEF SendPicture, PictureSent, DiscardPicture, documentVars
  <2>2. QED  BY <2>1 DEF Repaired, Clean
<1>4. CASE \E id \in StepIds : RequireStep(id) \/ DropPrerequisite(id)
  <2>1. \A id \in Before(selected) : id \in ToSet(outline)
    <3>1. PlaceOf(selected, outline) \in 1..Len(outline) /\ Len(outline) \in Nat
          /\ ToSet(outline) = {outline[place] : place \in 1..Len(outline)}
      BY <1>1, HasPlace, Places
    <3>2. 1..(PlaceOf(selected, outline) - 1) \subseteq 1..Len(outline)  BY <3>1
    <3>3. QED  BY <3>1, <3>2 DEF Before
  <2>2. PICK earlier \in SUBSET ToSet(outline) :
          /\ page' = [page EXCEPT ![selected].earlier = earlier]
          /\ prepared' = prepared /\ outline' = outline
    <3>1. CASE \E id \in StepIds : RequireStep(id)
      <4>1. PICK id \in StepIds : RequireStep(id)  BY <3>1
      <4>2. page[selected].earlier \cup {id} \in SUBSET ToSet(outline)
        BY <1>2, <2>1, <4>1 DEF RequireStep
      <4>3. QED  BY <4>1, <4>2 DEF RequireStep, Edits
    <3>2. CASE \E id \in StepIds : DropPrerequisite(id)
      <4>1. PICK id \in StepIds : DropPrerequisite(id)  BY <3>2
      <4>2. page[selected].earlier \ {id} \in SUBSET ToSet(outline)  BY <1>2
      <4>3. QED  BY <4>1, <4>2 DEF DropPrerequisite, Edits
    <3>3. QED  BY <1>4, <3>1, <3>2
  <2>3. PICK says : says = [page[selected] EXCEPT !.earlier = earlier]  OBVIOUS
  <2>4. says.earlier = earlier /\ says.uses = page[selected].uses  BY <1>1, <2>3 DEF Pages
  <2>5. page' = [page EXCEPT ![selected] = says]  BY <2>2, <2>3
  <2>6. QED  BY <1>2, <2>2, <2>4, <2>5, OneStepStaysClean
<1>5. CASE AddPicture \/ \E photo \in Photos : RemovePicture(photo)
  <2>1. PICK photos :
          /\ page' = [page EXCEPT ![selected].photos = photos]
          /\ prepared' = prepared /\ outline' = outline
    BY <1>5 DEF AddPicture, RemovePicture, Edits
  <2>2. PICK says : says = [page[selected] EXCEPT !.photos = photos]  OBVIOUS
  <2>3. says.earlier = page[selected].earlier /\ says.uses = page[selected].uses
    BY <1>1, <2>2 DEF Pages
  <2>4. page' = [page EXCEPT ![selected] = says]  BY <2>1, <2>2
  <2>5. QED  BY <1>2, <2>1, <2>3, <2>4, OneStepStaysClean
<1>6. QED  BY <1>3, <1>4, <1>5

\* A use that agrees with what the guide does with the item from then on.
LEMMA OneUseStaysClean ==
    ASSUME AuthoringInv, Repaired, NEW item \in Items, NEW mode \in Modes, NEW role \in Roles,
           Edits([page EXCEPT ![selected].uses[item] = mode], [prepared EXCEPT ![item] = role]),
           Prepares(item, role), Suits(mode, role)
    PROVE  Repaired'
<1>1. /\ page' = [page EXCEPT ![selected].uses[item] = mode]
      /\ prepared' = [prepared EXCEPT ![item] = role]
      /\ outline' = outline
  BY DEF Edits
<1>2. PICK says : says = [page[selected] EXCEPT !.uses[item] = mode]  OBVIOUS
<1>3. page[selected] \in Pages /\ selected \in ToSet(outline)  BY SelectedStep
<1>4. /\ says.earlier = page[selected].earlier /\ says.uses[item] = mode
      /\ \A other \in Items \ {item} : says.uses[other] = page[selected].uses[other]
  BY <1>2, <1>3 DEF Pages
<1>5. page' = [page EXCEPT ![selected] = says]  BY <1>1, <1>2
<1>6. prepared'[item] = role /\ \A other \in Items \ {item} : prepared'[other] = prepared[other]
  BY <1>1, SelectedStep
<1>7. /\ page[selected].earlier \subseteq ToSet(outline)
      /\ \A other \in Items : Suits(page[selected].uses[other], prepared[other])
  BY <1>3 DEF Repaired, Clean, Suits
<1>8. \A other \in Items : Suits(says.uses[other], prepared'[other])
  BY <1>4, <1>6, <1>7
<1>9. ASSUME NEW other \in Items
      PROVE  Prepares(other, prepared'[other])
  BY <1>6 DEF Prepares
<1>10. QED  BY <1>1, <1>4, <1>5, <1>7, <1>8, <1>9, OneStepStaysClean

\* The preparation list, and what every step does with one of its items.
LEMMA ListStaysClean ==
    ASSUME AuthoringInv, Repaired, NEW item \in Items, NEW role \in Roles,
           outline' = outline, prepared' = [prepared EXCEPT ![item] = role],
           \/ page' = page /\ prepared[item] = "none"
           \/ page' = WithoutUses(item)
           \/ page' = UsesOf(item, role) /\ prepared[item] # "none" /\ role # "none"
    PROVE  Repaired'
<1>1. /\ prepared'[item] = role
      /\ \A other \in Items \ {item} : prepared'[other] = prepared[other]
  BY SelectedStep
<1>2. SUFFICES ASSUME NEW id \in ToSet(outline)
               PROVE  /\ page'[id].earlier \subseteq ToSet(outline)
                      /\ \A other \in Items :
                           /\ page'[id].uses[other] # "none" => prepared'[other] # "none"
                           /\ page'[id].uses[other] = "consume" => prepared'[other] # "keep"
  BY DEF Repaired, Clean
<1>3. id \in StepIds /\ page[id] \in Pages  BY SelectedStep
<1>4. /\ page[id].earlier \subseteq ToSet(outline)
      /\ \A other \in Items :
           /\ page[id].uses[other] # "none" => prepared[other] # "none"
           /\ page[id].uses[other] = "consume" => prepared[other] # "keep"
  BY DEF Repaired, Clean
<1>5. CASE page' = page /\ prepared[item] = "none"  BY <1>1, <1>4, <1>5
<1>6. CASE page' = WithoutUses(item)
  <2>1. page'[id] = [page[id] EXCEPT !.uses[item] = "none"]  BY <1>3, <1>6 DEF WithoutUses
  <2>2. /\ page'[id].earlier = page[id].earlier /\ page'[id].uses[item] = "none"
        /\ \A other \in Items \ {item} : page'[id].uses[other] = page[id].uses[other]
    BY <1>3, <2>1 DEF Pages
  <2>3. QED  BY <1>1, <1>4, <2>2
<1>7. CASE page' = UsesOf(item, role) /\ prepared[item] # "none" /\ role # "none"
  <2>1. page'[id] = IF role = "keep" /\ page[id].uses[item] # "none"
                    THEN [page[id] EXCEPT !.uses[item] = "reuse"] ELSE page[id]
    BY <1>3, <1>7 DEF UsesOf, Used
  <2>2. /\ page'[id].earlier = page[id].earlier
        /\ \A other \in Items \ {item} : page'[id].uses[other] = page[id].uses[other]
        /\ role = "keep" => page'[id].uses[item] # "consume"
    BY <1>3, <2>1 DEF Pages
  <2>3. QED  BY <1>1, <1>4, <1>7, <2>2
<1>8. QED  BY <1>5, <1>6, <1>7

\* The four places where requirements are edited agree.
LEMMA RequirementsStayClean ==
    ASSUME AuthoringInv, Repaired, NEW item \in Items,
           \/ RemoveItem(item) \/ AssignItem(item) \/ UnassignItem(item)
           \/ \E role \in {"keep", "use"} : PrepareItem(item, role) \/ ChangeRole(item, role)
           \/ \E mode \in {"consume", "reuse"} : ChangeMode(item, mode)
    PROVE  Repaired'
<1>1. PICK role \in Roles : role = prepared[item]  BY SelectedStep DEF Roles
<1>2. prepared = [prepared EXCEPT ![item] = role]  BY <1>1, SelectedStep
<1>3. CASE RemoveItem(item)
  <2>1. page' = WithoutUses(item) /\ prepared' = [prepared EXCEPT ![item] = "none"]
        /\ outline' = outline
    BY <1>3 DEF RemoveItem, Edits
  <2>2. QED  BY <2>1, ListStaysClean DEF Roles
<1>4. ASSUME NEW new \in {"keep", "use"}, PrepareItem(item, new) \/ ChangeRole(item, new)
      PROVE  Repaired'
  <2>1. /\ outline' = outline /\ prepared' = [prepared EXCEPT ![item] = new]
        /\ \/ page' = page /\ prepared[item] = "none"
           \/ page' = UsesOf(item, new) /\ prepared[item] # "none"
    BY <1>4 DEF PrepareItem, ChangeRole, Edits
  <2>2. new \in Roles /\ new # "none"  BY DEF Roles
  <2>3. QED  BY <2>1, <2>2, ListStaysClean
<1>5. CASE AssignItem(item)
  <2>1. PICK new \in {"keep", "use"} : new = IF prepared[item] = "none" THEN "use" ELSE prepared[item]
    BY <1>1 DEF Roles
  <2>2. PICK mode : mode = IF new = "keep" THEN "reuse" ELSE "consume"  OBVIOUS
  <2>3. Edits([page EXCEPT ![selected].uses[item] = mode], [prepared EXCEPT ![item] = new])
    BY <1>5, <2>1, <2>2, Zenon DEF AssignItem, Mode
  <2>4. mode \in Modes /\ new \in Roles  BY <2>2 DEF Modes, Roles
  <2>5. Prepares(item, new) /\ Suits(mode, new)  BY <2>1, <2>2 DEF Prepares, Suits
  <2>6. QED  BY <2>3, <2>4, <2>5, OneUseStaysClean
<1>6. CASE UnassignItem(item)
  <2>1. CASE Edits([page EXCEPT ![selected].uses[item] = "none"], prepared)
    <3>1. Edits([page EXCEPT ![selected].uses[item] = "none"], [prepared EXCEPT ![item] = role])
      BY <1>2, <2>1
    <3>2. "none" \in Modes /\ Prepares(item, role) /\ Suits("none", role)
      BY <1>1 DEF Modes, Prepares, Suits
    <3>3. QED  BY <3>1, <3>2, OneUseStaysClean
  <2>2. CASE Edits(WithoutUses(item), [prepared EXCEPT ![item] = "none"])
    BY <2>2, ListStaysClean DEF Edits, Roles
  <2>3. QED  BY <1>6, <2>1, <2>2 DEF UnassignItem
<1>7. ASSUME NEW mode \in {"consume", "reuse"}, ChangeMode(item, mode)
      PROVE  Repaired'
  <2>1. /\ Edits([page EXCEPT ![selected].uses[item] = mode], prepared)
        /\ prepared[item] = "use"
    BY <1>7 DEF ChangeMode
  <2>2. Edits([page EXCEPT ![selected].uses[item] = mode], [prepared EXCEPT ![item] = role])
    BY <1>2, <2>1
  <2>3. mode \in Modes /\ role = "use"  BY <1>1, <2>1 DEF Modes
  <2>4. Prepares(item, role) /\ Suits(mode, role)  BY <1>1, <2>3 DEF Prepares, Suits
  <2>5. QED  BY <2>2, <2>3, <2>4, OneUseStaysClean
<1>8. QED  BY <1>3, <1>4, <1>5, <1>6, <1>7

\* When nothing but the order is left to fix in what the server answers loads with, no
\* sequence of edits and loads leaves anything else: no prerequisite on a deleted step, no
\* use of an item that is not prepared, nothing used up that the guide keeps.
THEOREM EditingBreaksNoReference ==
    ASSUME \A document \in SavedDocuments :
              \A issue \in Issues(document) : DOMAIN issue = {"later"}
    PROVE  AuthoringSpec => []OnlyTheOrderIsLeftToFix
<1>1. \A document \in SavedDocuments :
        Clean(ToSet(document.outline), document.page, document.prepared)
  BY OnlyOrderMeansClean
<1>2. AuthoringInit => Repaired  BY <1>1 DEF AuthoringInit, Repaired
<1>3. AuthoringInv /\ Repaired /\ [AuthoringNext]_authoringVars => Repaired'
  <2> SUFFICES ASSUME AuthoringInv, Repaired, [AuthoringNext]_authoringVars
               PROVE  Repaired'
    OBVIOUS
  <2>1. ASSUME NEW document \in SavedDocuments, LoadDocument(document)
        PROVE  Repaired'
    <3>1. outline' = document.outline /\ page' = document.page /\ prepared' = document.prepared
      BY <2>1 DEF LoadDocument, ShowDocument
    <3>2. QED  BY <1>1, <3>1 DEF Repaired
  <2>2. CASE AuthoringNext
    BY <2>1, <2>2, StepsStayClean, SelectedStaysClean, RequirementsStayClean DEF AuthoringNext
  <2>3. CASE UNCHANGED authoringVars
    BY <2>3 DEF authoringVars, documentVars, Repaired, Clean
  <2>4. QED  BY <2>2, <2>3
<1>4. Repaired <=> OnlyTheOrderIsLeftToFix
  <2>1. Document.outline = outline /\ Document.page = page /\ Document.prepared = prepared
    BY DEF Document
  <2>2. QED  BY <2>1, OnlyOrderMeansClean DEF Repaired, OnlyTheOrderIsLeftToFix
<1>5. QED  BY <1>2, <1>3, <1>4, AuthoringKept, PTL DEF AuthoringSpec
=============================================================================
