----------------------------- MODULE GuideDraft -----------------------------
(***************************************************************************)
(* What the server promises a client about one guide: a draft that carries  *)
(* a version, a publication state that carries a revision, and the releases *)
(* made of the draft.  A client may send any expectation of them - what a    *)
(* page of its once showed, however old - and the request takes effect only  *)
(* if that is what the guide is when it is served.  GuideLibrary implements  *)
(* this module (GuideLibraryRefinement_proofs); Editor is one of its clients. *)
(***************************************************************************)
EXTENDS Naturals, Sequences

CONSTANTS
    Contents,       \* what a draft can say, with its filing and its requirements
    NoContent,      \* of a guide that was not created yet
    MaxVersion,     \* bounds of the model on the two counters
    MaxRevision

ASSUME ContentsAssumption == NoContent \notin Contents
ASSUME DraftBoundsAssumption == MaxVersion \in Nat /\ MaxRevision \in Nat

VARIABLES
    draft,      \* the row of app.guide
    released    \* app.release: what each release says, in order

draftVars == <<draft, released>>

Sections == {"public", "members"}

DraftTypeOK ==
    /\ draft \in [content : Contents \cup {NoContent}, version : Nat,
                  state : {"absent", "draft", "published", "withdrawn"}, audience : Sections,
                  release : Nat, published : Nat, revision : Nat]
    /\ released \in Seq(Contents)

Absent == [content |-> NoContent, version |-> 0, state |-> "absent", audience |-> "members",
           release |-> 0, published |-> 0, revision |-> 0]

DraftInit ==
    /\ draft = Absent
    /\ released = <<>>

Create(content, audience) ==
    /\ draft.state = "absent"
    /\ draft' = [Absent EXCEPT !.content = content, !.version = 1, !.state = "draft",
                               !.audience = audience]
    /\ UNCHANGED released

Save(expectedVersion, content) ==
    /\ draft.state # "absent"
    /\ draft.version = expectedVersion
    /\ draft.version < MaxVersion
    /\ draft' = [draft EXCEPT !.version = draft.version + 1, !.content = content]
    /\ UNCHANGED released

\* Whoever may read what changes, so the publication state is a new one.
Republished(new) ==
    /\ draft.revision < MaxRevision
    /\ draft' = [new EXCEPT !.revision = draft.revision + 1]

\* Mutant: the revision the client saw is not compared.
SeenButForRevision(expected) ==
    /\ draft.release = expected.release

Seen(expected) ==
    /\ draft.revision = expected.revision
    /\ draft.release = expected.release

Publish(expected) ==
    /\ draft.state # "absent"
    /\ Seen(expected)
    /\ draft.version = expected.version
    /\ draft.published # draft.version
    /\ Republished([draft EXCEPT !.state = "published", !.release = @ + 1,
                                 !.published = draft.version])
    /\ released' = Append(released, draft.content)

Withdraw(expected) ==
    /\ draft.state = "published"
    /\ Seen(expected)
    /\ Republished([draft EXCEPT !.state = "withdrawn"])
    /\ UNCHANGED released

Reinstate(expected) ==
    /\ draft.state = "withdrawn"
    /\ Seen(expected)
    /\ Republished([draft EXCEPT !.state = "published"])
    /\ UNCHANGED released

Move(audience, expectedRelease) ==
    /\ draft.state \in {"draft", "published"}
    /\ draft.release = expectedRelease
    /\ draft.audience # audience
    /\ Republished([draft EXCEPT !.audience = audience])
    /\ UNCHANGED released

\* What a client may say it saw of the draft and of its publication.
Expectations == [version : 0..MaxVersion, release : 0..MaxVersion, revision : 0..MaxRevision]

DraftNext ==
    \/ \E content \in Contents, audience \in Sections : Create(content, audience)
    \/ \E content \in Contents, expectedVersion \in 0..MaxVersion : Save(expectedVersion, content)
    \/ \E expected \in Expectations : Publish(expected) \/ Withdraw(expected) \/ Reinstate(expected)
    \/ \E audience \in Sections, expectedRelease \in 0..MaxVersion : Move(audience, expectedRelease)

DraftSpec == DraftInit /\ [][DraftNext]_draftVars
=============================================================================
