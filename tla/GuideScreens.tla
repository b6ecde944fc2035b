---------------------------- MODULE GuideScreens ----------------------------
(***************************************************************************)
(* The library with what its managers have in front of them.  A page of a   *)
(* guide is delivered at some moment (getDraft, getRelease) and says what    *)
(* the guide was then; whoever reads it decides at leisure, while others     *)
(* save, publish, withdraw and move.  The request that comes of it carries   *)
(* three numbers of the page - the version, the release and the publication  *)
(* revision - and nothing else of what was read.                             *)
(***************************************************************************)
EXTENDS GuideLibrary

VARIABLE screen     \* what a page open on each guide was delivered, if there is one
                    \* (no part of the server)

screenVars == <<vars, screen>>

\* The current release of guide g, if it has one: what its number stands for.
Current(g) == IF HasRelease(g) THEN {CurrentRelease(g)} ELSE {}

\* The answers a page is drawn from: the draft's row and the release it names (which
\* getRelease gives while it is published).  The events told by then are noted beside
\* them to know what was decided since.
Page(g) == [row |-> guide[g], current |-> Current(g), told |-> Len(outbox[g])]

ScreensInit == Init /\ screen = [g \in Guides |-> {}]

Look(g) ==
    /\ guide[g].state # "absent"
    /\ screen' = [screen EXCEPT ![g] = {Page(g)}]
    /\ UNCHANGED vars

ScreensNext ==
    \/ \E g \in Guides : Look(g)
    \/ Next /\ UNCHANGED screen

ScreensSpec == ScreensInit /\ [][ScreensNext]_screenVars

-----------------------------------------------------------------------------
(* Properties *)

\* What a request sent from a page says its author saw.
Sent(page) == [version |-> page.row.version, release |-> page.row.currentRelease,
               revision |-> page.row.revision]

\* What a request sent from a page finds in the database when it takes effect.
ActsOnWhatWasShown(g, page) ==
    LET undecided == Len(outbox[g]) = page.told /\ Current(g) = page.current
    IN  /\ (\E c \in Categories, document \in Documents :
               SaveDraft(g, page.row.version, c, document)) => Says(guide[g]) = Says(page.row)
        /\ PublishDraft(g, Sent(page)) => guide[g] = page.row /\ undecided
        /\ WithdrawGuide(g, Sent(page)) \/ ReinstateGuide(g, Sent(page)) =>
               guide[g].audience = page.row.audience /\ undecided
        /\ (\E audience \in Visibility : SetGuideAudience(g, audience, page.row.currentRelease)) =>
               Current(g) = page.current

\* Three numbers stand for everything a manager read.  However old the page and
\* whatever others did since, a save replaces only the text the page showed, what is
\* published is the draft the page showed in the section it showed, a withdrawal or
\* a reinstatement is of a publication nobody has decided on again, and a move opens
\* or closes only the release the page showed: "nobody makes public a version they
\* have not read" (store.ts:1239).
RequestsActOnWhatWasShown ==
    [][\A g \in Guides : \A page \in screen[g] : ActsOnWhatWasShown(g, page)]_screenVars
=============================================================================
