----------------------------- MODULE PublicShelf -----------------------------
(***************************************************************************)
(* What the library promises somebody who is not a member: a shelf on which *)
(* each guide shows nothing or exactly its newest release, and a revision    *)
(* that counts every change of a guide's publication.  An older release      *)
(* never comes back once a newer one was made, and what the shelf shows of   *)
(* a guide never changes unless that guide's revision does.                  *)
(***************************************************************************)
EXTENDS Naturals

CONSTANT Guides

VARIABLES
    shelf,      \* the release a visitor reads of each guide, 0 for none
    newest,     \* how many releases each guide has
    revision    \* the publication revision of each guide

vars == <<shelf, newest, revision>>

Init == shelf = [g \in Guides |-> 0] /\ newest = shelf /\ revision = shelf

Revise(g) == revision' = [revision EXCEPT ![g] = @ + 1]

\* A new release is made, and shown if the guide is public.
Release(g, shown) ==
    /\ newest' = [newest EXCEPT ![g] = @ + 1]
    /\ shelf' = [shelf EXCEPT ![g] = IF shown THEN newest[g] + 1 ELSE 0]
    /\ Revise(g)

\* The newest release goes on the shelf or comes off it, or the publication
\* changes in a way no visitor sees.
Place(g, shown) ==
    /\ shelf' = [shelf EXCEPT ![g] = IF shown THEN newest[g] ELSE 0]
    /\ Revise(g)
    /\ UNCHANGED newest

Next == \E g \in Guides, shown \in BOOLEAN : Release(g, shown) \/ Place(g, shown)

Spec == Init /\ [][Next]_vars
=============================================================================
