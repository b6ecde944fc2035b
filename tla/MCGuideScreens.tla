--------------------------- MODULE MCGuideScreens ---------------------------
(* A small library with its managers' pages, for TLC. *)
EXTENDS GuideScreens, TLC

\* What a draft says is where it is filed: no items, so nothing to require.
MCDocuments == {{}}

\* Identities are interchangeable: nothing in the code orders or compares them.
Symmetry == Permutations(Categories)
=============================================================================
