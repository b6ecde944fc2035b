--------------------------- MODULE MCGuideLibrary ---------------------------
(* Small libraries for TLC: which identities exist and how far the counters
   run is each configuration's choice. *)
EXTENDS GuideLibrary, TLC

\* A document requires at most one version of one item.
MCDocuments == {{}} \cup {{r} : r \in [item : Items, version : 1..MaxItemVersion]}

\* Identities are interchangeable: nothing in the code orders or compares them.
Symmetry == Permutations(Categories) \cup Permutations(Items) \cup Permutations(Guides)

Existing == {c \in Categories : category[c].version # 0}
WithGuides == \E g \in Guides : guide[g].state # "absent"
WithItems == \E i \in Items : item[i].version # 0

MuchEdited == {c \in Categories : category[c].version > 2}

\* Three questions in one configuration, explored as far as each needs: the tree
\* alone with all its categories, guides filed under two of them, and items
\* required by guides filed under one.
SmallEnough ==
    /\ WithGuides => Cardinality(Existing) <= 2 /\ Cardinality(MuchEdited) <= 1
    /\ WithItems =>
          /\ Cardinality(Existing) <= 1
          /\ \A c \in Categories : category[c].version <= 2
          /\ \A g \in Guides : guide[g].revision <= 3
=============================================================================
