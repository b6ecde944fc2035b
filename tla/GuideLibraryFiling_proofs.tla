---------------------- MODULE GuideLibraryFiling_proofs ----------------------
(***************************************************************************)
(* What keeps what is filed where readers find it: the tree itself (no      *)
(* cycle, a bounded depth, parents that cover their children), the active    *)
(* categories of the releases readers have, the reference table, and the     *)
(* items public releases require.                                            *)
(***************************************************************************)
EXTENDS GuideLibrary_proofs, FiniteSetTheorems

-----------------------------------------------------------------------------
(* Parents cover their children *)

\* The two conjuncts about archiving and visibility rest on the trigger looking
\* up, at the parent, and down, at the children, whichever of the two changes.
LEMMA WriteCategoryCovers ==
    ASSUME Typed, ParentsCoverChildren,
           NEW c \in Categories, NEW row \in CategoryRow, row.version # 0, WriteCategory(c, row)
    PROVE  ParentsCoverChildren'
<1>1. /\ category'[c] = row
      /\ \A x \in Categories \ {c} : category'[x] = category[x]
      /\ PlaceAccepted(c, row)
      /\ VisibilityAccepted(c, row)
      /\ ArchiveAccepted(c, row)
  BY WriteCategoryEffect
<1>2. /\ row.parent \in Categories \cup {Nowhere}
      /\ row.visibility \in {"public", "members"}
      /\ \A x \in Categories : category[x].parent \in Categories \cup {Nowhere}
      /\ \A x \in Categories : category[x].visibility \in {"public", "members"}
  BY DEF Typed, TypeOK, CategoryRow, Visibility
<1>3. row.parent # c
  BY <1>1, ChainStartsHere, NowhereAssumption DEF PlaceAccepted
<1> DEFINE Covers(x) ==
      /\ category'[category'[x].parent].version # 0
      /\ ~category'[x].archived => ~category'[category'[x].parent].archived
      /\ category'[x].visibility = "public" =>
           category'[category'[x].parent].visibility = "public"
<1> SUFFICES ASSUME NEW x \in Categories, category'[x].parent # Nowhere PROVE Covers(x)
  BY DEF ParentsCoverChildren
<1>4. CASE x = c
  <2>1. category'[row.parent] = category[row.parent] /\ row.parent # Nowhere
    BY <1>1, <1>2, <1>3, <1>4
  <2> QED BY <1>1, <1>4, <2>1 DEF PlaceAccepted, VisibilityAccepted
<1>5. CASE x # c /\ category[x].parent # c
  BY <1>1, <1>2, <1>5 DEF ParentsCoverChildren
<1>6. CASE x # c /\ category[x].parent = c
  <2>1. x \in Children(c) /\ category'[x] = category[x]
    BY <1>1, <1>6 DEF Children
  <2>2. ~category[x].archived => ~row.archived
    BY <1>1, <2>1 DEF ArchiveAccepted
  <2>3. category[x].visibility = "public" => row.visibility = "public"
    <3> SUFFICES ASSUME category[x].visibility = "public" PROVE row.visibility = "public"
      OBVIOUS
    <3>1. category[c].visibility = "public"
      BY <1>1, <1>6, <2>1 DEF ParentsCoverChildren
    <3> QED BY <1>1, <1>2, <2>1, <3>1 DEF VisibilityAccepted
  <2>4. category'[c] = row /\ category'[x].parent = c
    BY <1>1, <1>6, <2>1
  <2>5. row.version # 0
    BY <1>1
  <2> QED BY <2>1, <2>2, <2>3, <2>4, <2>5
<1> QED
  BY <1>4, <1>5, <1>6

\* A category step is the only one that writes the tree.
LEMMA OtherStepsKeepTheTree ==
    ASSUME Typed, CatalogStep \/ DraftStep \/ PublicationStep \/ UNCHANGED vars
    PROVE  UNCHANGED category
<1>1. CASE CatalogStep
  <2>1. \A i \in Items, row \in ItemRow : WriteItem(i, row) => UNCHANGED category
    BY DEF WriteItem
  <2>2. \E i \in Items, row \in ItemRow : WriteItem(i, row)
    BY <1>1, CatalogStepsWriteRows
  <2> QED
    BY <2>1, <2>2
<1>2. CASE DraftStep
  <2> USE <1>2, CreateDraftEffect, SaveDraftEffect DEF OnlyGuide
  <2> QED
    BY DEF DraftStep
<1>3. CASE PublicationStep
  <2>1. ASSUME NEW g \in Guides, NEW expected \in Expectation,
               PublishDraft(g, expected) \/ WithdrawGuide(g, expected) \/ ReinstateGuide(g, expected)
        PROVE  UNCHANGED category
    BY <2>1 DEF PublishDraft, WithdrawGuide, ReinstateGuide
  <2>2. ASSUME NEW g \in Guides, NEW audience \in Visibility, NEW n \in 0..MaxDraftVersion,
               SetGuideAudience(g, audience, n)
        PROVE  UNCHANGED category
    BY <2>2 DEF SetGuideAudience
  <2> QED
    BY <1>3, <2>1, <2>2 DEF PublicationStep
<1>4. CASE UNCHANGED vars
  BY <1>4 DEF vars
<1> QED
  BY <1>1, <1>2, <1>3, <1>4

\* No active category below an archived one, and none public below one that is
\* not, in whatever order categories are moved, archived and restricted.
THEOREM ParentsAlwaysCover == Spec => []ParentsCoverChildren
<1>1. Init => ParentsCoverChildren
  BY DEF Init, ParentsCoverChildren, NoCategory
<1>2. Typed /\ ParentsCoverChildren /\ [Next]_vars => ParentsCoverChildren'
  <2> SUFFICES ASSUME Typed, ParentsCoverChildren, [Next]_vars PROVE ParentsCoverChildren'
    OBVIOUS
  <2>1. CASE CategoryStep
    BY <2>1, CategoryStepsWriteRows, WriteCategoryCovers
  <2>2. CASE CatalogStep \/ DraftStep \/ PublicationStep \/ UNCHANGED vars
    BY <2>2, OtherStepsKeepTheTree DEF ParentsCoverChildren
  <2> QED BY <2>1, <2>2 DEF Next
<1> QED
  BY <1>1, <1>2, InitTyped, NextTyped, PTL DEF Spec

-----------------------------------------------------------------------------
(* The tree stays a tree *)

\* The walk up any parent function f, as Chain makes it up the tree.
ClosedUnder(f, S) == \A x \in S : f[x] \in S \cup {Nowhere}
ChainIn(f, c) ==
    {x \in Categories : \A S \in SUBSET Categories : c \in S /\ ClosedUnder(f, S) => x \in S}
ParentFunctions == [Categories -> Categories \cup {Nowhere}]
AcyclicIn(f) == \A c \in Categories : f[c] # Nowhere => c \notin ChainIn(f, f[c])

ParentOf == [x \in Categories |-> category[x].parent]

\* Chain is the walk up the parents, read as a function.
LEMMA ChainIsAWalk ==
    ASSUME TypeOK
    PROVE  /\ ParentOf \in ParentFunctions
           /\ \A c : Chain(c) = ChainIn(ParentOf, c)
<1>1. ParentOf \in ParentFunctions
  BY DEF TypeOK, CategoryRow, ParentOf, ParentFunctions
<1>2. ASSUME NEW S \in SUBSET Categories PROVE UpClosed(S) <=> ClosedUnder(ParentOf, S)
  BY DEF UpClosed, ClosedUnder, ParentOf
<1> QED
  BY <1>1, <1>2 DEF Chain, ChainIn

\* A chain is the least closed set around where it starts.
LEMMA ChainLeast ==
    ASSUME NEW f, NEW c, NEW S \in SUBSET Categories, c \in S, ClosedUnder(f, S)
    PROVE  ChainIn(f, c) \subseteq S
BY DEF ChainIn

\* A chain starts at its category and is closed under parents.
LEMMA ChainClosed ==
    ASSUME NEW f \in ParentFunctions, NEW c \in Categories
    PROVE  /\ c \in ChainIn(f, c)
           /\ ChainIn(f, c) \in SUBSET Categories
           /\ ClosedUnder(f, ChainIn(f, c))
<1>1. c \in ChainIn(f, c) /\ ChainIn(f, c) \in SUBSET Categories
  BY DEF ChainIn
<1>2. ASSUME NEW x \in ChainIn(f, c), f[x] # Nowhere PROVE f[x] \in ChainIn(f, c)
  <2>1. x \in Categories /\ f[x] \in Categories
    BY <1>2 DEF ChainIn, ParentFunctions
  <2> SUFFICES ASSUME NEW S \in SUBSET Categories, c \in S, ClosedUnder(f, S) PROVE f[x] \in S
    BY <2>1 DEF ChainIn
  <2>2. x \in S
    BY DEF ChainIn
  <2> QED BY <1>2, <2>2 DEF ClosedUnder
<1> QED
  BY <1>1, <1>2 DEF ClosedUnder

\* Chains from a category further up are parts of it.
LEMMA ChainTail ==
    ASSUME NEW f \in ParentFunctions, NEW c \in Categories, NEW x \in ChainIn(f, c)
    PROVE  ChainIn(f, x) \subseteq ChainIn(f, c)
BY ChainClosed, ChainLeast

\* A chain is where it starts, then the chain of the parent.
LEMMA ChainUnfolds ==
    ASSUME NEW f \in ParentFunctions, NEW c \in Categories
    PROVE  ChainIn(f, c) = {c} \cup (IF f[c] = Nowhere THEN {} ELSE ChainIn(f, f[c]))
<1> DEFINE T == {c} \cup (IF f[c] = Nowhere THEN {} ELSE ChainIn(f, f[c]))
<1>1. f[c] \in Categories \cup {Nowhere}
  BY DEF ParentFunctions
<1>2. T \in SUBSET Categories /\ c \in T /\ ClosedUnder(f, T)
  <2>1. CASE f[c] = Nowhere
    BY <2>1 DEF ClosedUnder
  <2>2. CASE f[c] # Nowhere
    BY <1>1, <2>2, ChainClosed DEF ClosedUnder
  <2> QED BY <2>1, <2>2
<1>3. ChainIn(f, c) \subseteq T
  <2> HIDE DEF T
  <2> QED BY <1>2, ChainLeast
<1>4. T \subseteq ChainIn(f, c)
  <2>1. c \in ChainIn(f, c)
    BY ChainClosed
  <2>2. f[c] # Nowhere => f[c] \in ChainIn(f, c)
    BY <2>1, ChainClosed DEF ClosedUnder
  <2> QED BY <2>1, <2>2, ChainTail
<1> QED
  BY <1>3, <1>4

\* Hanging c below p, when c is not above p, adds p's chain to those that pass
\* through c and leaves the others as they were or shorter.
LEMMA ReparentedChains ==
    ASSUME NEW f \in ParentFunctions, NEW c \in Categories, NEW p \in Categories \cup {Nowhere},
           p # Nowhere => c \notin ChainIn(f, p), NEW x \in Categories
    PROVE  LET g == [f EXCEPT ![c] = p]
           IN  /\ g \in ParentFunctions
               /\ c \notin ChainIn(f, x) => ChainIn(g, x) \subseteq ChainIn(f, x)
               /\ p = Nowhere => ChainIn(g, x) \subseteq ChainIn(f, x)
               /\ p # Nowhere => ChainIn(g, x) \subseteq ChainIn(f, x) \cup ChainIn(f, p)
<1> DEFINE g == [f EXCEPT ![c] = p]
<1>1. g \in ParentFunctions /\ g[c] = p /\ \A y \in Categories \ {c} : g[y] = f[y]
  BY DEF ParentFunctions
<1> HIDE DEF g
<1>2. /\ x \in ChainIn(f, x)
      /\ ChainIn(f, x) \in SUBSET Categories
      /\ ClosedUnder(f, ChainIn(f, x))
  BY ChainClosed
<1>3. c \notin ChainIn(f, x) \/ p = Nowhere => ClosedUnder(g, ChainIn(f, x))
  BY <1>1, <1>2 DEF ClosedUnder
<1>4. ASSUME p # Nowhere PROVE ClosedUnder(g, ChainIn(f, x) \cup ChainIn(f, p))
  <2>1. /\ p \in ChainIn(f, p)
        /\ ChainIn(f, p) \in SUBSET Categories
        /\ ClosedUnder(f, ChainIn(f, p))
    BY <1>4, ChainClosed
  <2> QED BY <1>1, <1>2, <2>1 DEF ClosedUnder
<1>5. p # Nowhere => ChainIn(f, p) \in SUBSET Categories
  BY ChainClosed
<1>6. c \notin ChainIn(f, x) \/ p = Nowhere => ChainIn(g, x) \subseteq ChainIn(f, x)
  BY <1>2, <1>3, ChainLeast
<1>7. p # Nowhere => ChainIn(g, x) \subseteq ChainIn(f, x) \cup ChainIn(f, p)
  BY <1>2, <1>4, <1>5, ChainLeast
<1> QED
  BY <1>1, <1>6, <1>7 DEF g

\* Moving a category below one that is not below it closes no cycle.
LEMMA ReparentedAcyclic ==
    ASSUME NEW f \in ParentFunctions, AcyclicIn(f), NEW c \in Categories,
           NEW p \in Categories \cup {Nowhere}, p # Nowhere => c \notin ChainIn(f, p)
    PROVE  AcyclicIn([f EXCEPT ![c] = p])
<1> DEFINE g == [f EXCEPT ![c] = p]
<1>1. g[c] = p /\ \A y \in Categories \ {c} : g[y] = f[y] /\ f[y] \in Categories \cup {Nowhere}
  BY DEF ParentFunctions
<1>2. \A x \in Categories :
         /\ c \notin ChainIn(f, x) => ChainIn(g, x) \subseteq ChainIn(f, x)
         /\ p = Nowhere => ChainIn(g, x) \subseteq ChainIn(f, x)
         /\ p # Nowhere => ChainIn(g, x) \subseteq ChainIn(f, x) \cup ChainIn(f, p)
  BY ReparentedChains
<1> HIDE DEF g
<1> SUFFICES ASSUME NEW x \in Categories, g[x] # Nowhere PROVE x \notin ChainIn(g, g[x])
  BY DEF AcyclicIn, g
<1>3. CASE x = c
  BY <1>1, <1>2, <1>3
<1>4. CASE x # c
  <2> DEFINE q == f[x]
  <2>1. q \in Categories /\ g[x] = q /\ x \notin ChainIn(f, q)
    BY <1>1, <1>4 DEF AcyclicIn
  <2>2. CASE c \notin ChainIn(f, q) \/ p = Nowhere
    BY <1>2, <2>1, <2>2
  <2>3. CASE c \in ChainIn(f, q) /\ p # Nowhere
    <3>1. ASSUME x \in ChainIn(f, p) PROVE FALSE
      <4>1. q \in ChainIn(f, p)
        BY <2>1, <2>3, <3>1, ChainClosed, NowhereAssumption DEF ClosedUnder
      <4>2. c \in ChainIn(f, p)
        BY <2>3, <4>1, ChainTail
      <4> QED BY <2>3, <4>2
    <3> QED BY <1>2, <2>1, <2>3, <3>1
  <2> QED BY <2>2, <2>3
<1> QED
  BY <1>3, <1>4

\* In an acyclic tree, whatever is on a chain through c is above c or has c
\* strictly above it; the last of those below hangs from c itself.
LEMMA ChainsAreLines ==
    ASSUME NEW f \in ParentFunctions, AcyclicIn(f), NEW c \in Categories, NEW d \in Categories,
           c \in ChainIn(f, d)
    PROVE  \A x \in ChainIn(f, d) \ ChainIn(f, c) :
              f[x] = c \/ f[x] \in ChainIn(f, d) \ ChainIn(f, c)
<1> DEFINE L == {x \in ChainIn(f, d) : c \in ChainIn(f, x) \/ x \in ChainIn(f, c)}
<1>0. \A x \in Categories : /\ x \in ChainIn(f, x)
                             /\ ChainIn(f, x) \in SUBSET Categories
                             /\ ClosedUnder(f, ChainIn(f, x))
                             /\ f[x] \in Categories \cup {Nowhere}
  BY ChainClosed DEF ParentFunctions
<1>1. ASSUME NEW x \in ChainIn(f, d), c \in ChainIn(f, x), x # c
      PROVE  f[x] # Nowhere /\ f[x] \in ChainIn(f, d) /\ c \in ChainIn(f, f[x])
  <2>1. x \in Categories
    BY <1>0
  <2>2. f[x] # Nowhere /\ c \in ChainIn(f, f[x])
    BY <1>1, <2>1, ChainUnfolds
  <2> QED BY <1>0, <2>2 DEF ClosedUnder
<1>2. ClosedUnder(f, L)
  <2> SUFFICES ASSUME NEW x \in L PROVE f[x] \in L \cup {Nowhere}
    BY DEF ClosedUnder
  <2>1. CASE x \in ChainIn(f, c)
    BY <1>0, <2>1 DEF ClosedUnder
  <2>2. CASE x \notin ChainIn(f, c)
    BY <1>0, <1>1, <2>2
  <2> QED BY <2>1, <2>2
<1>3. L \in SUBSET Categories /\ d \in L
  BY <1>0
<1>4. ChainIn(f, d) \subseteq L
  <2> HIDE DEF L
  <2> QED BY <1>2, <1>3, ChainLeast
<1> SUFFICES ASSUME NEW x \in ChainIn(f, d) \ ChainIn(f, c), f[x] \in ChainIn(f, c)
             PROVE  f[x] = c
  <2>1. ASSUME NEW x \in ChainIn(f, d) \ ChainIn(f, c) PROVE f[x] \in ChainIn(f, d)
    <3>1. c \in ChainIn(f, x) /\ x # c
      BY <1>0, <1>4, <2>1
    <3> QED BY <1>1, <2>1, <3>1
  <2> QED BY <2>1
<1> DEFINE y == f[x]
<1>5. y \in Categories /\ c \in ChainIn(f, y)
  <2>1. c \in ChainIn(f, x) /\ x # c
    BY <1>0, <1>4
  <2> QED BY <1>0, <1>1, <2>1
<1>6. ASSUME y # c PROVE FALSE
  <2>1. f[c] # Nowhere /\ y \in ChainIn(f, f[c])
    BY <1>6, ChainUnfolds
  <2>2. c \in ChainIn(f, f[c])
    BY <1>0, <1>5, <2>1, ChainTail
  <2> QED BY <2>1, <2>2 DEF AcyclicIn
<1> QED
  BY <1>6

\* What passes through c after the move: what was below c, c, and p's chain.
LEMMA ReparentedThroughC ==
    ASSUME NEW f \in ParentFunctions, AcyclicIn(f), NEW c \in Categories,
           NEW p \in Categories \cup {Nowhere}, p # Nowhere => c \notin ChainIn(f, p),
           NEW d \in Categories, c \in ChainIn(f, d)
    PROVE  ChainIn([f EXCEPT ![c] = p], d)
             \subseteq (ChainIn(f, d) \ ChainIn(f, c)) \cup {c}
                       \cup (IF p = Nowhere THEN {} ELSE ChainIn(f, p))
<1> DEFINE g == [f EXCEPT ![c] = p]
           Below == ChainIn(f, d) \ ChainIn(f, c)
           Above == IF p = Nowhere THEN {} ELSE ChainIn(f, p)
           S == Below \cup {c} \cup Above
<1>1. g[c] = p /\ \A x \in Categories \ {c} : g[x] = f[x]
  BY DEF ParentFunctions
<1>2. Below \in SUBSET Categories /\ d \in Below \cup {c}
  <2>1. d \in ChainIn(f, d) /\ ChainIn(f, d) \in SUBSET Categories
    BY ChainClosed
  <2>2. ASSUME d \in ChainIn(f, c), d # c PROVE FALSE
    <3>1. f[c] # Nowhere /\ d \in ChainIn(f, f[c]) /\ f[c] \in Categories
      BY <2>2, ChainUnfolds DEF ParentFunctions
    <3>2. c \in ChainIn(f, f[c])
      BY <3>1, ChainTail
    <3> QED BY <3>1, <3>2 DEF AcyclicIn
  <2> QED BY <2>1, <2>2
<1>3. /\ Above \in SUBSET Categories
      /\ c \notin Above
      /\ ClosedUnder(f, Above)
      /\ p \in Above \cup {Nowhere}
  <2>1. CASE p = Nowhere
    BY <2>1 DEF ClosedUnder
  <2>2. CASE p # Nowhere
    BY <2>2, ChainClosed
  <2> QED BY <2>1, <2>2
<1>4. c \notin Below /\ \A x \in Below : f[x] = c \/ f[x] \in Below
  BY ChainsAreLines, ChainClosed
<1> HIDE DEF g, Below, Above
<1>5. ClosedUnder(g, S)
  <2> SUFFICES ASSUME NEW x \in S PROVE g[x] \in S \cup {Nowhere}
    BY DEF ClosedUnder
  <2>1. CASE x = c
    BY <1>1, <1>3, <2>1
  <2>2. CASE x \in Below
    BY <1>1, <1>2, <1>4, <2>2
  <2>3. CASE x \in Above
    BY <1>1, <1>3, <2>3 DEF ClosedUnder
  <2> QED BY <2>1, <2>2, <2>3
<1>6. S \in SUBSET Categories /\ d \in S
  BY <1>2, <1>3
<1>7. ChainIn(g, d) \subseteq S
  <2> HIDE DEF S
  <2> QED BY <1>5, <1>6, ChainLeast
<1> QED
  BY <1>7 DEF g, Below, Above

\* The levels trigger check_category_tree adds up bound every chain it makes.
LEMMA ReparentedDepth ==
    ASSUME NEW f \in ParentFunctions, AcyclicIn(f), NEW c \in Categories,
           NEW p \in Categories \cup {Nowhere}, p # Nowhere => c \notin ChainIn(f, p),
           NEW d \in Categories, c \in ChainIn(f, d)
    PROVE  Cardinality(ChainIn([f EXCEPT ![c] = p], d))
             <= (IF p = Nowhere THEN 0 ELSE Cardinality(ChainIn(f, p)))
                + (Cardinality(ChainIn(f, d)) - Cardinality(ChainIn(f, c))) + 1
<1> DEFINE Below == ChainIn(f, d) \ ChainIn(f, c)
           Above == IF p = Nowhere THEN {} ELSE ChainIn(f, p)
           New == ChainIn([f EXCEPT ![c] = p], d)
<1>1. \A x \in Categories : /\ ChainIn(f, x) \in SUBSET Categories
                             /\ IsFiniteSet(ChainIn(f, x))
                             /\ Cardinality(ChainIn(f, x)) \in Nat
  BY ChainClosed, CategoriesAssumption, FS_Subset, FS_CardinalityType
<1>2. ChainIn(f, c) \subseteq ChainIn(f, d)
  BY ChainTail
<1>3. /\ IsFiniteSet(Below)
      /\ Cardinality(Below) = Cardinality(ChainIn(f, d)) - Cardinality(ChainIn(f, c))
      /\ Cardinality(Below) \in Nat
  <2>1. ChainIn(f, d) \cap ChainIn(f, c) = ChainIn(f, c)
    BY <1>2
  <2> QED BY <1>1, <2>1, FS_Difference, FS_CardinalityType
<1>4. /\ IsFiniteSet(Above)
      /\ Cardinality(Above) = IF p = Nowhere THEN 0 ELSE Cardinality(ChainIn(f, p))
      /\ Cardinality(Above) \in Nat
  BY <1>1, FS_EmptySet
<1>5. New \subseteq (Below \cup Above) \cup {c}
  BY ReparentedThroughC
<1> HIDE DEF Below, Above, New
<1>6. IsFiniteSet(Below \cup Above) /\ Cardinality(Below \cup Above) <= Cardinality(Below) + Cardinality(Above)
  <2>1. Cardinality(Below \cap Above) \in Nat
    BY <1>3, FS_Intersection, FS_CardinalityType
  <2>2. /\ IsFiniteSet(Below \cup Above)
        /\ Cardinality(Below \cup Above)
             = Cardinality(Below) + Cardinality(Above) - Cardinality(Below \cap Above)
    BY <1>3, <1>4, FS_Union
  <2> QED BY <1>3, <1>4, <2>1, <2>2
<1>7. /\ IsFiniteSet((Below \cup Above) \cup {c})
      /\ Cardinality((Below \cup Above) \cup {c}) <= Cardinality(Below) + Cardinality(Above) + 1
      /\ Cardinality((Below \cup Above) \cup {c}) \in Nat
  <2>1. Cardinality(Below \cup Above) \in Nat
    BY <1>6, FS_CardinalityType
  <2>2. /\ IsFiniteSet((Below \cup Above) \cup {c})
        /\ Cardinality((Below \cup Above) \cup {c})
             \in {Cardinality(Below \cup Above), Cardinality(Below \cup Above) + 1}
    BY <1>6, FS_AddElement
  <2> QED BY <1>3, <1>4, <1>6, <2>1, <2>2
<1>8. Cardinality(New) <= Cardinality((Below \cup Above) \cup {c}) /\ Cardinality(New) \in Nat
  BY <1>5, <1>7, FS_Subset, FS_CardinalityType
<1>9. Cardinality(New) <= Cardinality(Above) + Cardinality(Below) + 1
  BY <1>3, <1>4, <1>7, <1>8
<1> QED
  BY <1>3, <1>4, <1>9 DEF New

\* TreeStaysATree, said of the walk up ParentOf.
LEMMA TreeOfParents ==
    TypeOK => (TreeStaysATree <=>
        /\ AcyclicIn(ParentOf)
        /\ \A d \in Categories : Cardinality(ChainIn(ParentOf, d)) <= MaxDepth)
BY ChainIsAWalk DEF TreeStaysATree, AcyclicIn, ParentOf

\* What PlaceAccepted admits keeps the tree a tree, and within its depth.
LEMMA WriteCategoryKeepsTree ==
    ASSUME Typed, Typed', TreeStaysATree,
           NEW c \in Categories, NEW row \in CategoryRow, WriteCategory(c, row)
    PROVE  TreeStaysATree'
<1> DEFINE f == ParentOf
           p == row.parent
           g == [f EXCEPT ![c] = p]
<1>1. /\ category'[c] = row
      /\ \A x \in Categories \ {c} : category'[x] = category[x]
      /\ PlaceAccepted(c, row)
  BY WriteCategoryEffect
<1>2. p \in Categories \cup {Nowhere}
  BY DEF CategoryRow
<1>3. f \in ParentFunctions /\ \A x : Chain(x) = ChainIn(f, x)
  BY ChainIsAWalk DEF Typed
<1>4. ParentOf' = g
  BY <1>1 DEF ParentOf
<1>5. /\ AcyclicIn(f)
      /\ \A x \in Categories : Cardinality(ChainIn(f, x)) <= MaxDepth
  BY TreeOfParents DEF Typed
<1>6. p # Nowhere => c \notin ChainIn(f, p)
  BY <1>1, <1>3 DEF PlaceAccepted
<1>7. \A d \in Categories : c \in ChainIn(f, d) =>
        (IF p = Nowhere THEN 0 ELSE Cardinality(ChainIn(f, p)))
          + (Cardinality(ChainIn(f, d)) - Cardinality(ChainIn(f, c))) + 1 <= MaxDepth
  BY <1>1, <1>3 DEF PlaceAccepted, LevelsBelow
<1> HIDE DEF f, p, g
<1>8. AcyclicIn(g)
  BY <1>2, <1>3, <1>5, <1>6, ReparentedAcyclic DEF g
<1>9. ASSUME NEW d \in Categories PROVE Cardinality(ChainIn(g, d)) <= MaxDepth
  <2>1. /\ g \in ParentFunctions
        /\ c \notin ChainIn(f, d) => ChainIn(g, d) \subseteq ChainIn(f, d)
    BY <1>2, <1>3, <1>6, ReparentedChains DEF g
  <2>2. \A h \in ParentFunctions : /\ ChainIn(h, d) \in SUBSET Categories
                                   /\ IsFiniteSet(ChainIn(h, d))
                                   /\ Cardinality(ChainIn(h, d)) \in Nat
    BY ChainClosed, CategoriesAssumption, FS_Subset, FS_CardinalityType
  <2>3. MaxDepth \in Nat
    BY DepthAssumption
  <2>4. CASE c \notin ChainIn(f, d)
    <3>1. Cardinality(ChainIn(g, d)) <= Cardinality(ChainIn(f, d))
      BY <1>3, <2>1, <2>2, <2>4, FS_Subset
    <3>2. Cardinality(ChainIn(f, d)) <= MaxDepth
      BY <1>5
    <3> QED BY <1>3, <2>1, <2>2, <2>3, <3>1, <3>2
  <2>5. CASE c \in ChainIn(f, d)
    <3> DEFINE bound == (IF p = Nowhere THEN 0 ELSE Cardinality(ChainIn(f, p)))
                          + (Cardinality(ChainIn(f, d)) - Cardinality(ChainIn(f, c))) + 1
    <3>1. Cardinality(ChainIn(g, d)) <= bound
      BY <1>2, <1>3, <1>5, <1>6, <2>5, ReparentedDepth DEF g
    <3>2. bound <= MaxDepth
      BY <1>7, <2>5
    <3>3. bound \in Int
      <4>1. \A x \in Categories : Cardinality(ChainIn(f, x)) \in Nat
        BY <1>3, ChainClosed, CategoriesAssumption, FS_Subset, FS_CardinalityType
      <4> QED BY <1>2, <4>1
    <3> HIDE DEF bound
    <3> QED BY <2>1, <2>2, <2>3, <3>1, <3>2, <3>3
  <2> QED BY <2>4, <2>5
<1>10. TreeStaysATree' <=>
         /\ AcyclicIn(ParentOf')
         /\ \A d \in Categories : Cardinality(ChainIn(ParentOf', d)) <= MaxDepth
  <2>1. (TypeOK => (TreeStaysATree <=>
             /\ AcyclicIn(ParentOf)
             /\ \A d \in Categories : Cardinality(ChainIn(ParentOf, d)) <= MaxDepth))'
    BY TreeOfParents, PTL
  <2> QED BY <2>1 DEF Typed, AcyclicIn
<1> QED
  BY <1>4, <1>8, <1>9, <1>10

\* Rows not inserted yet hang nowhere.
LEMMA InitTree == Init => TreeStaysATree
<1> SUFFICES ASSUME Init PROVE TreeStaysATree
  OBVIOUS
<1>1. ParentOf \in ParentFunctions /\ TypeOK
  BY InitTyped, ChainIsAWalk DEF Typed
<1>2. \A d \in Categories : ParentOf[d] = Nowhere
  BY DEF Init, NoCategory, ParentOf
<1>3. \A d \in Categories : ChainIn(ParentOf, d) = {d}
  BY <1>1, <1>2, ChainUnfolds
<1>4. \A d \in Categories : Cardinality(ChainIn(ParentOf, d)) <= MaxDepth
  BY <1>3, FS_Singleton, DepthAssumption
<1> QED
  BY <1>1, <1>2, <1>4, TreeOfParents DEF AcyclicIn

\* However categories are moved, none ends below itself and no chain is longer
\* than the depth check_category_tree admits: what is above the new parent plus
\* what hangs below the moved category is all a move can put on one chain.
THEOREM TreeAlwaysATree == Spec => []TreeStaysATree
<1>1. Typed /\ TreeStaysATree /\ [Next]_vars => TreeStaysATree'
  <2> SUFFICES ASSUME Typed, TreeStaysATree, [Next]_vars PROVE TreeStaysATree'
    OBVIOUS
  <2>1. CASE CategoryStep
    BY <2>1, CategoryStepsWriteRows, NextTyped, WriteCategoryKeepsTree
  <2>2. CASE CatalogStep \/ DraftStep \/ PublicationStep \/ UNCHANGED vars
    <3>1. category' = category
      BY <2>2, OtherStepsKeepTheTree
    <3>2. \A c : Chain(c)' = Chain(c)
      BY <3>1 DEF Chain, UpClosed
    <3> QED BY <3>1, <3>2 DEF TreeStaysATree
  <2> QED BY <2>1, <2>2 DEF Next
<1> QED
  BY <1>1, InitTree, InitTyped, NextTyped, PTL DEF Spec

\* The tree stays sound whatever is moved, archived, restricted or opened, in
\* whatever order: both parts are kept by every write of a category.
THEOREM TreeAlwaysSound == Spec => []TreeIsSound
BY TreeAlwaysATree, ParentsAlwaysCover, PTL DEF TreeIsSound

-----------------------------------------------------------------------------
(* What readers have is filed under active categories *)

\* ArchiveAccepted looks at the releases, so archiving spares what readers have.
LEMMA WriteCategoryKeepsFiling ==
    ASSUME Typed, ReleasesFollowDrafts, PublishedReleasesAreFiledActive,
           NEW c \in Categories, NEW row \in CategoryRow, WriteCategory(c, row)
    PROVE  PublishedReleasesAreFiledActive'
<1>1. /\ category'[c] = row
      /\ \A x \in Categories \ {c} : category'[x] = category[x]
      /\ UNCHANGED <<guide, release>>
      /\ ArchiveAccepted(c, row)
  BY WriteCategoryEffect
<1> SUFFICES ASSUME NEW g \in Guides, guide[g].state = "published"
             PROVE  ~category'[CurrentRelease(g).category].archived
  BY <1>1 DEF PublishedReleasesAreFiledActive, CurrentRelease
<1>2. CurrentRelease(g).category \in Categories /\ HasRelease(g) /\ Live(g)
  BY PublishedHasRelease DEF HasRelease, Live
<1>3. CASE CurrentRelease(g).category = c
  BY <1>1, <1>2, <1>3 DEF ArchiveAccepted
<1>4. CASE CurrentRelease(g).category # c
  BY <1>1, <1>2, <1>4 DEF PublishedReleasesAreFiledActive
<1> QED
  BY <1>3, <1>4

\* A guide whose current release stays where it was filed.
LEMMA FilingStays ==
    ASSUME PublishedReleasesAreFiledActive, NEW g \in Guides, OnlyGuide(g), release'[g] = release[g],
           guide'[g].currentRelease = guide[g].currentRelease,
           guide'[g].state = "published" => ~category[CurrentRelease(g).category].archived
    PROVE  PublishedReleasesAreFiledActive'
<1> SUFFICES ASSUME NEW h \in Guides, guide'[h].state = "published"
             PROVE  ~category[CurrentRelease(h)'.category].archived
  BY DEF PublishedReleasesAreFiledActive, OnlyGuide
<1>1. CASE h = g
  BY <1>1 DEF CurrentRelease
<1>2. CASE h # g
  BY <1>2 DEF PublishedReleasesAreFiledActive, CurrentRelease, OnlyGuide
<1> QED
  BY <1>1, <1>2

\* Publishing files the new release under a category it checked is active.
LEMMA PublishDraftFiles ==
    ASSUME Typed, ReleasesFollowDrafts, PublishedReleasesAreFiledActive,
           NEW g \in Guides, NEW expected \in Expectation, PublishDraft(g, expected)
    PROVE  PublishedReleasesAreFiledActive'
<1> DEFINE row == [draftVersion |-> guide[g].version, category |-> guide[g].category,
                   requirements |-> guide[g].requirements]
<1>1. /\ OnlyGuide(g)
      /\ guide'[g].currentRelease = Len(release[g]) + 1
      /\ release'[g] = Append(release[g], row)
      /\ ~category[guide[g].category].archived
  BY PublishDraftEffect DEF ReleasesFollowDrafts, Selectable
<1>2. CurrentRelease(g)' = row
  <2>1. release[g] \in Seq(ReleaseRow)
    BY DEF Typed, TypeOK
  <2>2. Append(release[g], row)[Len(release[g]) + 1] = row
    BY <2>1
  <2> QED BY <1>1, <2>2 DEF CurrentRelease
<1> SUFFICES ASSUME NEW h \in Guides, guide'[h].state = "published"
             PROVE  ~category[CurrentRelease(h)'.category].archived
  BY <1>1 DEF PublishedReleasesAreFiledActive, OnlyGuide
<1>3. CASE h = g
  BY <1>1, <1>2, <1>3
<1>4. CASE h # g
  BY <1>1, <1>4 DEF PublishedReleasesAreFiledActive, CurrentRelease, OnlyGuide
<1> QED
  BY <1>3, <1>4

\* No step archives the category of a release that readers have.
LEMMA NextFiledActive ==
    ASSUME Typed, ReleasesFollowDrafts, PublishedReleasesAreFiledActive, [Next]_vars
    PROVE  PublishedReleasesAreFiledActive'
<1>1. CASE CategoryStep
  BY <1>1, CategoryStepsWriteRows, WriteCategoryKeepsFiling
<1>2. CASE CatalogStep \/ UNCHANGED vars
  <2>1. UNCHANGED <<category, guide, release>>
    BY <1>2, CatalogStepsWriteRows DEF WriteItem, vars
  <2> QED BY <2>1 DEF PublishedReleasesAreFiledActive, CurrentRelease
<1>3. ASSUME NEW g \in Guides, NEW c \in Categories, NEW document \in Documents,
             NEW audience \in Visibility, CreateDraft(g, audience, c, document)
      PROVE  PublishedReleasesAreFiledActive'
  <2>1. /\ OnlyGuide(g)
        /\ guide'[g].state = "draft"
        /\ guide'[g].currentRelease = 0
        /\ release'[g] = release[g]
        /\ guide[g].state = "absent"
    BY <1>3, CreateDraftEffect
  <2>2. guide[g].currentRelease = 0
    BY <2>1 DEF Typed, TypeOK, ReleasesFollowDrafts
  <2> QED BY <2>1, <2>2, FilingStays
<1>4. ASSUME NEW g \in Guides, NEW c \in Categories, NEW document \in Documents,
             NEW expectedVersion \in 1..MaxDraftVersion, SaveDraft(g, expectedVersion, c, document)
      PROVE  PublishedReleasesAreFiledActive'
  <2>1. /\ OnlyGuide(g)
        /\ guide'[g].state = guide[g].state
        /\ guide'[g].currentRelease = guide[g].currentRelease
        /\ release'[g] = release[g]
    BY <1>4, SaveDraftEffect, ExpectationsAreNumbers
  <2> QED BY <2>1, FilingStays DEF PublishedReleasesAreFiledActive
<1>5. ASSUME NEW g \in Guides, NEW expected \in Expectation, PublishDraft(g, expected)
      PROVE  PublishedReleasesAreFiledActive'
  BY <1>5, PublishDraftFiles
<1>6. ASSUME NEW g \in Guides, NEW expected \in Expectation, WithdrawGuide(g, expected)
      PROVE  PublishedReleasesAreFiledActive'
  BY <1>6, WithdrawGuideEffect, FilingStays
<1>7. ASSUME NEW g \in Guides, NEW expected \in Expectation, ReinstateGuide(g, expected)
      PROVE  PublishedReleasesAreFiledActive'
  BY <1>7, ReinstateGuideEffect, FilingStays DEF NoReinstateBlockers
<1>8. ASSUME NEW g \in Guides, NEW audience \in Visibility, NEW expectedRelease \in 0..MaxDraftVersion,
             SetGuideAudience(g, audience, expectedRelease)
      PROVE  PublishedReleasesAreFiledActive'
  <2>1. /\ OnlyGuide(g)
        /\ guide'[g].state = guide[g].state
        /\ guide'[g].currentRelease = guide[g].currentRelease
        /\ release'[g] = release[g]
    BY <1>8, SetGuideAudienceEffect, ExpectationsAreNumbers
  <2> QED BY <2>1, FilingStays DEF PublishedReleasesAreFiledActive
<1> QED
  BY <1>1, <1>2, <1>3, <1>4, <1>5, <1>6, <1>7, <1>8 DEF Next, DraftStep, PublicationStep

\* The category of a release that readers have is never archived under them,
\* not even by a withdrawal, an archiving and a reinstatement in turn.
THEOREM ReadersKeepActiveCategories == Spec => []PublishedReleasesAreFiledActive
<1> DEFINE Inv == Typed /\ ReleasesFollowDrafts /\ PublishedReleasesAreFiledActive
<1>1. Init => PublishedReleasesAreFiledActive
  BY DEF Init, PublishedReleasesAreFiledActive, NoGuide
<1>2. Init => Inv
  BY <1>1, InitTyped, InitNumbered
<1>3. Inv /\ [Next]_vars => Inv'
  BY NextTyped, NextNumbered, NextFiledActive
<1> QED
  BY <1>2, <1>3, PTL DEF Spec

-----------------------------------------------------------------------------
(* The reference table matches the documents *)

\* Releases are numbered from 1, so the draft's rows, under 0, are apart.
LEMMA ReleaseNumbersArePositive ==
    ASSUME Typed, NEW g \in Guides
    PROVE  /\ DOMAIN release[g] = 1..Len(release[g])
           /\ Len(release[g]) \in Nat
           /\ \A n \in DOMAIN release[g] : n # 0
BY DEF Typed, TypeOK

\* Saving replaces exactly the rows of the guide's draft.
LEMMA SaveProjects ==
    ASSUME Typed, ReferencesMatchDocuments, NEW g \in Guides, NEW document,
           \A h \in Guides \ {g} : guide'[h] = guide[h] /\ release'[h] = release[h],
           guide'[g].requirements = document, release'[g] = release[g],
           reference' = Projected(g, 0, document)
    PROVE  ReferencesMatchDocuments'
<1>1. \A h \in Guides \ {g} : DraftRows(h)' = DraftRows(h) /\ ReleaseRows(h)' = ReleaseRows(h)
  BY DEF DraftRows, ReleaseRows, Rows
<1>2. ReleaseRows(g)' = ReleaseRows(g) /\ DraftRows(g)' = Rows(g, 0, document)
  BY DEF DraftRows, ReleaseRows, Rows
<1>3. \A h \in Guides : \A x \in ReleaseRows(h) : x.guide = h /\ x.release # 0
  BY ReleaseNumbersArePositive DEF ReleaseRows, Rows
<1>4. \A h \in Guides : \A x \in DraftRows(h) : x.guide = h /\ x.release = 0
  BY DEF DraftRows, Rows
<1>5. \A x \in reference' : x \in UNION {DraftRows(h)' \cup ReleaseRows(h)' : h \in Guides}
  <2> SUFFICES ASSUME NEW x \in reference'
               PROVE  \E h \in Guides : x \in DraftRows(h)' \cup ReleaseRows(h)'
    OBVIOUS
  <2>1. CASE x \in Rows(g, 0, document)
    BY <1>2, <2>1
  <2>2. CASE x \notin Rows(g, 0, document)
    <3>1. x \in reference /\ ~(x.guide = g /\ x.release = 0)
      BY <2>2 DEF Projected
    <3>2. PICK h \in Guides : x \in DraftRows(h) \cup ReleaseRows(h)
      BY <3>1 DEF ReferencesMatchDocuments
    <3> QED BY <1>1, <1>2, <1>4, <3>1, <3>2
  <2> QED BY <2>1, <2>2
<1>6. \A h \in Guides : \A x \in DraftRows(h)' \cup ReleaseRows(h)' : x \in reference'
  <2> SUFFICES ASSUME NEW h \in Guides, NEW x \in DraftRows(h)' \cup ReleaseRows(h)'
               PROVE  x \in Projected(g, 0, document)
    OBVIOUS
  <2>1. CASE h # g
    <3>1. x \in DraftRows(h) \cup ReleaseRows(h) /\ x.guide # g
      BY <1>1, <1>3, <1>4, <2>1
    <3> QED BY <3>1 DEF Projected, ReferencesMatchDocuments
  <2>2. CASE h = g /\ x \in ReleaseRows(g)
    <3>1. x.release # 0
      BY <1>3, <2>2
    <3> QED BY <2>2, <3>1 DEF Projected, ReferencesMatchDocuments
  <2>3. CASE h = g /\ x \in Rows(g, 0, document)
    BY <2>3 DEF Projected
  <2> QED BY <1>2, <2>1, <2>2, <2>3
<1> QED
  BY <1>5, <1>6 DEF ReferencesMatchDocuments

\* Publishing adds exactly the rows of the new release.
LEMMA PublishProjects ==
    ASSUME Typed, ReleasesFollowDrafts, ReferencesMatchDocuments,
           NEW g \in Guides, NEW expected \in Expectation, PublishDraft(g, expected)
    PROVE  ReferencesMatchDocuments'
<1> DEFINE n == Len(release[g]) + 1
           document == guide[g].requirements
           row == [draftVersion |-> guide[g].version, category |-> guide[g].category,
                   requirements |-> document]
<1>1. /\ \A h \in Guides \ {g} : guide'[h] = guide[h] /\ release'[h] = release[h]
      /\ release'[g] = Append(release[g], row)
      /\ guide'[g].requirements = document
      /\ reference' = Projected(g, n, document)
  BY PublishDraftEffect DEF OnlyGuide, ReleasesFollowDrafts
<1>2. row.requirements = document
  OBVIOUS
<1> HIDE DEF row
<1>3. /\ DOMAIN Append(release[g], row) = DOMAIN release[g] \cup {n}
      /\ Append(release[g], row)[n] = row
      /\ \A m \in DOMAIN release[g] : Append(release[g], row)[m] = release[g][m]
      /\ n # 0
  <2>1. release[g] \in Seq(ReleaseRow)
    BY DEF Typed, TypeOK
  <2> QED BY <2>1
<1>4. \A h \in Guides \ {g} : DraftRows(h)' = DraftRows(h) /\ ReleaseRows(h)' = ReleaseRows(h)
  BY <1>1 DEF DraftRows, ReleaseRows, Rows
<1>5. DraftRows(g)' = DraftRows(g)
  BY <1>1 DEF DraftRows, Rows
<1> HIDE DEF n, document
<1>6. ReleaseRows(g)' = ReleaseRows(g) \cup Rows(g, n, document)
  <2>1. ReleaseRows(g)' = UNION {Rows(g, m, Append(release[g], row)[m].requirements) :
                                     m \in DOMAIN release[g] \cup {n}}
    BY <1>1, <1>3 DEF ReleaseRows, Rows
  <2>2. Rows(g, n, Append(release[g], row)[n].requirements) = Rows(g, n, document)
    BY <1>2, <1>3
  <2>3. \A m \in DOMAIN release[g] :
          Rows(g, m, Append(release[g], row)[m].requirements) = Rows(g, m, release[g][m].requirements)
    BY <1>3
  <2>4. ReleaseRows(g) = UNION {Rows(g, m, release[g][m].requirements) : m \in DOMAIN release[g]}
    BY DEF ReleaseRows
  <2> QED BY <2>1, <2>2, <2>3, <2>4
<1>7. reference' = reference \cup Rows(g, n, document)
  BY <1>1, <1>3 DEF Projected
<1>8. (UNION {DraftRows(h)' \cup ReleaseRows(h)' : h \in Guides})
        = (UNION {DraftRows(h) \cup ReleaseRows(h) : h \in Guides}) \cup Rows(g, n, document)
  BY <1>4, <1>5, <1>6
<1> QED
  BY <1>7, <1>8 DEF ReferencesMatchDocuments

\* A step that leaves the documents and the releases alone leaves their rows.
LEMMA SameRows ==
    ASSUME ReferencesMatchDocuments, reference' = reference,
           \A h \in Guides : /\ guide'[h].requirements = guide[h].requirements
                            /\ release'[h] = release[h]
    PROVE  ReferencesMatchDocuments'
<1>1. \A h \in Guides : DraftRows(h)' = DraftRows(h) /\ ReleaseRows(h)' = ReleaseRows(h)
  BY DEF DraftRows, ReleaseRows, Rows
<1> QED
  BY <1>1 DEF ReferencesMatchDocuments

\* Every handler that changes a document projects it.
LEMMA NextReferencesMatch ==
    ASSUME Typed, ReleasesFollowDrafts, ReferencesMatchDocuments, [Next]_vars
    PROVE  ReferencesMatchDocuments'
<1>1. CASE CategoryStep \/ CatalogStep \/ UNCHANGED vars
  <2>1. UNCHANGED <<guide, release, reference>>
    BY <1>1, CategoryStepsWriteRows, CatalogStepsWriteRows DEF WriteCategory, WriteItem, vars
  <2> QED BY <2>1, SameRows
<1>2. ASSUME NEW g \in Guides, NEW c \in Categories, NEW document \in Documents,
             NEW audience \in Visibility, CreateDraft(g, audience, c, document)
      PROVE  ReferencesMatchDocuments'
  BY <1>2, CreateDraftEffect, SaveProjects DEF OnlyGuide
<1>3. ASSUME NEW g \in Guides, NEW c \in Categories, NEW document \in Documents,
             NEW expectedVersion \in 1..MaxDraftVersion, SaveDraft(g, expectedVersion, c, document)
      PROVE  ReferencesMatchDocuments'
  BY <1>3, SaveDraftEffect, SaveProjects, ExpectationsAreNumbers DEF OnlyGuide
<1>4. ASSUME NEW g \in Guides, NEW expected \in Expectation, PublishDraft(g, expected)
      PROVE  ReferencesMatchDocuments'
  BY <1>4, PublishProjects
<1>5. ASSUME NEW g \in Guides, NEW expected \in Expectation, WithdrawGuide(g, expected)
      PROVE  ReferencesMatchDocuments'
  BY <1>5, WithdrawGuideEffect, SameRows DEF OnlyGuide
<1>6. ASSUME NEW g \in Guides, NEW expected \in Expectation, ReinstateGuide(g, expected)
      PROVE  ReferencesMatchDocuments'
  BY <1>6, ReinstateGuideEffect, SameRows DEF OnlyGuide
<1>7. ASSUME NEW g \in Guides, NEW audience \in Visibility, NEW expectedRelease \in 0..MaxDraftVersion,
             SetGuideAudience(g, audience, expectedRelease)
      PROVE  ReferencesMatchDocuments'
  BY <1>7, SetGuideAudienceEffect, SameRows, ExpectationsAreNumbers DEF OnlyGuide
<1> QED
  BY <1>1, <1>2, <1>3, <1>4, <1>5, <1>6, <1>7 DEF Next, DraftStep, PublicationStep

\* At first there is nothing to reference.
LEMMA InitReferencesMatch == Init => ReferencesMatchDocuments
<1> SUFFICES ASSUME Init PROVE ReferencesMatchDocuments
  OBVIOUS
<1>1. \A g \in Guides : DraftRows(g) = {} /\ ReleaseRows(g) = {}
  <2> SUFFICES ASSUME NEW g \in Guides PROVE DraftRows(g) = {} /\ ReleaseRows(g) = {}
    OBVIOUS
  <2>1. guide[g].requirements = {} /\ release[g] = <<>>
    BY DEF Init, NoGuide
  <2>2. DOMAIN release[g] = {}
    BY <2>1
  <2> QED BY <2>1, <2>2 DEF DraftRows, ReleaseRows, Rows
<1> QED
  BY <1>1 DEF Init, ReferencesMatchDocuments

\* The reference table, written row by row when a draft is saved and when it is
\* published, always says exactly what the drafts and every release require.
THEOREM ReferencesStayTrue == Spec => []ReferencesMatchDocuments
<1> DEFINE Inv == Typed /\ ReleasesFollowDrafts /\ ReferencesMatchDocuments
<1>1. Init => Inv
  BY InitTyped, InitNumbered, InitReferencesMatch
<1>2. Inv /\ [Next]_vars => Inv'
  BY NextTyped, NextNumbered, NextReferencesMatch
<1> QED
  BY <1>1, <1>2, PTL DEF Spec

-----------------------------------------------------------------------------
(* Public items are readable *)

\* Each version of an item froze its visibility, and only versions that exist
\* are ever required by a release.
ItemsExist ==
    /\ \A i \in Items : Len(snapshot[i]) = item[i].version
    /\ \A g \in Guides : \A n \in DOMAIN release[g] :
          \A r \in release[g][n].requirements : item[r.item].version # 0

\* What PublicItemsAreReadable needs of the items themselves.
PublicItemsPublic == \A g \in Guides : PublishedTo(g, "public") =>
    \A r \in CurrentRelease(g).requirements : item[r.item].visibility = "public"

\* Requirements name items.
LEMMA RequirementItems ==
    ASSUME Typed, NEW g \in Guides
    PROVE  /\ \A r \in guide[g].requirements : r.item \in Items
           /\ \A n \in DOMAIN release[g] : \A r \in release[g][n].requirements : r.item \in Items
<1>1. guide[g].requirements \subseteq Requirement
  BY DEF Typed, TypeOK, GuideRow
<1>2. ASSUME NEW n \in DOMAIN release[g] PROVE release[g][n].requirements \subseteq Requirement
  <2>1. release[g][n] \in ReleaseRow
    BY DEF Typed, TypeOK
  <2> QED BY <2>1 DEF ReleaseRow
<1> QED
  BY <1>1, <1>2 DEF Requirement

\* Items are never deleted and their versions never forgotten.
LEMMA WriteItemKeepsItems ==
    ASSUME Typed, ItemsExist, NEW i \in Items, NEW row \in ItemRow,
           row.version = item[i].version + 1, WriteItem(i, row)
    PROVE  ItemsExist'
<1>1. /\ item'[i] = row
      /\ snapshot'[i] = Append(snapshot[i], row.visibility)
      /\ \A x \in Items \ {i} : item'[x] = item[x] /\ snapshot'[x] = snapshot[x]
      /\ UNCHANGED release
  BY WriteItemEffect
<1>2. /\ snapshot[i] \in Seq(Visibility)
      /\ item[i].version \in Nat
      /\ row.visibility \in Visibility
  BY DEF Typed, TypeOK, ItemRow
<1>3. Len(snapshot'[i]) = Len(snapshot[i]) + 1 /\ row.version # 0
  BY <1>1, <1>2
<1>4. \A x \in Items : Len(snapshot'[x]) = item'[x].version
  BY <1>1, <1>3 DEF ItemsExist
<1>5. ASSUME NEW g \in Guides, NEW n \in DOMAIN release[g], NEW r \in release[g][n].requirements
      PROVE  item'[r.item].version # 0
  BY <1>1, <1>3, RequirementItems DEF ItemsExist
<1> QED
  BY <1>1, <1>4, <1>5 DEF ItemsExist

\* Publishing checks that what it freezes exists.
LEMMA PublishKeepsItems ==
    ASSUME Typed, ItemsExist, NEW g \in Guides, NEW expected \in Expectation,
           PublishDraft(g, expected)
    PROVE  ItemsExist'
<1> DEFINE row == [draftVersion |-> guide[g].version, category |-> guide[g].category,
                   requirements |-> guide[g].requirements]
<1>1. /\ OnlyGuide(g)
      /\ release'[g] = Append(release[g], row)
      /\ RequirementsValid(guide[g].requirements, guide[g].requirements,
                           guide[g].audience = "public")
  BY PublishDraftEffect
<1>2. \A r \in row.requirements : item[r.item].version # 0
  <2> SUFFICES ASSUME NEW r \in guide[g].requirements PROVE item[r.item].version # 0
    OBVIOUS
  <2>1. r.item \in Items /\ r.version \in DOMAIN snapshot[r.item]
    BY <1>1, RequirementItems DEF RequirementsValid
  <2>2. snapshot[r.item] \in Seq(Visibility) /\ Len(snapshot[r.item]) = item[r.item].version
    BY <2>1 DEF Typed, TypeOK, ItemsExist
  <2> QED BY <2>1, <2>2
<1> HIDE DEF row
<1>3. \A n \in DOMAIN release'[g] : release'[g][n] = row \/ (n \in DOMAIN release[g] /\ release'[g][n] = release[g][n])
  <2>1. release[g] \in Seq(ReleaseRow)
    BY DEF Typed, TypeOK
  <2> QED BY <1>1, <2>1
<1>4. ASSUME NEW h \in Guides, NEW n \in DOMAIN release'[h], NEW r \in release'[h][n].requirements
      PROVE  item[r.item].version # 0
  BY <1>1, <1>2, <1>3 DEF ItemsExist, OnlyGuide
<1> QED
  BY <1>1, <1>4 DEF ItemsExist, OnlyGuide

\* Any other step leaves the releases and the items alone.
LEMMA SameItems ==
    ASSUME ItemsExist, UNCHANGED <<item, snapshot>>,
           \A h \in Guides : release'[h] = release[h]
    PROVE  ItemsExist'
BY DEF ItemsExist

\* An item that a release requires is one its reference rows name.
LEMMA RequiredIsReferenced ==
    ASSUME ReferencesMatchDocuments, NEW g \in Guides, NEW n \in DOMAIN release[g],
           NEW r \in release[g][n].requirements
    PROVE  r.item \in ReferencedItems(g, n)
<1> DEFINE ref == [guide |-> g, release |-> n, item |-> r.item, version |-> r.version]
<1>1. ref \in Rows(g, n, release[g][n].requirements)
  BY DEF Rows
<1>2. ref \in reference
  BY <1>1 DEF ReferencesMatchDocuments, ReleaseRows
<1> QED
  BY <1>2 DEF ReferencedItems

\* Whatever a release requires goes on existing.
LEMMA NextItemsExist ==
    ASSUME Typed, ReleasesFollowDrafts, ItemsExist, [Next]_vars
    PROVE  ItemsExist'
<1>1. CASE CategoryStep \/ UNCHANGED vars
  BY <1>1, CategoryStepsWriteRows, SameItems DEF WriteCategory, vars
<1>2. CASE CatalogStep
  BY <1>2, CatalogStepsWriteRows, WriteItemKeepsItems
<1>3. ASSUME NEW g \in Guides, OnlyGuide(g), release'[g] = release[g] PROVE ItemsExist'
  BY <1>3, SameItems DEF OnlyGuide
<1>4. ASSUME NEW g \in Guides, NEW c \in Categories, NEW document \in Documents,
             NEW audience \in Visibility, CreateDraft(g, audience, c, document)
      PROVE  ItemsExist'
  BY <1>3, <1>4, CreateDraftEffect
<1>5. ASSUME NEW g \in Guides, NEW c \in Categories, NEW document \in Documents,
             NEW expectedVersion \in 1..MaxDraftVersion, SaveDraft(g, expectedVersion, c, document)
      PROVE  ItemsExist'
  BY <1>3, <1>5, SaveDraftEffect, ExpectationsAreNumbers
<1>6. ASSUME NEW g \in Guides, NEW expected \in Expectation, PublishDraft(g, expected)
      PROVE  ItemsExist'
  BY <1>6, PublishKeepsItems
<1>7. ASSUME NEW g \in Guides, NEW expected \in Expectation,
             WithdrawGuide(g, expected) \/ ReinstateGuide(g, expected)
      PROVE  ItemsExist'
  BY <1>3, <1>7, WithdrawGuideEffect, ReinstateGuideEffect
<1>8. ASSUME NEW g \in Guides, NEW audience \in Visibility, NEW expectedRelease \in 0..MaxDraftVersion,
             SetGuideAudience(g, audience, expectedRelease)
      PROVE  ItemsExist'
  BY <1>3, <1>8, SetGuideAudienceEffect, ExpectationsAreNumbers
<1> QED
  BY <1>1, <1>2, <1>4, <1>5, <1>6, <1>7, <1>8 DEF Next, DraftStep, PublicationStep

\* The trigger check_catalog_visibility: an item some public release names
\* stays public.
LEMMA WriteItemKeepsPublic ==
    ASSUME Typed, ReleasesFollowDrafts, ReferencesMatchDocuments, PublicItemsPublic,
           NEW i \in Items, NEW row \in ItemRow, WriteItem(i, row)
    PROVE  PublicItemsPublic'
<1>1. /\ item'[i] = row
      /\ \A x \in Items \ {i} : item'[x] = item[x]
      /\ UNCHANGED <<guide, release>>
  BY WriteItemEffect
<1> SUFFICES ASSUME NEW g \in Guides, PublishedTo(g, "public"),
                    NEW r \in CurrentRelease(g).requirements
             PROVE  item'[r.item].visibility = "public"
  BY <1>1 DEF PublicItemsPublic, PublishedTo, CurrentRelease
<1>2. /\ guide[g].currentRelease \in DOMAIN release[g]
      /\ r \in release[g][guide[g].currentRelease].requirements
  BY PublishedHasRelease DEF PublishedTo, CurrentRelease
<1>3. /\ r.item \in ReferencedItems(g, guide[g].currentRelease)
      /\ r.item \in Items
      /\ item[r.item].visibility = "public"
  BY <1>2, RequiredIsReferenced, RequirementItems DEF PublicItemsPublic
<1>4. CASE r.item = i
  BY <1>1, <1>3, <1>4 DEF WriteItem, ItemRow, Visibility
<1>5. CASE r.item # i
  BY <1>1, <1>3, <1>5
<1> QED
  BY <1>4, <1>5

\* A guide whose release stays.
LEMMA PublicItemsStay ==
    ASSUME PublicItemsPublic, NEW g \in Guides, OnlyGuide(g), release'[g] = release[g],
           guide'[g].currentRelease = guide[g].currentRelease,
           PublishedTo(g, "public")' =>
               \A r \in CurrentRelease(g).requirements : item[r.item].visibility = "public"
    PROVE  PublicItemsPublic'
<1> SUFFICES ASSUME NEW h \in Guides, PublishedTo(h, "public")'
             PROVE  \A r \in CurrentRelease(h)'.requirements : item[r.item].visibility = "public"
  BY DEF PublicItemsPublic, OnlyGuide
<1>1. CASE h = g
  BY <1>1 DEF CurrentRelease
<1>2. CASE h # g
  BY <1>2 DEF PublicItemsPublic, PublishedTo, CurrentRelease, OnlyGuide
<1> QED
  BY <1>1, <1>2

\* Publishing to the public checks every item of the new release.
LEMMA PublishDraftPublicItems ==
    ASSUME Typed, ReleasesFollowDrafts, PublicItemsPublic,
           NEW g \in Guides, NEW expected \in Expectation, PublishDraft(g, expected)
    PROVE  PublicItemsPublic'
<1> DEFINE row == [draftVersion |-> guide[g].version, category |-> guide[g].category,
                   requirements |-> guide[g].requirements]
<1>1. /\ OnlyGuide(g)
      /\ guide'[g].audience = guide[g].audience
      /\ guide'[g].currentRelease = Len(release[g]) + 1
      /\ release'[g] = Append(release[g], row)
      /\ RequirementsValid(guide[g].requirements, guide[g].requirements,
                           guide[g].audience = "public")
  BY PublishDraftEffect DEF ReleasesFollowDrafts
<1>2. CurrentRelease(g)' = row
  <2>1. release[g] \in Seq(ReleaseRow)
    BY DEF Typed, TypeOK
  <2>2. Append(release[g], row)[Len(release[g]) + 1] = row
    BY <2>1
  <2> QED BY <1>1, <2>2 DEF CurrentRelease
<1> SUFFICES ASSUME NEW h \in Guides, PublishedTo(h, "public")'
             PROVE  \A r \in CurrentRelease(h)'.requirements : item[r.item].visibility = "public"
  BY <1>1 DEF PublicItemsPublic, OnlyGuide
<1>3. CASE h = g
  BY <1>1, <1>2, <1>3 DEF PublishedTo, RequirementsValid
<1>4. CASE h # g
  BY <1>1, <1>4 DEF PublicItemsPublic, PublishedTo, CurrentRelease, OnlyGuide
<1> QED
  BY <1>3, <1>4

\* No step restricts an item under a public release, or opens a release over one.
LEMMA NextPublicItems ==
    ASSUME Typed, ReleasesFollowDrafts, ReferencesMatchDocuments, PublicItemsPublic, [Next]_vars
    PROVE  PublicItemsPublic'
<1>1. CASE CategoryStep \/ UNCHANGED vars
  <2>1. UNCHANGED <<item, guide, release>>
    BY <1>1, CategoryStepsWriteRows DEF WriteCategory, vars
  <2> QED BY <2>1 DEF PublicItemsPublic, PublishedTo, CurrentRelease
<1>2. CASE CatalogStep
  BY <1>2, CatalogStepsWriteRows, WriteItemKeepsPublic
<1>3. ASSUME NEW g \in Guides, guide[g].state \in {"published", "withdrawn"},
             \A i \in ReferencedItems(g, guide[g].currentRelease) : item[i].visibility = "public"
      PROVE  \A r \in CurrentRelease(g).requirements : item[r.item].visibility = "public"
  BY <1>3, PublishedHasRelease, RequiredIsReferenced DEF CurrentRelease
<1>4. ASSUME NEW g \in Guides, NEW c \in Categories, NEW document \in Documents,
             NEW audience \in Visibility, CreateDraft(g, audience, c, document)
      PROVE  PublicItemsPublic'
  <2>1. /\ OnlyGuide(g)
        /\ guide'[g].state = "draft"
        /\ guide'[g].currentRelease = 0
        /\ release'[g] = release[g]
        /\ guide[g].state = "absent"
    BY <1>4, CreateDraftEffect
  <2>2. guide[g].currentRelease = 0
    BY <2>1 DEF Typed, TypeOK, ReleasesFollowDrafts
  <2> QED BY <2>1, <2>2, PublicItemsStay DEF PublishedTo
<1>5. ASSUME NEW g \in Guides, NEW c \in Categories, NEW document \in Documents,
             NEW expectedVersion \in 1..MaxDraftVersion, SaveDraft(g, expectedVersion, c, document)
      PROVE  PublicItemsPublic'
  <2>1. /\ OnlyGuide(g)
        /\ guide'[g].state = guide[g].state
        /\ guide'[g].audience = guide[g].audience
        /\ guide'[g].currentRelease = guide[g].currentRelease
        /\ release'[g] = release[g]
    BY <1>5, SaveDraftEffect, ExpectationsAreNumbers
  <2> QED BY <2>1, PublicItemsStay DEF PublishedTo, PublicItemsPublic
<1>6. ASSUME NEW g \in Guides, NEW expected \in Expectation, PublishDraft(g, expected)
      PROVE  PublicItemsPublic'
  BY <1>6, PublishDraftPublicItems
<1>7. ASSUME NEW g \in Guides, NEW expected \in Expectation, WithdrawGuide(g, expected)
      PROVE  PublicItemsPublic'
  BY <1>7, WithdrawGuideEffect, PublicItemsStay DEF PublishedTo
<1>8. ASSUME NEW g \in Guides, NEW expected \in Expectation, ReinstateGuide(g, expected)
      PROVE  PublicItemsPublic'
  <2>1. /\ OnlyGuide(g)
        /\ guide[g].state = "withdrawn"
        /\ guide'[g].audience = guide[g].audience
        /\ guide'[g].currentRelease = guide[g].currentRelease
        /\ release'[g] = release[g]
        /\ NoReinstateBlockers(g)
    BY <1>8, ReinstateGuideEffect
  <2> QED BY <1>3, <2>1, PublicItemsStay DEF PublishedTo, NoReinstateBlockers
<1>9. ASSUME NEW g \in Guides, NEW audience \in Visibility, NEW expectedRelease \in 0..MaxDraftVersion,
             SetGuideAudience(g, audience, expectedRelease)
      PROVE  PublicItemsPublic'
  <2>1. /\ OnlyGuide(g)
        /\ guide'[g].state = guide[g].state
        /\ guide'[g].audience = audience
        /\ guide'[g].currentRelease = guide[g].currentRelease
        /\ release'[g] = release[g]
        /\ audience = "public" => NoPublicBlockers(g)
    BY <1>9, SetGuideAudienceEffect, ExpectationsAreNumbers
  <2> QED BY <1>3, <2>1, PublicItemsStay DEF PublishedTo, NoPublicBlockers
<1> QED
  BY <1>1, <1>2, <1>4, <1>5, <1>6, <1>7, <1>8, <1>9 DEF Next, DraftStep, PublicationStep

\* At first no release requires anything.
LEMMA InitItems == Init => ItemsExist /\ PublicItemsPublic
<1> SUFFICES ASSUME Init PROVE ItemsExist /\ PublicItemsPublic
  OBVIOUS
<1>1. ItemsExist
  BY DEF Init, ItemsExist, NoItem
<1>2. PublicItemsPublic
  BY DEF Init, PublicItemsPublic, PublishedTo, NoGuide
<1> QED
  BY <1>1, <1>2

\* Every item that the current release of a public guide requires exists and is
\* one a visitor may read, however items are restricted and reopened and guides
\* are moved between the sections.
THEOREM PublicItemsStayReadable == Spec => []PublicItemsAreReadable
<1> DEFINE Inv == /\ Typed /\ ReleasesFollowDrafts /\ Readable
                  /\ ReferencesMatchDocuments /\ ItemsExist /\ PublicItemsPublic
<1>1. Init => Inv
  BY InitTyped, InitNumbered, InitReadable, InitReferencesMatch, InitItems
<1>2. Inv /\ [Next]_vars => Inv'
  BY NextTyped, NextNumbered, NextReadable, NextReferencesMatch, NextItemsExist, NextPublicItems
<1>3. Inv => PublicItemsAreReadable
  <2> SUFFICES ASSUME Inv, NEW g \in Guides, PublishedTo(g, "public"),
                      NEW r \in CurrentRelease(g).requirements
               PROVE  VisitorReadsItem(r.item)
    BY DEF PublicItemsAreReadable
  <2>1. WorkspaceAudience = "public"
    BY ReadableShown DEF PublicGuidesAreReadable, VisitorReads
  <2>2. /\ guide[g].currentRelease \in DOMAIN release[g]
        /\ r \in release[g][guide[g].currentRelease].requirements
    BY PublishedHasRelease DEF PublishedTo, CurrentRelease
  <2>3. item[r.item].version # 0 /\ item[r.item].visibility = "public"
    BY <2>2 DEF ItemsExist, PublicItemsPublic
  <2> QED BY <2>1, <2>3 DEF VisitorReadsItem
<1> QED
  BY <1>1, <1>2, <1>3, PTL DEF Spec

\* What readers have stays whole for them, whatever is moved, restricted, archived,
\* withdrawn and reinstated in whatever order.
THEOREM ReadersKeepAll == Spec => []ReadersKeepWhatTheyHave
BY PublicGuidesStayReadable, PublicItemsStayReadable, ReadersKeepActiveCategories, PTL
   DEF ReadersKeepWhatTheyHave
=============================================================================
