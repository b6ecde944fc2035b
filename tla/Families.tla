------------------------------- MODULE Families -------------------------------
(***************************************************************************)
(* Guide families: one broader guide above each guide                       *)
(* (packages/database/migrations/012_guide_families.sql, setGuideParent in   *)
(* packages/database/src/store.ts, GuideFamilyPicker in editor.tsx).         *)
(*                                                                          *)
(* Any number of managers file guides at the same time.  A transaction sees  *)
(* what is committed when its statement runs (READ COMMITTED); the trigger   *)
(* takes an advisory lock of the workspace before it walks up and down, and  *)
(* the lock is held until the transaction ends.                              *)
(***************************************************************************)
EXTENDS Naturals, FiniteSets

CONSTANTS
    FamilyGuides,   \* the guides of one workspace
    Managers,       \* transactions that may be open at a time
    Alone,          \* no broader guide
    MaxLevels       \* 8

ASSUME FamiliesAssumption == Alone \notin FamilyGuides /\ MaxLevels \in Nat \ {0}

VARIABLES
    parent,     \* app.guide_family as committed: the guide each is filed under
    filing      \* each manager's transaction: what it was asked, how far it is,
                \* and the link it has written or (deleting) will have removed

familyVars == <<parent, filing>>

NotFiling == [stage |-> "idle", child |-> Alone, under |-> Alone]

FamiliesInit ==
    /\ parent = [guide \in FamilyGuides |-> Alone]
    /\ filing = [manager \in Managers |-> NotFiling]

Stands(manager, stage) == filing[manager].stage = stage
FilingAt(manager, stage) == [filing EXCEPT ![manager].stage = stage]

-----------------------------------------------------------------------------
(* The walks of the trigger, in a database where above[g] is what g is under *)

\* The guide n links above another, and Alone beyond the top.
Above(guide, above, n) ==
    LET up[k \in 0..n] == IF k = 0 THEN guide
                          ELSE IF up[k - 1] = Alone THEN Alone ELSE above[up[k - 1]]
    IN  up[n]

\* The recursive query goes on while a row's depth is at most MaxLevels.
Ancestors(guide, above) ==
    {n \in 1..(MaxLevels + 1) : Above(guide, above, n) # Alone}
Descends(guide, from, above) ==
    \E n \in Ancestors(guide, above) : Above(guide, above, n) = from
Descendants(guide, above) ==
    {n \in 1..(MaxLevels + 1) : \E other \in FamilyGuides : Above(other, above, n) = guide}

DepthOf(levels) == Cardinality(levels)

CheckFamily(child, under, above) ==
    /\ ~Descends(under, child, above)
    /\ DepthOf(Ancestors(under, above)) + DepthOf(Descendants(child, above)) + 2 <= MaxLevels

-----------------------------------------------------------------------------
\* PUT .../family.  A guide's own id is refused before anything else.
AskToFile(manager, child, under) ==
    /\ Stands(manager, "idle")
    /\ child # under
    /\ filing' = [filing EXCEPT ![manager] =
                     [stage |-> IF under = Alone THEN "deleting" ELSE "locking",
                      child |-> child, under |-> under]]
    /\ UNCHANGED parent

\* A transaction that has written a row holds it until it ends.
HoldsRow(manager, child) == Stands(manager, "written") /\ filing[manager].child = child
HoldsLock(manager) == filing[manager].stage \in {"checking", "written"} /\ filing[manager].under # Alone

\* Mutant: the trigger walks without taking the lock.
LockNotTaken(manager) == TRUE

LockIsFree(manager) == \A other \in Managers \ {manager} : ~HoldsLock(other)

TakeFamilyLock(manager) ==
    /\ Stands(manager, "locking")
    /\ LockIsFree(manager)
    /\ filing' = FilingAt(manager, "checking")
    /\ UNCHANGED parent

\* The walks, then the row: an insert, or on conflict an update, which fires the
\* trigger once more.  Waiting for the row between the two changes nothing: the
\* walks do not look at the link of the guide that is filed.
WriteLink(manager) ==
    LET asked == filing[manager]
    IN  /\ Stands(manager, "checking")
        /\ \A other \in Managers \ {manager} : ~HoldsRow(other, asked.child)
        /\ CheckFamily(asked.child, asked.under, parent)
        /\ filing' = FilingAt(manager, "written")
        /\ UNCHANGED parent

\* 23514: below one of its own variants, or too deep.
RefuseLink(manager) ==
    /\ Stands(manager, "checking")
    /\ ~CheckFamily(filing[manager].child, filing[manager].under, parent)
    /\ filing' = [filing EXCEPT ![manager] = NotFiling]
    /\ UNCHANGED parent

DeleteLink(manager) ==
    /\ Stands(manager, "deleting")
    /\ \A other \in Managers \ {manager} : ~HoldsRow(other, filing[manager].child)
    /\ filing' = FilingAt(manager, "written")
    /\ UNCHANGED parent

CommitFiling(manager) ==
    /\ Stands(manager, "written")
    /\ parent' = [parent EXCEPT ![filing[manager].child] = filing[manager].under]
    /\ filing' = [filing EXCEPT ![manager] = NotFiling]

\* The process or the connection ends.
AbandonFiling(manager) ==
    /\ ~Stands(manager, "idle")
    /\ filing' = [filing EXCEPT ![manager] = NotFiling]
    /\ UNCHANGED parent

FamiliesNext ==
    \E manager \in Managers :
        \/ \E child \in FamilyGuides, under \in FamilyGuides \cup {Alone} :
             AskToFile(manager, child, under)
        \/ TakeFamilyLock(manager) \/ WriteLink(manager) \/ RefuseLink(manager)
        \/ DeleteLink(manager) \/ CommitFiling(manager) \/ AbandonFiling(manager)

FamiliesSpec == FamiliesInit /\ [][FamiliesNext]_familyVars

\* No two links filed at the same time close a circle between them or make a family
\* deeper than the walks go, though each was acyclic and shallow where it was checked.
FamiliesAreTrees ==
    \A guide \in FamilyGuides : Above(guide, parent, MaxLevels) = Alone
=============================================================================
