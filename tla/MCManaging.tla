----------------------------- MODULE MCManaging -----------------------------
(* Small workspaces for TLC: who may manage one, and the pages they manage it with. *)
EXTENDS Roster, ManagementPage, TLC
CONSTANTS c1, c2

(* Requests and invitations are interchangeable, and so are the founders among *)
(* themselves.                                                                 *)
Symmetry == Permutations(Requests) \cup Permutations(Invitations) \cup Permutations(Founders)

(* The management pages: one record, which guides use, and one still to be added. *)
MCRecords == {c1, c2}
MCRank == c1 :> 2 @@ c2 :> 1
MCStored == c1 :> [version |-> 1, parent |-> Top, visibility |-> "public", named |-> TRUE,
                   archived |-> FALSE, picture |-> FALSE]
            @@ c2 :> NoRecord
Unfiltered == question.status = "active" /\ ~question.search
              /\ question.visibility = "all" /\ question.usage = "all"
MCQuestions == {[search |-> FALSE, status |-> "active", visibility |-> "all", usage |-> "all"],
                [search |-> TRUE, status |-> "inactive", visibility |-> "public", usage |-> "used"]}
MCEntries == {[parent |-> Top, visibility |-> "public", named |-> FALSE, archived |-> FALSE],
              [parent |-> c1, visibility |-> "members", named |-> TRUE, archived |-> TRUE]}
OneCall == Cardinality({part \in {"form", "upload", "overtaken", "failed"} :
              \/ part = "form" /\ form # Shut /\ form.stage # "open"
              \/ part = "upload" /\ upload # NoAnswer
              \/ part = "overtaken" /\ overtaken # NoAnswer
              \/ part = "failed" /\ failed}) <= 1
\* The table, without a sheet, up to one change, or two once everything is quiet; or
\* the sheet, over an unfiltered table that was read before any change.
TableOnly == sheet = Shut
             /\ \/ clock <= 1
                \/ Unfiltered /\ form = Shut /\ upload = NoAnswer /\ overtaken = NoAnswer
SheetOnly == sheet # Shut /\ Unfiltered /\ question.collapsed = {} /\ fetch.stage # "answered"
             /\ overtaken = NoAnswer /\ ~failed /\ (result = NoAnswer \/ result.at = 0)
OneManager == OneCall /\ (TableOnly \/ SheetOnly)

(* The two share nothing: each moves while the other stands at its start. *)
NoManaging == resource = "categories" /\ clock = 0 /\ result = NoAnswer /\ fetch = Requested
              /\ overtaken = NoAnswer /\ Unfiltered /\ sheet = Shut /\ form = Shut
NoRoster == /\ \A r \in Requests : request[r] = Idle
            /\ \A i \in Invitations : invitation[i] = Unsent
            /\ \A p \in People : member[p] = IF p \in Founders THEN "manage" ELSE "none"
ManagingInit == Init /\ ManagementInit
ManagingSpec ==
    /\ ManagingInit
    /\ [][ \/ NoManaging /\ Next /\ UNCHANGED managementVars
           \/ NoRoster /\ ManagementNext /\ UNCHANGED vars ]_<<vars, managementVars>>
FairManaging == ManagingSpec /\ \A r \in Requests : WF_vars(Step(r))
=============================================================================
