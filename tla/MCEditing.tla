------------------------------ MODULE MCEditing ------------------------------
EXTENDS Editor, Authoring, Families
CONSTANTS t1, t2, Most, s1, s2, s3, i1, p1, f1, f2, f3, f4, m1, m2

(* The tab and the server *)
MCContents == {t1, t2}
Quiet(kinds) == \A kind \in kinds : ~UnderWay(kind)
WritingOnly == draft.revision = 0 /\ Quiet({"publish", "act", "reread", "refresh", "move"})
               /\ dialog \in {"none", "item"}
PublishingOnly == draft.version + draft.revision <= 3 /\ Quiet({"item", "upload"}) /\ dialog # "item"
FewCalls == Cardinality({kind \in Kinds : UnderWay(kind)}) <= Most
OneStory == FewCalls /\ (WritingOnly \/ PublishingOnly)

(* The document *)
MCSteps == {s1, s2, s3}
OneStep == [outline |-> <<s1>>, prepared |-> [item \in {i1} |-> "none"],
            page |-> [id \in MCSteps |-> [text |-> "new", earlier |-> {},
                                          uses |-> [item \in {i1} |-> "none"], photos |-> {}]]]
Written == [OneStep EXCEPT !.outline = <<s1, s2>>, !.page[s1].text = "text"]
Assigned == [OneStep EXCEPT !.outline = <<s1, s2>>, !.page[s2].earlier = {s1},
                            !.page[s2].uses[i1] = "consume", !.prepared[i1] = "use"]
MCSaved == {OneStep, Written, Assigned}
Plain == prepared[i1] = "none"
         /\ \A id \in MCSteps : page[id].earlier = {} /\ page[id].uses[i1] = "none"
Untouched == \A id \in MCSteps : kept[id] = Untyped /\ page[id].text = "new"
NoPhotos == picture = "none" /\ \A id \in MCSteps : page[id].photos = {}
Links == {link \in MCSteps \X MCSteps : link[2] \in page[link[1]].earlier}
OneTopic ==
    \/ NoPhotos /\ Plain
    \/ NoPhotos /\ Untouched /\ ~preview /\ Cardinality(Links) <= 2
    \/ Plain /\ Untouched /\ Len(outline) < 3

(* The families *)
MCGuides == {f1, f2, f3, f4}
MCManagers == {m1, m2}

(* The three share nothing: each moves while the others stand where they started. *)
PageInit == EditorInit /\ AuthoringInit /\ FamiliesInit
NoRequests == ~opened /\ draft.version = 1 /\ draft.revision = 0 /\ call["load"].stage = "sent"
              /\ draft.audience = "members"
NoEdits == Document = OneStep /\ kept[s1] = Untyped /\ ~details /\ ~preview /\ picture = "none"
           /\ canvas = "new" /\ lastBody = "new"
NoFiling == \A guide \in MCGuides : parent[guide] = Alone
            /\ \A manager \in MCManagers : filing[manager] = NotFiling
PageNext ==
    \/ NoEdits /\ NoFiling /\ EditorNext /\ UNCHANGED <<authoringVars, familyVars>>
    \/ NoRequests /\ NoFiling /\ AuthoringNext /\ UNCHANGED <<editorVars, familyVars>>
    \/ NoRequests /\ NoEdits /\ FamiliesNext /\ UNCHANGED <<editorVars, authoringVars>>
PageSpec == PageInit /\ [][PageNext]_<<editorVars, authoringVars, familyVars>>

Bounds == OneStory /\ OneTopic

Symmetry == Permutations(MCContents)
=============================================================================
