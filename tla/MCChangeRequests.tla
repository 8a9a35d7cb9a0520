--------------------------- MODULE MCChangeRequests ---------------------------
(* Small instances of ChangeRequests. *)
EXTENDS ChangeRequestsProofs, TLC

CONSTANTS v1, v2, v3, w1, c1, c2, c3, c4, c5, p1, p2

MCFields == {"question", "options"}
Op(kind, id, field) == [kind |-> kind, id |-> id, field |-> field]
NoOps == {}
EveryKind == {Op("add", 0, "question"), Op("edit", 2, "question"), Op("edit", 2, "options"),
              Op("delete", 1, "question"), Op("delete", 2, "question")}

\* What the readers propose: an addition, two edits of one question, a
\* deletion, and a deletion that does not say of what.
AllKinds == c1 :> Op("add", 0, "question") @@ c2 :> Op("edit", 2, "question")
            @@ c3 :> Op("edit", 2, "options") @@ c4 :> Op("delete", 1, "question")
            @@ c5 :> Op("delete", 0, "question")
MCProposal == [c \in CRs |-> AllKinds[c]]
OneProcess == v1 :> p1 @@ v2 :> p1 @@ v3 :> p1
BothInOne == v1 :> p1 @@ v2 :> p1
TwoProcesses == v1 :> p1 @@ v2 :> p2 @@ v3 :> p2
NoReviews == [v \in {} |-> p1]
=============================================================================
