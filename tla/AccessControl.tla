---------------------------- MODULE AccessControl ----------------------------
(***************************************************************************)
(* Who may see one test: its access level, its shares, and the access       *)
(* requests that readers send from the 403 page.  The handlers run in        *)
(* parallel and commit between their reads and writes:                       *)
(*                                                                           *)
(*   request   may the caller see the test, is one pending; INSERT           *)
(*   decide    load the pending request and the level; approve: add_share    *)
(*             (look, INSERT, commit); write the status (commit)             *)
(*   share     level is SHARED; add_share                                    *)
(*   unshare, level: one commit each                                         *)
(*                                                                           *)
(* (test, user) is unique in test_shares, (test, requester, status) in       *)
(* access_requests.                                                          *)
(***************************************************************************)
EXTENDS Naturals, FiniteSets

CONSTANTS
  Users,        \* readers who do not own the test
  Handlers,     \* server threads; each serves one request after the other
  Nobody,
  MaxRequests   \* bound: rows in access_requests

ASSUME UsersAssumption == IsFiniteSet(Users) /\ Nobody \notin Users
ASSUME MaxRequestsAssumption == MaxRequests \in Nat

VARIABLES
  level,      \* test_collections.access_level
  shares,     \* table test_shares: the users it names
  requests,   \* table access_requests
  handler,    \* the request each thread serves, or served last
  granted,    \* history: requests for which add_share found or made the share
  overlapped  \* history: a decision was sent while another was under way

vars == <<level, shares, requests, handler, granted, overlapped>>

Levels == {"private", "shared", "public"}
Ids == 1..MaxRequests
Request == [user: Users \cup {Nobody}, status: {"none", "pending", "approved", "rejected"}]

TypeOK ==
  /\ level \in Levels
  /\ shares \subseteq Users
  /\ requests \in [Ids -> Request]
  /\ handler \in [Handlers ->
       [pc: {"idle", "checked", "adding", "shared", "writing", "done", "failed", "refused"},
        job: {"none", "request", "share", "approve", "reject"},
        user: Users \cup {Nobody}, id: 0..MaxRequests, seen: BOOLEAN]]
  /\ granted \subseteq Ids
  /\ overlapped \in BOOLEAN

Init ==
  /\ level = "private"
  /\ shares = {}
  /\ requests = [i \in Ids |-> [user |-> Nobody, status |-> "none"]]
  /\ handler = [h \in Handlers |->
       [pc |-> "idle", job |-> "none", user |-> Nobody, id |-> 0, seen |-> FALSE]]
  /\ granted = {}
  /\ overlapped = FALSE

-----------------------------------------------------------------------------
(* Reading rights: two functions of access_service that must agree.        *)

\* can_view_test for a reader (the owner may always).
CanView(u) ==
  \/ level = "public"
  \/ level = "shared" /\ u \in shares

\* Mutant: the listing joins the shares whatever the level.
JoinedWithoutLevel(u, filter) == u \in shares
\* Branch 2 and branch 3 of get_accessible_test_ids; filter is the level the
\* caller asks for, or "any".
SharedBranch(u, filter) ==
  /\ filter \in {"any", "shared"}
  /\ level = "shared" /\ u \in shares
PublicBranch(filter) == filter \in {"any", "public"} /\ level = "public"
Listed(u, filter) == SharedBranch(u, filter) \/ PublicBranch(filter)

-----------------------------------------------------------------------------

Working(h) == handler[h].pc \notin {"idle", "done", "failed", "refused"}
Deciding(h) == Working(h) /\ handler[h].job \in {"approve", "reject"}
Goes(h, pc) == handler' = [handler EXCEPT ![h].pc = pc]

Starts(h, pc, job, u, i) ==
  handler' = [handler EXCEPT ![h] =
                [pc |-> pc, job |-> job, user |-> u, id |-> i, seen |-> FALSE]]

Rows(u, status) == {i \in Ids : requests[i] = [user |-> u, status |-> status]}
Unused == {i \in Ids : requests[i].status = "none"}

NonePending(u) == Rows(u, "pending") = {}

\* request_test_access up to its INSERT: a no-op for who can see the test or
\* has a pending request.
Ask(h, u) ==
  /\ ~Working(h) /\ Unused # {}
  /\ ~CanView(u) /\ NonePending(u)
  /\ Starts(h, "checked", "request", u, 0)
  /\ UNCHANGED <<level, shares, requests, granted, overlapped>>

\* Mutant: the unique key is not there.
Unconstrained(i, u, status) == FALSE
\* uq_access_req_test_user_status: some other row of the user has the status.
Duplicate(i, u, status) == Rows(u, status) \ {i} # {}

Enter(h) ==
  /\ handler[h].pc = "checked" /\ handler[h].job = "request"
  /\ IF Duplicate(0, handler[h].user, "pending")
     THEN Goes(h, "refused") /\ UNCHANGED requests
     ELSE /\ \E i \in Unused :
               /\ \A j \in Unused : i <= j
               /\ requests' = [requests EXCEPT ![i] =
                                 [user |-> handler[h].user, status |-> "pending"]]
          /\ Goes(h, "done")
  /\ UNCHANGED <<level, shares, granted, overlapped>>

\* Mutant: a decided request can be decided again.
EverAsked(i) == requests[i].status # "none"
Open(i) == requests[i].status = "pending"

\* Mutant: the status is written without add_share.
StatusOnly(job) == "writing"
FirstStep(job) == IF job = "approve" THEN "checked" ELSE "writing"

\* decide_access_request up to its first write.  Approval needs a level at
\* which shares count, or that needs none.
Decide(h, i, job) ==
  /\ ~Working(h) /\ job \in {"approve", "reject"}
  /\ Open(i)
  /\ job = "approve" => level # "private"
  /\ Starts(h, FirstStep(job), job, requests[i].user, i)
  /\ overlapped' = (overlapped \/ \E g \in Handlers : Deciding(g))
  /\ UNCHANGED <<level, shares, requests, granted>>

\* add_test_share: only a SHARED test takes shares.
Share(h, u) ==
  /\ ~Working(h) /\ level = "shared"
  /\ Starts(h, "checked", "share", u, 0)
  /\ UNCHANGED <<level, shares, requests, granted, overlapped>>

\* add_share: the look for an existing share, then the INSERT.
LookForShare(h) ==
  /\ handler[h].pc = "checked" /\ handler[h].job \in {"share", "approve"}
  /\ handler' = [handler EXCEPT ![h] =
       [@ EXCEPT !.pc = "adding", !.seen = handler[h].user \in shares]]
  /\ UNCHANGED <<level, shares, requests, granted, overlapped>>

\* The INSERT meets the share that another handler added after the look.
ShareTaken(h) == ~handler[h].seen /\ handler[h].user \in shares

AddShare(h) ==
  /\ handler[h].pc = "adding" /\ ~ShareTaken(h)
  /\ shares' = IF handler[h].seen THEN shares ELSE shares \cup {handler[h].user}
  /\ IF handler[h].job = "approve"
     THEN Goes(h, "writing") /\ granted' = granted \cup {handler[h].id}
     ELSE Goes(h, "done") /\ UNCHANGED granted
  /\ UNCHANGED <<level, requests, overlapped>>

ShareRefused(h) ==
  /\ handler[h].pc = "adding" /\ ShareTaken(h)
  /\ Goes(h, "refused")
  /\ UNCHANGED <<level, shares, requests, granted, overlapped>>

Verdict(h) == IF handler[h].job = "approve" THEN "approved" ELSE "rejected"

\* The status write of decide_access_request.
WriteStatus(h) ==
  /\ handler[h].pc = "writing"
  /\ IF Duplicate(handler[h].id, handler[h].user, Verdict(h))
     THEN Goes(h, "refused") /\ UNCHANGED requests
     ELSE /\ Goes(h, "done")
          /\ requests' = [requests EXCEPT ![handler[h].id].status = Verdict(h)]
  /\ UNCHANGED <<level, shares, granted, overlapped>>

\* remove_test_share.
Unshare(u) ==
  /\ u \in shares
  /\ shares' = shares \ {u}
  /\ UNCHANGED <<level, requests, handler, granted, overlapped>>

\* update_test_access.
SetLevel(l) ==
  /\ level' = l /\ l # level
  /\ UNCHANGED <<shares, requests, handler, granted, overlapped>>

\* A handler dies between two commits.
Die(h) ==
  /\ Working(h)
  /\ Goes(h, "failed")
  /\ UNCHANGED <<level, shares, requests, granted, overlapped>>

Next ==
  \/ \E h \in Handlers :
       \/ \E u \in Users : Ask(h, u) \/ Share(h, u)
       \/ \E i \in Ids, job \in {"approve", "reject"} : Decide(h, i, job)
       \/ Enter(h) \/ LookForShare(h) \/ AddShare(h) \/ ShareRefused(h)
       \/ WriteStatus(h)
       \/ Die(h)
  \/ \E u \in Users : Unshare(u)
  \/ \E l \in Levels : SetLevel(l)

Spec == Init /\ [][Next]_vars

-----------------------------------------------------------------------------
(* Properties                                                              *)

\* The listing shows the test to exactly those who may open it, with and
\* without a level filter: can_view_test and get_accessible_test_ids agree.
ListingAgrees ==
  \A u \in Users :
    /\ Listed(u, "any") = CanView(u)
    /\ \A filter \in Levels : Listed(u, filter) = (CanView(u) /\ filter = level)

\* "If a pending request already exists, keep it idempotent": also for two
\* requests that both found none.
OnePending == \A u \in Users : Cardinality(Rows(u, "pending")) <= 1

\* The share precedes the status: an approved requester was on the list, also
\* when the approval was repeated after a handler that died half-way.
ApprovedWasGranted == \A i \in Ids : requests[i].status = "approved" => i \in granted

\* A decision is final as long as the owner waits for one answer before the
\* next decision: "Access request is not pending".
DecisionFinal ==
  [][~overlapped' =>
       \A i \in Ids :
         requests[i].status \in {"approved", "rejected"} =>
           requests'[i].status = requests[i].status]_vars

\* "Two distinct decided requests can coexist": a decision on a request that is
\* still pending is not refused because of an older request of the same user.
\* It fails, because the unique key covers decided rows too.
DecisionNotRefused ==
  [][\A h \in Handlers :
       handler[h].pc = "writing" /\ requests[handler[h].id].status = "pending" =>
         handler'[h].pc # "refused"]_vars
=============================================================================
