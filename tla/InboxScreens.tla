----------------------------- MODULE InboxScreens -----------------------------
(***************************************************************************)
(* The change requests of a test as its owner sees them.  The desktop's inbox   *)
(* asks the server for one status at a time, and again after every decision;    *)
(* the phone asks once and keeps its copy up to date by itself.  Answers are      *)
(* taken as of their arrival: what an answer could have missed is in doubt here.  *)
(***************************************************************************)
EXTENDS Router

CONSTANTS
  NProposals, \* change requests of the test, the newest first
  Rewrites,   \* those that edit the question, the others add one
  MaxPosts    \* bound: requests of these pages under way

ASSUME InboxBounds ==
  NProposals \in Nat /\ Rewrites \subseteq 1..NProposals /\ MaxPosts \in Nat \ {0}

VARIABLES
  verdicts,  \* per change request, its status on the server
  wording,   \* the change request the question on the server reads by, 0: as written
  inbox,     \* the desktop's page
  folder,    \* the phone's page
  posts      \* requests under way; own: the page that sent it is the one on screen

inboxVars == <<verdicts, wording, inbox, folder, posts>>

Proposals == 1..NProposals
Statuses == {"pending", "approved", "rejected"}
Copies == UNION {[S -> Statuses] : S \in SUBSET Proposals}

\* doubt, miscounted: history, what is listed and counted may be out of date, because loads
\* crossed or failed, an answer was lost, or a decision of an earlier visit was under way.
\* approved: history, a change was approved since the page was opened.
NoInbox == [open |-> FALSE, picker |-> FALSE, status |-> "pending", items |-> <<>>, sel |-> 0,
            counts |-> [v \in Statuses |-> 0], text |-> 0, doubt |-> FALSE, miscounted |-> FALSE,
            approved |-> FALSE]
NoFolder == [open |-> FALSE, picker |-> FALSE, filter |-> "pending", seen |-> <<>>, detail |-> 0,
             doubt |-> FALSE]

InboxTypeOK ==
  /\ verdicts \in [Proposals -> Statuses] /\ wording \in {0} \cup Rewrites
  /\ inbox.status \in Statuses \cup {"all"} /\ inbox.items \in Copies /\ inbox.sel \in {0} \cup Proposals
  /\ inbox.counts \in [Statuses -> 0..NProposals] /\ inbox.text \in {0} \cup Rewrites
  /\ {inbox.open, inbox.picker, inbox.doubt, inbox.miscounted, inbox.approved} \subseteq BOOLEAN
  /\ folder.filter \in Statuses \cup {"all"} /\ folder.seen \in Copies
  /\ folder.detail \in {0} \cup Proposals
  /\ {folder.open, folder.picker, folder.doubt} \subseteq BOOLEAN
  /\ posts \subseteq [id: 1..MaxPosts, narrow: BOOLEAN, own: BOOLEAN, r: {0} \cup Proposals,
                      kind: {"open", "picker", "list", "relist", "counts", "verdict"},
                      what: Statuses \cup {"all", "none"}, row: BOOLEAN]

InboxInit ==
  /\ verdicts = [r \in Proposals |-> "pending"]
  /\ wording = 0
  /\ inbox = NoInbox /\ folder = NoFolder
  /\ posts = {}

Post(id, narrow, kind, r, what, row) ==
  [id |-> id, narrow |-> narrow, own |-> TRUE, kind |-> kind, r |-> r, what |-> what, row |-> row]
FreePosts == 1..MaxPosts \ {p.id : p \in posts}
SendPost(narrow, kind, r, what, row) ==
  /\ FreePosts # {}
  /\ posts' = posts \cup {Post(CHOOSE id \in FreePosts : TRUE, narrow, kind, r, what, row)}

OnTheWay(kinds) == \E p \in posts : p.own /\ p.kind \in kinds
Deciding == \E p \in posts : p.kind = "verdict"
Abroad == \E p \in posts : p.kind = "verdict" /\ ~p.own

\* What the server lists under a status.
Matching(status) ==
  [r \in {q \in Proposals : status \in {"all", verdicts[q]}} |-> verdicts[r]]
Counted == [v \in Statuses |-> Cardinality({r \in Proposals : verdicts[r] = v})]

\* The newest of those listed.
Foremost(items) ==
  IF DOMAIN items = {} THEN 0 ELSE CHOOSE r \in DOMAIN items : \A q \in DOMAIN items : r <= q

(***************************************************************************)
(* Opening.  Without a test in the address the user picks one.                *)
(***************************************************************************)
InboxScreen(narrow) ==
  /\ inbox' = NoInbox /\ folder' = NoFolder
  /\ FreePosts # {}
  /\ \E kind \in {"open", "picker"}, r \in {0} \cup Proposals :
       /\ r = 0 \/ (narrow /\ kind = "open")
       /\ posts' = {[p EXCEPT !.own = FALSE] : p \in posts}
                     \cup {Post(CHOOSE id \in FreePosts : TRUE, narrow, kind, r, "none", FALSE)}
  /\ UNCHANGED <<verdicts, wording>>

\* The user went to another page.  A page of the phone that still loads will paint.
LeaveInbox ==
  /\ inbox' = NoInbox /\ folder' = NoFolder
  /\ posts' = {[p EXCEPT !.own = @ /\ p.narrow /\ p.kind = "open"] : p \in posts}

\* The desktop's page with what is pending; failed: nothing is listed then, and nothing said.
InboxOpened(p, failed) ==
  /\ p \in posts /\ p.kind = "open" /\ ~p.narrow
  /\ IF ~p.own THEN posts' = posts \ {p} /\ UNCHANGED inbox
     ELSE LET items == IF failed THEN <<>> ELSE Matching("pending") IN
          /\ inbox' = [NoInbox EXCEPT !.open = TRUE, !.items = items, !.sel = Foremost(items),
                         !.text = wording, !.doubt = failed \/ Deciding, !.miscounted = Deciding,
                         !.approved = Deciding]
          /\ posts' = (posts \ {p}) \cup {Post(p.id, FALSE, "counts", 0, "none", FALSE)}
  /\ UNCHANGED <<verdicts, wording, folder, routerVars>>

\* The test could not be loaded.
InboxMissing(p) ==
  /\ p \in posts /\ p.kind = "open" /\ ~p.narrow
  /\ posts' = posts \ {p}
  /\ UNCHANGED <<verdicts, wording, inbox, folder, routerVars>>

\* The phone's picker does not look whether it was superseded: it takes the place of either page.
PickerOpened(p) ==
  /\ p \in posts /\ p.kind = "picker"
  /\ IF p.narrow
       THEN /\ folder' = [NoFolder EXCEPT !.picker = TRUE]
            /\ posts' = {[q EXCEPT !.own = @ /\ q.kind = "open"] : q \in posts \ {p}}
            /\ Paint("requests", TRUE)
            /\ inbox' = NoInbox
            /\ UNCHANGED <<hash, queued, page, imports, mounted, rewritten, mobile, signedIn>>
       ELSE /\ inbox' = IF p.own THEN [NoInbox EXCEPT !.picker = TRUE] ELSE inbox
            /\ posts' = posts \ {p}
            /\ UNCHANGED <<folder, routerVars>>
  /\ UNCHANGED <<verdicts, wording>>

PickTest ==
  /\ (On("requests", FALSE) /\ inbox.picker) \/ (On("requests", TRUE) /\ folder.picker)
  /\ Go("requests", TRUE)
  /\ UNCHANGED <<inboxVars, placeVars>>

(***************************************************************************)
(* The desktop's inbox.                                                    *)
(***************************************************************************)
OnInbox == On("requests", FALSE) /\ inbox.open

\* A chip.  Loads are not called off, so the answer to an earlier press may come last.
ChooseStatus(status) ==
  /\ OnInbox
  /\ inbox' = [inbox EXCEPT !.status = status,
                 !.doubt = OnTheWay({"list", "relist"}) \/ Abroad]
  /\ SendPost(FALSE, "list", 0, status, FALSE)
  /\ UNCHANGED <<verdicts, wording, folder, routerVars>>

\* A list that cannot be loaded is shown as an empty one.  After a decision the counts follow.
InboxListed(p, failed) ==
  /\ p \in posts /\ p.kind \in {"list", "relist"}
  /\ LET items == IF failed THEN <<>> ELSE Matching(p.what)
         again == p.own /\ p.kind = "relist" IN
     /\ inbox' = IF ~p.own THEN inbox
                 ELSE [inbox EXCEPT !.items = items, !.sel = Foremost(items),
                         !.doubt = @ \/ failed,
                         !.miscounted = IF again THEN OnTheWay({"counts"}) \/ Abroad ELSE @]
     /\ posts' = (posts \ {p}) \cup
                   IF again THEN {Post(p.id, FALSE, "counts", 0, "none", FALSE)} ELSE {}
  /\ UNCHANGED <<verdicts, wording, folder, routerVars>>

\* Three lists are counted; one that failed counts for nothing.
InboxCounted(p, failed) ==
  /\ p \in posts /\ p.kind = "counts"
  /\ inbox' = IF ~p.own THEN inbox
              ELSE [inbox EXCEPT !.counts = [v \in Statuses |-> IF v \in failed THEN 0 ELSE Counted[v]],
                                 !.miscounted = @ \/ failed # {}]
  /\ posts' = posts \ {p}
  /\ UNCHANGED <<verdicts, wording, folder, routerVars>>

SelectProposal(r) ==
  /\ OnInbox /\ r \in DOMAIN inbox.items /\ r # inbox.sel
  /\ inbox' = [inbox EXCEPT !.sel = r]
  /\ UNCHANGED <<verdicts, wording, folder, posts, routerVars>>

\* What the detail compares: the question of the test that was loaded with the page, and the
\* proposal.
Diff(r) == IF r \in Rewrites THEN <<inbox.text, r>> ELSE <<r>>

\* Confirmed in the dialog.  Nothing keeps the user from deciding twice.
DecideOnCR(decision) ==
  /\ OnInbox /\ inbox.sel # 0 /\ inbox.items[inbox.sel] = "pending"
  /\ SendPost(FALSE, "verdict", inbox.sel, decision, FALSE)
  /\ inbox' = [inbox EXCEPT !.approved = @ \/ decision = "approved"]
  /\ UNCHANGED <<verdicts, wording, folder, routerVars>>

(***************************************************************************)
(* The phone's page: a list or one change request.  Only "approve" sends; the   *)
(* dialog before a rejection is handed a callback that it does not read.         *)
(***************************************************************************)
OnFolder == On("requests", TRUE) /\ folder.open

FolderOpened(p, failed) ==
  /\ p \in posts /\ p.kind = "open" /\ p.narrow
  /\ posts' = posts \ {p}
  /\ IF ~p.own THEN UNCHANGED <<folder, routerVars>>
     ELSE LET seen == IF failed THEN <<>> ELSE verdicts IN
          /\ folder' = [NoFolder EXCEPT !.open = TRUE, !.seen = seen,
                          !.detail = IF p.r \in DOMAIN seen THEN p.r ELSE 0,
                          !.doubt = failed \/ Deciding]
          /\ Paint("requests", TRUE)
          /\ UNCHANGED <<hash, queued, page, imports, mounted, rewritten, mobile, signedIn>>
  /\ UNCHANGED <<verdicts, wording, inbox>>

FilterFolder(status) ==
  /\ OnFolder /\ folder.detail = 0 /\ folder.filter # status
  /\ folder' = [folder EXCEPT !.filter = status]
  /\ UNCHANGED <<verdicts, wording, inbox, posts, routerVars>>

\* The rows the phone shows.
RowsShown == {r \in DOMAIN folder.seen : folder.filter \in {"all", folder.seen[r]}}

\* A row is tapped, or the way back from one.
OpenProposal ==
  /\ OnFolder /\ (folder.detail # 0 \/ RowsShown # {})
  /\ Go("requests", TRUE)
  /\ UNCHANGED <<inboxVars, placeVars>>

ApproveOnPhone(r) ==
  /\ OnFolder /\ r \in IF folder.detail = 0 THEN RowsShown ELSE {folder.detail}
  /\ folder.seen[r] = "pending"
  /\ SendPost(TRUE, "verdict", r, "approved", folder.detail = 0)
  /\ UNCHANGED <<verdicts, wording, inbox, folder, routerVars>>

(***************************************************************************)
(* Answers to decisions.                                                   *)
(***************************************************************************)

\* The server decides on what is pending.
Ruled(p) ==
  /\ verdicts[p.r] = "pending"
  /\ verdicts' = [verdicts EXCEPT ![p.r] = p.what]
  /\ wording' = IF p.what = "approved" /\ p.r \in Rewrites THEN p.r ELSE wording

\* A mutant: the page falls back to what is pending.
PendingAgain == "pending"

\* The status listed after a decision.
Relisted == inbox.status

\* A mutant: the row goes, but the copy is not changed.
Unmarked(seen, p) == seen

\* The phone's copy after its own decision.
MarkedRow(seen, p) == [r \in DOMAIN seen |-> IF r = p.r THEN p.what ELSE seen[r]]

\* The desktop lists again, a row of the phone changes in place, and the phone's detail sends
\* the user back to the list, wherever he is by now.
VerdictAnswered(p) ==
  /\ p \in posts /\ p.kind = "verdict"
  /\ Ruled(p)
  /\ IF p.own /\ ~p.narrow
       THEN /\ posts' = (posts \ {p}) \cup {Post(p.id, FALSE, "relist", 0, Relisted, FALSE)}
            /\ inbox' = [inbox EXCEPT !.doubt = OnTheWay({"list", "relist"}) \/ Abroad]
       ELSE posts' = posts \ {p} /\ UNCHANGED inbox
  /\ folder' = IF p.own /\ p.narrow /\ p.row
                 THEN [folder EXCEPT !.seen = MarkedRow(@, p)] ELSE folder
  /\ IF p.narrow /\ ~p.row THEN Go("requests", TRUE) ELSE Stay
  /\ UNCHANGED placeVars

\* The server refuses, or decides and its answer is lost: the user is told that it failed.
VerdictFailed(p, lost) ==
  /\ p \in posts /\ p.kind = "verdict"
  /\ IF lost THEN Ruled(p) ELSE UNCHANGED <<verdicts, wording>>
  /\ posts' = posts \ {p}
  /\ inbox' = [inbox EXCEPT !.doubt = @ \/ (lost /\ p.own), !.miscounted = @ \/ (lost /\ p.own)]
  /\ folder' = [folder EXCEPT !.doubt = @ \/ (lost /\ p.own)]
  /\ UNCHANGED routerVars

InboxStep ==
  \/ PickTest
  \/ \E status \in Statuses \cup {"all"} : ChooseStatus(status) \/ FilterFolder(status)
  \/ \E r \in Proposals : SelectProposal(r) \/ ApproveOnPhone(r)
  \/ \E decision \in {"approved", "rejected"} : DecideOnCR(decision)
  \/ OpenProposal
  \/ \E p \in posts :
       \/ InboxMissing(p) \/ PickerOpened(p) \/ VerdictAnswered(p)
       \/ \E failed \in SUBSET Statuses : InboxCounted(p, failed)
       \/ \E f \in BOOLEAN : InboxOpened(p, f) \/ InboxListed(p, f) \/ FolderOpened(p, f) \/ VerdictFailed(p, f)

(***************************************************************************)
(* Properties                                                              *)
(***************************************************************************)
Settled(kinds) == ~Deciding /\ ~OnTheWay(kinds)

\* When nothing is under way and no route is to be taken or on its way the owner decides on what is there:
\* the desktop lists what the server has under the chosen status, counts it, and compares a
\* pending edit with the question as it is, and the phone's copy agrees with the server;
\* unless loads crossed or failed, an answer was lost or an edit was approved on the page
\* (chip handlers, decideOnCR, refreshCounts, buildRow).
InboxTrue ==
  /\ inbox.open /\ ~inbox.doubt /\ Settled({"list", "relist"})
       => inbox.items = Matching(inbox.status)
  /\ inbox.open /\ ~inbox.miscounted /\ Settled({"relist", "counts"}) => inbox.counts = Counted
  /\ inbox.open /\ ~inbox.approved
       => \A r \in Rewrites : Diff(r) = <<wording, r>>
  /\ folder.open /\ ~folder.doubt /\ ~Deciding /\ AtRest => folder.seen = verdicts
=============================================================================
