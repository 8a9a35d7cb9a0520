----------------------------- MODULE PeopleScreens -----------------------------
(***************************************************************************)
(* Who can read a test, as its owner sees and changes it: the Access tab of the  *)
(* desktop's detail pane and that of the phone's page of a test.  Every change    *)
(* loads the list again.  Answers are taken as of their arrival: what an answer    *)
(* could have missed is in doubt here.                                            *)
(***************************************************************************)
EXTENDS Router, Sequences

CONSTANTS
  Readers,    \* users that the test can be shared with
  MaxErrands  \* bound: requests of these pages under way

ASSUME PeopleBounds == MaxErrands \in Nat \ {0}

VARIABLES
  sharing,  \* on the server: who can read the test and who asks to
  people,   \* the page
  errands   \* requests under way; own: their page is still there, or loads unsuperseded

peopleVars == <<sharing, people, errands>>

\* at: the phone's page shows another tab, or the tab is open.  lists: of the readers, as they
\* stand in the card.  rows: the requests for access listed.  doubt, unsure: history, readers
\* or requests may be out of date, because loads crossed or failed, an answer was lost, a
\* request was granted, or a change of an earlier visit was under way.
NoPeople == [at |-> "none", narrow |-> FALSE, lists |-> <<>>, rows |-> {}, doubt |-> FALSE,
             unsure |-> FALSE]

PeopleTypeOK ==
  /\ sharing \in [members: SUBSET Readers, asking: SUBSET Readers]
  /\ people.at \in {"none", "visit", "access"} /\ people.narrow \in BOOLEAN
  /\ people.lists \in Seq(SUBSET Readers) /\ people.rows \in SUBSET Readers
  /\ {people.doubt, people.unsure} \subseteq BOOLEAN
  /\ errands \subseteq [id: 1..MaxErrands, own: BOOLEAN, who: SUBSET Readers, yes: BOOLEAN,
                        kind: {"test", "stats", "shares", "askers", "invite", "remove", "ruling"}]

PeopleInit ==
  /\ sharing = [members |-> {}, asking |-> {}]
  /\ people = NoPeople
  /\ errands = {}

Errand(id, kind, who, yes) ==
  [id |-> id, own |-> TRUE, kind |-> kind, who |-> who, yes |-> yes]
FreeErrand(es) == 1..MaxErrands \ {e.id : e \in es}
WithErrand(es, kind, who, yes) ==
  es \cup {Errand(CHOOSE id \in FreeErrand(es) : TRUE, kind, who, yes)}

Running(kinds) == \E e \in errands : e.own /\ e.kind \in kinds
\* Changes that a page of an earlier visit asked for.
Forgotten(es) == \E e \in es : ~e.own /\ e.kind \in {"invite", "remove", "ruling"}

\* The page goes; a page of the phone that loads does not notice.
ErrandsLeft == {[e EXCEPT !.own = @ /\ e.kind \in {"test", "stats"}] : e \in errands}

OnPeople(narrow) ==
  /\ people.at = "access" /\ people.narrow = narrow
  /\ On(IF narrow THEN "collection" ELSE "home", narrow)

(***************************************************************************)
(* Opening.  The phone loads the test, then its statistics; only the first of   *)
(* the two answers is looked at by a render that was superseded.                  *)
(***************************************************************************)
CollectionPage ==
  /\ FreeErrand(errands) # {}
  /\ errands' = WithErrand({[e EXCEPT !.own = e.kind = "stats"] : e \in errands}, "test", {}, FALSE)
  /\ people' = NoPeople
  /\ UNCHANGED sharing

LeavePeople ==
  /\ people' = NoPeople
  /\ errands' = ErrandsLeft

TestArrived(e) ==
  /\ e \in errands /\ e.kind = "test"
  /\ errands' = (errands \ {e}) \cup (IF e.own THEN {[e EXCEPT !.kind = "stats"]} ELSE {})
  /\ UNCHANGED <<sharing, people, routerVars>>

TestMissing(e) ==
  /\ e \in errands /\ e.kind = "test"
  /\ errands' = errands \ {e}
  /\ IF e.own THEN \E p \in {"403", "404"} : Navigate(p) ELSE Stay
  /\ UNCHANGED <<sharing, people, placeVars>>

\* The Access tab: what it shows before its list has come.
FreshTab(es, narrow) ==
  [NoPeople EXCEPT !.at = "access", !.narrow = narrow, !.doubt = Forgotten(es),
     !.unsure = Forgotten(es)]

\* With or without an answer; the address may name the tab.
StatsArrived(e) ==
  /\ e \in errands /\ e.kind = "stats"
  /\ LET es == ErrandsLeft \ {e} IN
     \/ /\ people' = [NoPeople EXCEPT !.at = "visit", !.narrow = TRUE]
        /\ errands' = es
     \/ /\ people' = FreshTab(es, TRUE)
        /\ errands' = WithErrand(es, "shares", {}, FALSE)
  /\ Paint("collection", TRUE)
  /\ UNCHANGED <<sharing, hash, queued, page, imports, mounted, rewritten, mobile, signedIn>>

\* The tab is chosen, perhaps again.  The phone does not list requests for access.
OpenPeople(narrow) ==
  /\ IF narrow THEN On("collection", TRUE) /\ people.at # "none" ELSE On("home", FALSE)
  /\ LET es == WithErrand(ErrandsLeft, "shares", {}, FALSE) IN
     /\ FreeErrand(ErrandsLeft) # {} /\ (narrow \/ FreeErrand(es) # {})
     /\ errands' = IF narrow THEN es ELSE WithErrand(es, "askers", {}, FALSE)
     /\ people' = FreshTab(ErrandsLeft, narrow)
  /\ UNCHANGED <<sharing, routerVars>>

CloseTab ==
  /\ \E narrow \in BOOLEAN : OnPeople(narrow)
  /\ people' = IF people.narrow THEN [NoPeople EXCEPT !.at = "visit", !.narrow = TRUE] ELSE NoPeople
  /\ errands' = ErrandsLeft
  /\ UNCHANGED <<sharing, routerVars>>

(***************************************************************************)
(* What the owner does.                                                    *)
(***************************************************************************)
SendErrand(kind, who, yes) ==
  /\ FreeErrand(errands) # {}
  /\ errands' = WithErrand(errands, kind, who, yes)
  /\ UNCHANGED <<sharing, people, routerVars>>

\* The desktop's button is disabled until the answer.
Invite(u) ==
  /\ OnPeople(TRUE) \/ (OnPeople(FALSE) /\ ~Running({"invite"}))
  /\ SendErrand("invite", {u}, FALSE)

\* Only on the desktop; the cross of a row can be clicked again.
RemoveReader(u) ==
  /\ OnPeople(FALSE) /\ \E i \in DOMAIN people.lists : u \in people.lists[i]
  /\ SendErrand("remove", {u}, FALSE)

\* A row does not take a second click.
DecideRequest(u, yes) ==
  /\ OnPeople(FALSE) /\ u \in people.rows
  /\ ~\E e \in errands : e.own /\ e.kind = "ruling" /\ u \in e.who
  /\ SendErrand("ruling", {u}, yes)

\* Somebody asks for access.
AskAccess(u) ==
  /\ u \notin sharing.members \cup sharing.asking
  /\ sharing' = [sharing EXCEPT !.asking = @ \cup {u}]
  /\ UNCHANGED <<people, errands, routerVars>>

(***************************************************************************)
(* Answers.                                                                *)
(***************************************************************************)

\* A mutant: the card is not emptied before the load.
Unemptied(p) == p.lists

\* What is left of the lists when they are loaded again.
Emptied(p) == IF p.narrow THEN p.lists ELSE <<>>

\* The desktop adds the list that comes to what the card holds, the phone replaces it.
SharesListed(e, failed) ==
  /\ e \in errands /\ e.kind = "shares"
  /\ people' = IF ~e.own THEN people
               ELSE [people EXCEPT !.lists = CASE ~failed -> IF people.narrow THEN <<sharing.members>>
                                                             ELSE Append(@, sharing.members)
                                               [] failed  -> IF people.narrow THEN <<>> ELSE @,
                                   !.doubt = @ \/ failed]
  /\ errands' = errands \ {e}
  /\ UNCHANGED <<sharing, routerVars>>

AskersListed(e, failed) ==
  /\ e \in errands /\ e.kind = "askers"
  /\ people' = IF e.own /\ ~failed THEN [people EXCEPT !.rows = sharing.asking] ELSE people
  /\ errands' = errands \ {e}
  /\ UNCHANGED <<sharing, routerVars>>

\* What the server does.  It removes who can read, decides on who asks, and inviting a reader
\* again changes nothing.
Granted(e) ==
  /\ e.kind = "remove" => e.who \subseteq sharing.members
  /\ e.kind = "ruling" => e.who \subseteq sharing.asking
  /\ sharing' = [members |-> IF e.kind = "remove" \/ (e.kind = "ruling" /\ ~e.yes)
                               THEN sharing.members \ (IF e.kind = "remove" THEN e.who ELSE {})
                               ELSE sharing.members \cup e.who,
                 asking |-> IF e.kind = "ruling" THEN sharing.asking \ e.who ELSE sharing.asking]

\* After an invitation or a removal the list is loaded again.
ReloadShares(e) ==
  /\ e \in errands /\ e.kind \in {"invite", "remove"}
  /\ Granted(e)
  /\ errands' = (errands \ {e}) \cup
                  (IF e.own THEN {Errand(e.id, "shares", {}, FALSE)} ELSE {})
  /\ people' = IF ~e.own THEN people
               ELSE [people EXCEPT !.lists = Emptied(people),
                                   !.doubt = Running({"shares"}) \/ Forgotten(errands)]
  /\ UNCHANGED routerVars

\* A mutant: the row stays.
RowStays(rows, who) == rows

\* The row of the request goes.
RowGone(rows, who) == rows \ who

\* After a decision the list of the readers is left as it is.
RequestDecided(e) ==
  /\ e \in errands /\ e.kind = "ruling"
  /\ Granted(e)
  /\ errands' = errands \ {e}
  /\ people' = IF ~e.own THEN people
               ELSE [people EXCEPT !.rows = RowGone(@, e.who), !.doubt = @ \/ e.yes]
  /\ UNCHANGED routerVars

\* The server refuses, or it complies and its answer is lost: the row is as before and the user
\* is told that it failed.
ErrandFailed(e, lost) ==
  /\ e \in errands /\ e.kind \in {"invite", "remove", "ruling"}
  /\ IF lost THEN Granted(e) ELSE UNCHANGED sharing
  /\ errands' = errands \ {e}
  /\ people' = [people EXCEPT !.doubt = @ \/ (lost /\ e.own), !.unsure = @ \/ (lost /\ e.own)]
  /\ UNCHANGED routerVars

PeopleStep ==
  \/ \E narrow \in BOOLEAN : OpenPeople(narrow)
  \/ CloseTab
  \/ \E u \in Readers :
       \/ Invite(u) \/ RemoveReader(u) \/ AskAccess(u)
       \/ \E yes \in BOOLEAN : DecideRequest(u, yes)
  \/ \E e \in errands :
       \/ TestArrived(e) \/ TestMissing(e) \/ StatsArrived(e) \/ ReloadShares(e) \/ RequestDecided(e)
       \/ \E f \in BOOLEAN : SharesListed(e, f) \/ AskersListed(e, f) \/ ErrandFailed(e, f)

(***************************************************************************)
(* Properties                                                              *)
(***************************************************************************)

\* When nothing is under way the Access tab shows one list of the readers, the one the server
\* has, and every request for access it lists waits for a decision; unless loads crossed or
\* failed, an answer was lost or a request was granted on the page (reloadShares, decideRequest,
\* reloadPeople).
PeopleTrue ==
  people.at = "access" =>
    /\ ~people.doubt /\ ~Running({"shares", "invite", "remove"}) => people.lists = <<sharing.members>>
    /\ ~people.unsure /\ ~Running({"askers", "ruling"}) => people.rows \subseteq sharing.asking
=============================================================================
