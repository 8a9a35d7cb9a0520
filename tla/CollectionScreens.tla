-------------------------- MODULE CollectionScreens --------------------------
(***************************************************************************)
(* The lists of tests on the home screens, which grow by pages as the user     *)
(* scrolls, the detail pane of the desktop's home, and the settings of one own  *)
(* test: access chips that are saved at once and taken back when that fails     *)
(* (tab "Access" of the pane, edit screen of the phone) and the desktop's form,  *)
(* which saves with two requests.  What the settings show was loaded earlier:    *)
(* with the pane, or when the edit screen was rendered.                          *)
(***************************************************************************)
EXTENDS Router, Sequences

CONSTANTS
  MaxRows,   \* bound: tests in a list
  PageSize,  \* rows of a page: 30 on the desktop, 20 on the phone
  MaxTitles, \* bound: titles that the user types
  MaxGets    \* bound: requests of these screens under way

ASSUME CollectionBounds ==
  MaxRows \in Nat /\ PageSize \in Nat \ {0} /\ MaxTitles \in Nat /\ MaxGets \in Nat \ {0}

VARIABLES
  totals,  \* how many tests the server lists under each filter
  lists,   \* per breakpoint (TRUE: the phone), the list on screen
  pane,    \* the desktop's detail pane: selected row and the row whose test it shows
  saved,   \* the server's title and access level of the test in the settings
  chips,   \* per breakpoint, the access chips: what they show and what the screen takes for the level
  setup,   \* the desktop's settings form
  gets     \* requests under way; own: the screen that sent it is the one on screen

collectionVars == <<totals, lists, pane, saved, chips, setup, gets>>

Filters == {"my", "shared", "public"}
Levels == {"private", "shared", "public"}
TestRows == Filters \X (1..MaxRows)
NoRow == <<"my", 0>>

\* The test of the settings in the lists.
OwnRow == <<"my", 1>>

\* crossed: history, the filter was changed while a page was under way.
List == [open: BOOLEAN, filter: Filters, rows: Seq(TestRows), loading: BOOLEAN, exhausted: BOOLEAN,
         crossed: BOOLEAN]
NoList == [open |-> FALSE, filter |-> "my", rows |-> <<>>, loading |-> FALSE,
           exhausted |-> FALSE, crossed |-> FALSE]
NoPane == [sel |-> NoRow, detail |-> NoRow, crossed |-> FALSE]

\* doubt: history, nothing is loaded, a save was under way while it was, two requests crossed, an
\* answer was lost, a refusal came after the tab was opened again, only the first request of a
\* save succeeded, or the user typed while saving.
NoChips == [open |-> FALSE, level |-> "private", shown |-> "private", doubt |-> TRUE]
NoSetup == [open |-> FALSE, title |-> 0, level |-> "private", was |-> [title |-> 0, level |-> "private"],
            armed |-> FALSE, saving |-> FALSE, doubt |-> FALSE]

\* value: what a detail or an edit screen is loading, the level of a chip with the one before and
\* whether the chips that were pressed are still there, or what the form saves and whether its
\* level is still to follow.
Gets == [id: 1..MaxGets, narrow: BOOLEAN, own: BOOLEAN, filter: Filters, offset: 0..MaxRows,
         kind: {"first", "page", "detail", "load", "chip", "title", "level", "rename"}]
Loading == {"detail", "load"}
Changing == {"chip", "title", "level", "rename"}

CollectionTypeOK ==
  /\ totals \in [Filters -> 0..MaxRows]
  /\ lists \in [BOOLEAN -> List]
  /\ pane.sel \in TestRows \cup {NoRow} /\ pane.detail \in TestRows \cup {NoRow}
  /\ saved \in [title: 0..MaxTitles, level: Levels]
  /\ chips \in [BOOLEAN -> [open: BOOLEAN, level: Levels, shown: Levels, doubt: BOOLEAN]]
  /\ setup.was \in [title: 0..MaxTitles, level: Levels]
  /\ \A g \in gets : [x \in DOMAIN g \ {"value"} |-> g[x]] \in Gets

CollectionInit ==
  /\ totals \in [Filters -> 0..MaxRows]
  /\ lists = [n \in BOOLEAN |-> NoList]
  /\ pane = NoPane
  /\ saved = [title |-> 0, level |-> "private"]
  /\ chips = [n \in BOOLEAN |-> NoChips]
  /\ setup = NoSetup
  /\ gets = {}

Free == 1..MaxGets \ {g.id : g \in gets}
Get(id, narrow, kind, filter, offset, value) ==
  [id |-> id, narrow |-> narrow, own |-> TRUE, kind |-> kind, filter |-> filter,
   offset |-> offset, value |-> value]
Send(narrow, kind, filter, offset, value) ==
  /\ Free # {}
  /\ gets' = gets \cup {Get(CHOOSE id \in Free : TRUE, narrow, kind, filter, offset, value)}

Pending(narrow, kinds) == \E g \in gets : g.narrow = narrow /\ g.kind \in kinds

\* The test of a row is asked for; saw: what the server has now.
Asking(row) ==
  [row |-> row, saw |-> saved, doubt |-> \E g \in gets : g.kind \in Changing]

\* A save overlaps with whatever is being loaded.
Doubted(g) == IF g.kind \in Loading THEN [g EXCEPT !.value.doubt = TRUE] ELSE g
Store(narrow, kind, value) ==
  /\ Free # {}
  /\ gets' = {Doubted(g) : g \in gets} \cup
               {Get(CHOOSE id \in Free : TRUE, narrow, kind, "my", 0, value)}

\* A form that the user leaves goes on with what it showed.  A first page is still listed, and
\* the edit screen of the phone still painted.
Abandoned(g) ==
  IF g.kind = "title" /\ g.own /\ setup.level # setup.was.level
    THEN [g EXCEPT !.own = FALSE, !.value.level = setup.level, !.value.more = TRUE]
    ELSE [g EXCEPT !.own = @ /\ (g.kind = "first" \/ (g.kind = "load" /\ g.narrow))]

\* Only another rendering of the same screen makes those stale.
Renewed(kind, narrow) ==
  {IF g.kind = kind /\ g.narrow = narrow THEN [g EXCEPT !.own = FALSE] ELSE Abandoned(g) : g \in gets}

\* Another page is put into the root.
ShutSettings ==
  /\ chips' = [n \in BOOLEAN |-> NoChips]
  /\ setup' = NoSetup

LeaveSettings ==
  /\ ShutSettings
  /\ gets' = {Abandoned(g) : g \in gets}

(***************************************************************************)
(* The lists.                                                              *)
(***************************************************************************)
Fewer(x, y) == IF x < y THEN x ELSE y
Page(f, offset) ==
  [i \in 1..(IF offset > totals[f] THEN 0 ELSE Fewer(PageSize, totals[f] - offset)) |-> <<f, offset + i>>]

\* A page that is short or the last one ends the list.
Ends(f, offset) == Len(Page(f, offset)) < PageSize \/ offset + PageSize >= totals[f]

\* Rendered with or without a filter in the address; the first page is asked for at once.
HomeScreen(n) ==
  /\ lists' = [lists EXCEPT ![n] = NoList]
  /\ pane' = NoPane
  /\ ShutSettings
  /\ Free # {}
  /\ \E f \in Filters :
       gets' = Renewed("first", n) \cup {Get(CHOOSE id \in Free : TRUE, n, "first", f, 0, NoRow)}
  /\ UNCHANGED <<totals, saved>>

Listed(f, rows, exhausted) ==
  [NoList EXCEPT !.open = TRUE, !.filter = f, !.rows = rows, !.exhausted = exhausted]

\* The desktop paints into its own frame, the phone over whatever the root shows.
Painting(p, narrow) ==
  IF narrow
    THEN /\ Paint(p, TRUE)
         /\ UNCHANGED <<hash, queued, page, imports, mounted, rewritten, mobile, signedIn>>
    ELSE UNCHANGED routerVars

\* What a first page can lead to: a user without tests or, on the phone, without attempts may
\* see a first-run screen, the former on the phone the public tests.
Starts(narrow, f) ==
  LET list   == Listed(f, Page(f, 0), Ends(f, 0) /\ (narrow \/ f # "public" \/ totals[f] > 0))
      public == Listed("public", <<>>, FALSE)
  IN
  IF f = "my" /\ totals["my"] = 0 THEN {NoList} \cup (IF narrow THEN {public} ELSE {})
  ELSE IF f = "my" /\ narrow THEN {NoList, list}
  ELSE {list}

\* Only another rendering makes the first page stale.  The desktop selects the first row.
FirstListed(g) ==
  /\ g \in gets /\ g.kind = "first"
  /\ IF ~g.own THEN gets' = gets \ {g} /\ UNCHANGED <<lists, pane, routerVars>>
     ELSE /\ lists' \in {[lists EXCEPT ![g.narrow] = l] : l \in Starts(g.narrow, g.filter)}
          /\ Painting("home", g.narrow)
          /\ IF ~g.narrow /\ lists'[FALSE].rows # <<>>
               THEN /\ pane' = [NoPane EXCEPT !.sel = lists'[FALSE].rows[1]]
                    /\ gets' = (gets \ {g}) \cup {Get(g.id, FALSE, "detail", "my", 0, Asking(pane'.sel))}
               ELSE gets' = gets \ {g} /\ UNCHANGED pane
  /\ UNCHANGED <<totals, saved, chips, setup>>

\* The desktop shows an error when the own tests fail and an empty list when others do, which it
\* tries to go on with when they are the public ones; the phone takes failed own tests for none.
FirstFailed(g) ==
  /\ g \in gets /\ g.kind = "first"
  /\ gets' = gets \ {g}
  /\ IF ~g.own THEN UNCHANGED <<lists, routerVars>>
     ELSE /\ lists' \in {[lists EXCEPT ![g.narrow] = l] :
               l \in {NoList}
                     \cup (IF g.narrow \/ g.filter # "my"
                             THEN {Listed(g.filter, <<>>, ~g.narrow /\ g.filter # "public")} ELSE {})
                     \cup (IF g.narrow /\ g.filter = "my" THEN {Listed("public", <<>>, FALSE)} ELSE {})}
          /\ Painting("home", g.narrow)
  /\ UNCHANGED <<totals, pane, saved, chips, setup>>

OnList(n) == On("home", n) /\ lists[n].open

\* A mutant: another page is asked for while one is under way.
Eager(l) == ~l.exhausted

\* loadMore goes on.
MayLoad(l) == ~l.loading /\ ~l.exhausted

\* The end of the list comes into view.
LoadMore(n) ==
  /\ OnList(n) /\ MayLoad(lists[n])
  /\ lists' = [lists EXCEPT ![n].loading = TRUE]
  /\ Send(n, "page", lists[n].filter, Len(lists[n].rows), NoRow)
  /\ UNCHANGED <<totals, pane, saved, chips, setup, routerVars>>

\* A page of the old filter that is under way is not called off, and it keeps the first page of
\* the new one from being asked for.
ChooseFilter(n, f) ==
  /\ OnList(n) /\ lists[n].filter # f
  /\ LET l == [lists[n] EXCEPT !.filter = f, !.rows = <<>>, !.exhausted = FALSE,
                               !.crossed = @ \/ lists[n].loading]
     IN IF MayLoad(l)
          THEN /\ lists' = [lists EXCEPT ![n] = [l EXCEPT !.loading = TRUE]]
               /\ Send(n, "page", f, 0, NoRow)
          ELSE lists' = [lists EXCEPT ![n] = l] /\ UNCHANGED gets
  /\ UNCHANGED <<totals, pane, saved, chips, setup, routerVars>>

\* The rows are appended to what is there by now.
PageListed(g) ==
  /\ g \in gets /\ g.kind = "page"
  /\ gets' = gets \ {g}
  /\ LET l == lists[g.narrow]
         rows == l.rows \o Page(g.filter, g.offset)
     IN lists' = IF ~g.own THEN lists
                 ELSE [lists EXCEPT ![g.narrow] =
                        [l EXCEPT !.rows = rows, !.loading = FALSE,
                           !.exhausted = @ \/ Len(Page(g.filter, g.offset)) < PageSize
                                           \/ Len(rows) >= totals[g.filter]]]
  /\ UNCHANGED <<totals, pane, saved, chips, setup, routerVars>>

PageFailed(g) ==
  /\ g \in gets /\ g.kind = "page"
  /\ gets' = gets \ {g}
  /\ lists' = IF g.own THEN [lists EXCEPT ![g.narrow].loading = FALSE, ![g.narrow].exhausted = TRUE]
              ELSE lists
  /\ UNCHANGED <<totals, pane, saved, chips, setup, routerVars>>

\* The pane shows another object: what is under way for the chips of the old one does not
\* concern it.
Replaced(gs) == {IF g.kind = "chip" /\ ~g.narrow THEN [g EXCEPT !.own = FALSE] ELSE g : g \in gs}

\* A click on a row of the desktop's list goes back to the first tab.
SelectRow(i) ==
  /\ OnList(FALSE) /\ i \in DOMAIN lists[FALSE].rows
  /\ pane' = [sel |-> lists[FALSE].rows[i], detail |-> NoRow,
              crossed |-> \E g \in gets : g.kind = "detail"]
  /\ chips' = [chips EXCEPT ![FALSE] = NoChips]
  /\ Free # {}
  /\ gets' = Replaced(gets) \cup {Get(CHOOSE id \in Free : TRUE, FALSE, "detail", "my", 0,
                                     Asking(lists[FALSE].rows[i]))}
  /\ UNCHANGED <<totals, lists, saved, setup, routerVars>>

\* The answer is what the server had when it was asked, or has by now.
Answers(g) == {g.value.saw, saved}
Repainted(open, level, doubt) == [open |-> open, level |-> level, shown |-> level, doubt |-> doubt]

\* Nothing asks whether the row is still the selected one; the open tab stays.  The answer may
\* also be a failure.
DetailArrived(g) ==
  /\ g \in gets /\ g.kind = "detail"
  /\ IF ~g.own THEN gets' = gets \ {g} /\ UNCHANGED <<pane, chips>>
     ELSE /\ gets' = Replaced(gets \ {g})
          /\ \E row \in {g.value.row, NoRow}, b \in Answers(g) :
               /\ pane' = [pane EXCEPT !.detail = row]
               /\ chips' = [chips EXCEPT ![FALSE] =
                    IF row = OwnRow /\ On("home", FALSE) THEN Repainted(@.open, b.level, g.value.doubt)
                    ELSE [@ EXCEPT !.doubt = TRUE]]
  /\ UNCHANGED <<totals, lists, saved, setup, routerVars>>

(***************************************************************************)
(* Access chips: the tab of the desktop's detail pane, the edit screen of the  *)
(* phone.  The level is shown before the server has it.                        *)
(***************************************************************************)

\* The tab is rendered from the test that was loaded with the pane.
OpenChips ==
  /\ On("home", FALSE) /\ pane.detail # NoRow /\ ~chips[FALSE].open
  /\ chips' = [chips EXCEPT ![FALSE].open = TRUE, ![FALSE].shown = chips[FALSE].level]
  /\ UNCHANGED <<totals, lists, pane, saved, setup, gets, routerVars>>

\* Another tab: a request that is under way will repaint chips that are no longer there.
LeaveChips ==
  /\ On("home", FALSE) /\ pane.detail # NoRow /\ chips[FALSE].open
  /\ chips' = [chips EXCEPT ![FALSE].open = FALSE]
  /\ gets' = {IF g.kind = "chip" /\ ~g.narrow THEN [g EXCEPT !.value.seen = FALSE] ELSE g : g \in gets}
  /\ UNCHANGED <<totals, lists, pane, saved, setup, routerVars>>

PressChip(n, level) ==
  /\ On(IF n THEN "edit" ELSE "home", n)
  /\ chips[n].open /\ chips[n].level # level
  /\ n \/ pane.detail = OwnRow
  /\ Store(n, "chip", [was |-> chips[n].level, level |-> level, seen |-> TRUE])
  /\ chips' = [chips EXCEPT ![n] = Repainted(TRUE, level, @.doubt \/ Pending(n, {"chip"}))]
  /\ UNCHANGED <<totals, lists, pane, saved, setup, routerVars>>

ChipSaved(g) ==
  /\ g \in gets /\ g.kind = "chip"
  /\ gets' = gets \ {g}
  /\ saved' = [saved EXCEPT !.level = g.value.level]
  /\ UNCHANGED <<totals, lists, pane, chips, setup, routerVars>>

\* A mutant: a level that was refused stays on show.
StaysShown(c, v) == c

\* The level of before the press is taken again, and painted where the press was.
TakenBack(c, v) == [c EXCEPT !.level = v.was, !.shown = IF v.seen THEN v.was ELSE @]

\* lost: the server has the level although the answer did not come.
ChipFailed(g, lost) ==
  /\ g \in gets /\ g.kind = "chip"
  /\ gets' = gets \ {g}
  /\ saved' = IF lost THEN [saved EXCEPT !.level = g.value.level] ELSE saved
  /\ LET c == chips[g.narrow] IN
     chips' = IF g.own
                THEN [chips EXCEPT ![g.narrow] =
                       TakenBack([c EXCEPT !.doubt = @ \/ lost \/ (c.open /\ ~g.value.seen)], g.value)]
                ELSE chips
  /\ UNCHANGED <<totals, lists, pane, setup, routerVars>>

(***************************************************************************)
(* The settings form.                                                      *)
(***************************************************************************)
Dirty(s) == s.title # s.was.title \/ s.level # s.was.level

\* The edit screen of either breakpoint asks for the test at its rendering.
SettingsScreen(n) ==
  /\ ShutSettings
  /\ Free # {}
  /\ gets' = Renewed("load", n) \cup {Get(CHOOSE id \in Free : TRUE, n, "load", "my", 0, Asking(OwnRow))}
  /\ UNCHANGED <<totals, lists, pane, saved>>

\* The phone paints its screen over whatever the root shows, the desktop fills its own frame.
SettingsLoaded(g) ==
  /\ g \in gets /\ g.kind = "load"
  /\ IF ~g.own THEN gets' = gets \ {g} /\ UNCHANGED <<chips, setup, routerVars>>
     ELSE \E b \in Answers(g) :
          /\ Painting("edit", g.narrow)
          /\ IF g.narrow
               THEN /\ chips' = [n \in BOOLEAN |-> IF n THEN Repainted(TRUE, b.level, g.value.doubt) ELSE NoChips]
                    /\ setup' = NoSetup
                    /\ gets' = {Abandoned(h) : h \in gets \ {g}}
               ELSE /\ setup' = IF On("edit", FALSE)
                         THEN [NoSetup EXCEPT !.open = TRUE, !.title = b.title, !.level = b.level,
                                              !.was = b, !.doubt = g.value.doubt]
                         ELSE setup
                    /\ gets' = gets \ {g}
                    /\ UNCHANGED chips
  /\ UNCHANGED <<totals, lists, pane, saved>>

\* The test is not there, or not the user's; nothing asks whether the user has left.
SettingsFailed(g) ==
  /\ g \in gets /\ g.kind = "load"
  /\ gets' = gets \ {g}
  /\ IF g.narrow THEN Navigate("404") \/ (g.own /\ Navigate("test")) ELSE Navigate("403") \/ Stay
  /\ UNCHANGED <<totals, lists, pane, saved, chips, setup, placeVars>>

\* Typing arms the save button again, also while saving.  An empty title cannot be saved.
EditSetup(s) ==
  /\ On("edit", FALSE) /\ setup.open /\ s # setup
  /\ setup' = [s EXCEPT !.armed = Dirty(s), !.doubt = @ \/ setup.saving]
  /\ UNCHANGED <<totals, lists, pane, saved, chips, gets, routerVars>>

TypeTitle(i) == EditSetup([setup EXCEPT !.title = i])
PickLevel(l) == EditSetup([setup EXCEPT !.level = l])

\* The requests that are left: the title first, then the level.
Step(s, kinds) ==
  IF "title" \in kinds /\ s.title # s.was.title THEN "title"
  ELSE IF "level" \in kinds /\ s.level # s.was.level THEN "level"
  ELSE "done"

\* What is on the form by now counts as saved.
AllSaved(s) ==
  [s EXCEPT !.was = [title |-> s.title, level |-> s.level], !.armed = FALSE, !.saving = FALSE]

\* After a failure the button is armed even when there is nothing left to send.
SaveSetup ==
  /\ On("edit", FALSE) /\ setup.open /\ setup.armed
  /\ LET next == Step(setup, {"title", "level"}) IN
     IF next = "done" THEN setup' = AllSaved(setup) /\ UNCHANGED gets
     ELSE /\ Store(FALSE, next, [title |-> setup.title, level |-> setup.level, more |-> FALSE])
          /\ setup' = [setup EXCEPT !.armed = FALSE, !.saving = TRUE, !.doubt = @ \/ setup.saving]
  /\ UNCHANGED <<totals, lists, pane, saved, chips, routerVars>>

\* A mutant: the level is not sent after a title.
TitleOnly(g) == {}

\* What is still to be sent after an answer, with the level on the form by now.
Remaining(g) == IF g.kind = "title" THEN {"level"} ELSE {}

Saves(g, stored) ==
  saved' = IF stored THEN [saved EXCEPT ![g.kind] = g.value[g.kind]] ELSE saved

FormSaved(g) ==
  /\ g \in gets /\ g.kind \in {"title", "level"}
  /\ Saves(g, TRUE)
  /\ LET next == Step(setup, Remaining(g))
         form == [title |-> setup.title, level |-> setup.level, more |-> FALSE]
     IN CASE g.own /\ next # "done" ->
               gets' = (gets \ {g}) \cup {Get(g.id, FALSE, next, "my", 0, form)} /\ UNCHANGED setup
          [] ~g.own /\ g.value.more ->
               /\ gets' = (gets \ {g}) \cup
                    {[g EXCEPT !.kind = "level", !.value.more = FALSE]}
               /\ UNCHANGED setup
          [] OTHER -> gets' = gets \ {g} /\ setup' = IF g.own THEN AllSaved(setup) ELSE setup
  /\ UNCHANGED <<totals, lists, pane, chips, routerVars>>

\* The original is not touched, also when the title was saved before the level was refused.
FormFailed(g, lost) ==
  /\ g \in gets /\ g.kind \in {"title", "level"}
  /\ Saves(g, lost)
  /\ gets' = gets \ {g}
  /\ setup' = IF g.own THEN [setup EXCEPT !.armed = TRUE, !.saving = FALSE,
                !.doubt = @ \/ lost \/ (g.kind = "level" /\ g.value.title # setup.was.title)]
              ELSE setup
  /\ UNCHANGED <<totals, lists, pane, chips, routerVars>>

\* The phone saves title and description with one request and goes to the test.
Rename(i) ==
  /\ On("edit", TRUE) /\ chips[TRUE].open
  /\ Store(TRUE, "rename", i)
  /\ UNCHANGED <<totals, lists, pane, saved, chips, setup, routerVars>>

Renamed(g, done) ==
  /\ g \in gets /\ g.kind = "rename"
  /\ gets' = gets \ {g}
  /\ saved' \in {[saved EXCEPT !.title = g.value]} \cup (IF done THEN {} ELSE {saved})
  /\ IF done THEN Navigate("test") ELSE Stay
  /\ UNCHANGED <<totals, lists, pane, chips, setup, placeVars>>

ListStep ==
  \/ \E n \in BOOLEAN : LoadMore(n) \/ \E f \in Filters : ChooseFilter(n, f)
  \/ \E i \in DOMAIN lists[FALSE].rows : SelectRow(i)
  \/ \E g \in gets :
       FirstListed(g) \/ FirstFailed(g) \/ PageListed(g) \/ PageFailed(g) \/ DetailArrived(g)

SettingsStep ==
  \/ OpenChips \/ LeaveChips
  \/ \E n \in BOOLEAN, l \in Levels : PressChip(n, l)
  \/ SaveSetup
  \/ \E i \in 0..MaxTitles : TypeTitle(i) \/ Rename(i)
  \/ \E l \in Levels : PickLevel(l)
  \/ \E g \in gets :
       \/ SettingsLoaded(g) \/ SettingsFailed(g) \/ ChipSaved(g) \/ FormSaved(g)
       \/ \E lost \in BOOLEAN : ChipFailed(g, lost) \/ FormFailed(g, lost) \/ Renamed(g, lost)

(***************************************************************************)
(* Properties                                                              *)
(***************************************************************************)

\* Unless the filter was changed while a page was under way, a list holds the tests of its
\* filter from the first on, none left out and none twice (loadMore on either screen).
ListFaithful ==
  \A n \in BOOLEAN :
    LET l == lists[n] IN
    ~l.crossed => \A i \in DOMAIN l.rows : l.rows[i] = <<l.filter, i>>

\* When nothing is under way, the chips and a form without changes show what the server has,
\* although they were loaded earlier: unless a save was under way meanwhile or two crossed, an
\* answer was lost, the tab was opened again before a refusal, a save stopped half-way or the user
\* typed during one (loadDetail, renderAccessTab, paintAccessRow, save).
SettingsTrue ==
  /\ \A n \in BOOLEAN :
       chips[n].open /\ ~chips[n].doubt /\ ~Pending(n, {"chip"}) => chips[n].shown = saved.level
  /\ setup.open /\ ~setup.doubt /\ ~setup.saving /\ ~Dirty(setup)
       => setup.title = saved.title /\ setup.level = saved.level
=============================================================================
