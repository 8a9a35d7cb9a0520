--------------------------- MODULE ScreensInvariants ---------------------------
(***************************************************************************)
(* What the composed client keeps: for each part of it the inductive invariant *)
(* behind its properties, as a conjunction of named parts.  ScreensProofs shows  *)
(* that every step of Screens keeps them and that the properties follow.         *)
(***************************************************************************)
EXTENDS Screens

\* What a component of the screens does to the place of the user: nothing late is painted but
\* these screens of the phone.
LateScreens == {"import", "home", "edit", "question", "requests", "collection"}

\* No timer will take the banner away while the browser is offline.
Announced == ~online => banner = "offline" /\ flash = 0

(***************************************************************************)
(* The wizard.                                                             *)
(***************************************************************************)

\* What is true of a wizard that was not crossed, with requests cs under way and tests ks on the
\* server: the requests of its breakpoint are its own and of its mode, and it waits for an upload
\* exactly while it has one under way.
Straight(n, w, cs, ks) ==
  /\ \A c \in cs : c.narrow = n => c.own /\ (c.kind = "create" <=> w.mode = "create")
  /\ \A c, d \in cs :
       c.narrow = n /\ d.narrow = n /\ c.kind = "upload" /\ d.kind = "upload" => c = d
  /\ (\E c \in cs : c.narrow = n /\ c.kind = "upload") <=> w.uploading
  /\ w.uploading => w.step \in {1, 2}
  /\ w.mode = "import" /\ w.step = 2 => w.uploading
  /\ w.mode = "create" => w.step \in {1, 2}
  /\ w.step > 2 \/ (w.mode = "create" /\ w.step = 2) => w.result \in ks

\* No two wizards are about the same test, nor is a request about that of the other breakpoint.
Apart(ws, cs, last) ==
  /\ \A n \in BOOLEAN : ws[n].result <= last
  /\ \A m, n \in BOOLEAN : m # n /\ ws[m].result = ws[n].result => ws[m].result = 0
  /\ \A c \in cs : c.test <= last
  /\ \A c \in cs, m \in BOOLEAN : m # c.narrow /\ c.test = ws[m].result => c.test = 0

WizardInv ==
  /\ WizardTypeOK
  /\ Apart(wizard, calls, made)
  /\ \A n \in BOOLEAN : ~wizard[n].crossed => Straight(n, wizard[n], calls, kept)

(***************************************************************************)
(* The lists and the settings: their types.                                *)
(***************************************************************************)
AnyRows == Filters \X Nat
ListsOf(rows) == [open: BOOLEAN, filter: Filters, rows: rows, loading: BOOLEAN,
                  exhausted: BOOLEAN, crossed: BOOLEAN]
AnyList == ListsOf(Seq(AnyRows))
ChipRows == [open: BOOLEAN, level: Levels, shown: Levels, doubt: BOOLEAN]
Bodies == [title: 0..MaxTitles, level: Levels]
Forms == [title: 0..MaxTitles, level: Levels, more: BOOLEAN]
Setups == [open: BOOLEAN, title: 0..MaxTitles, level: Levels, was: Bodies, armed: BOOLEAN,
           saving: BOOLEAN, doubt: BOOLEAN]
Presses == [was: Levels, level: Levels, seen: BOOLEAN]
Askings == [row: AnyRows, saw: Bodies, doubt: BOOLEAN]

Payload(kind) ==
  CASE kind \in {"first", "page"}  -> AnyRows
    [] kind \in Loading           -> Askings
    [] kind = "chip"              -> Presses
    [] kind \in {"title", "level"} -> Forms
    [] kind = "rename"            -> 0..MaxTitles
Kinds == {"first", "page", "detail", "load", "chip", "title", "level", "rename"}
Fetches == [id: 1..MaxGets, narrow: BOOLEAN, own: BOOLEAN, filter: Filters, offset: Nat,
            kind: Kinds, value: UNION {Payload(k) : k \in Kinds}]
GetOK(g) == g \in Fetches /\ g.value \in Payload(g.kind)

CollectionTyped ==
  /\ totals \in [Filters -> 0..MaxRows]
  /\ lists \in [BOOLEAN -> AnyList]
  /\ saved \in Bodies
  /\ chips \in [BOOLEAN -> ChipRows]
  /\ setup \in Setups
  /\ \A g \in gets : GetOK(g)

(***************************************************************************)
(* The lists.                                                              *)
(***************************************************************************)

\* A list l of one breakpoint and the requests gs: before the first page there is none; one of
\* them at most is under way, and a page continues what is there.
Paging(n, gs) == {g \in gs : g.narrow = n /\ g.own /\ g.kind \in {"first", "page"}}
Numbered(l) == ~l.crossed => \A i \in 1..Len(l.rows) : l.rows[i] = <<l.filter, i>>
ListSound(n, l, gs) ==
  /\ \A g, h \in Paging(n, gs) : g = h
  /\ \A g \in Paging(n, gs) :
       IF g.kind = "first" THEN l = NoList
       ELSE l.loading /\ (~l.crossed => g.filter = l.filter /\ g.offset = Len(l.rows))
  /\ Numbered(l)

ListsInv == CollectionTyped /\ \A n \in BOOLEAN : ListSound(n, lists[n], gets)

SettingsTyped ==
  saved \in Bodies /\ chips \in [BOOLEAN -> ChipRows] /\ setup \in Setups

Storing == {"chip", "title", "level"}

\* What the form sends: the title and the level that are on it.
OnForm(s) == [title |-> s.title, level |-> s.level, more |-> FALSE]

(***************************************************************************)
(* Where the settings are open.                                            *)
(***************************************************************************)

\* The screen of a chips row, and that of the form.
ChipsPlace(n) == IF n THEN [page |-> "edit", narrow |-> TRUE] ELSE [page |-> "home", narrow |-> FALSE]
SetupPlace == [page |-> "edit", narrow |-> FALSE]
LatePlaces == {[page |-> p, narrow |-> TRUE] : p \in LateScreens}
Covered == LatePlaces \ {ChipsPlace(TRUE)}

\* Chips that are on screen, or that are known to show the truth once they are.
Live(c) == c.open \/ ~c.doubt

\* Chips and form are live on their own screen or under a late rendering of the phone.
PlacesInv ==
  /\ \A n \in BOOLEAN : Live(chips[n]) => shown \in Covered \cup {ChipsPlace(n)}
  /\ setup.open => shown \in Covered \cup {SetupPlace}

(***************************************************************************)
(* What the settings show.                                                 *)
(***************************************************************************)

\* Chips c of breakpoint n without doubt, the requests gs and the level of the server: what is
\* under way is one press, and it explains the level that they take for the server's.
ChipsSound(n, c, gs, level) ==
  ~c.doubt =>
    /\ \A g \in gs : g.kind \in Storing =>
         g.kind = "chip" /\ g.narrow = n /\ g.own /\ g.value.was = level /\ g.value.level = c.level
    /\ \A g, h \in gs : g.kind = "chip" /\ h.kind = "chip" => g = h
    /\ (\A g \in gs : g.kind # "chip") => c.level = level
    /\ c.open => c.shown = c.level

\* A form s without doubt, the requests gs and the title and level b of the server: what is under
\* way is one request of its save, and the other one has been answered or is not sent yet.
SetupSound(s, gs, b) ==
  s.open /\ ~s.doubt =>
    /\ ~s.saving => s.was = b /\ \A g \in gs : g.kind \notin Changing
    /\ s.saving => ~s.armed
    /\ \A g, h \in gs : g.kind \in Changing /\ h.kind \in Changing => g = h
    /\ \A g \in gs : g.kind \in Changing =>
         /\ g.own /\ g.kind \in {"title", "level"} /\ g.value = OnForm(s) /\ b.level = s.was.level
         /\ IF g.kind = "title" THEN b = s.was ELSE b.title = s.title

\* Loads without doubt among the requests gs: no save is under way, and what the server had when
\* they were sent is what it has, b.
LoadsSound(gs, b) ==
  \A g \in gs : g.kind \in Loading /\ ~g.value.doubt =>
    g.value.saw = b /\ \A h \in gs : h.kind \notin Changing

SettingsInv ==
  /\ PlacesInv
  /\ LoadsSound(gets, saved)
  /\ \A n \in BOOLEAN : ChipsSound(n, chips[n], gets, saved.level)
  /\ SetupSound(setup, gets, saved)

(***************************************************************************)
(* Who can read the test.                                                  *)
(***************************************************************************)
ErrandKinds == {"test", "stats", "shares", "askers", "invite", "remove", "ruling"}
AnyErrand == [id: 1..MaxErrands, own: BOOLEAN, who: SUBSET Readers, yes: BOOLEAN, kind: ErrandKinds]
AnyPeople == [at: {"none", "visit", "access"}, narrow: BOOLEAN, lists: Seq(SUBSET Readers),
              rows: SUBSET Readers, doubt: BOOLEAN, unsure: BOOLEAN]
AnySharing == [members: SUBSET Readers, asking: SUBSET Readers]
Loaders == {"shares", "askers"}

PeopleFull == people \in AnyPeople /\ sharing \in AnySharing /\ errands \subseteq AnyErrand

Unique(es) == \A e, f \in es : e.id = f.id => e = f

\* The requests for the list of the readers that the page waits for.
SharesOf(es) == {e \in es : e.own /\ e.kind = "shares"}

\* What the tab shows of the readers without doubt: while one list of them is asked for the
\* desktop's card is empty, and otherwise it holds the list of the server, which no request of
\* an earlier visit is going to change.
ReadersSound(p, es, members) ==
  p.at = "access" /\ ~p.doubt =>
    /\ ~Forgotten(es)
    /\ \A e, f \in SharesOf(es) : e = f
    /\ IF SharesOf(es) = {} THEN p.lists = <<members>> ELSE p.narrow \/ p.lists = <<>>

\* And of the requests for access: all of them wait.
AskersSound(p, es, asking) ==
  p.at = "access" /\ ~p.unsure => ~Forgotten(es) /\ p.rows \subseteq asking

PeopleInv ==
  /\ PeopleFull
  /\ Unique(errands)
  /\ ReadersSound(people, errands, sharing.members)
  /\ AskersSound(people, errands, sharing.asking)

(***************************************************************************)
(* The change requests of the owner.                                       *)
(***************************************************************************)
PostKinds == {"open", "picker", "list", "relist", "counts", "verdict"}
AnyPost == [id: 1..MaxPosts, narrow: BOOLEAN, own: BOOLEAN, r: {0} \cup Proposals, kind: PostKinds,
            what: Statuses \cup {"all", "none"}, row: BOOLEAN]
Tallies == [Statuses -> 0..NProposals]
AnyInbox == [open: BOOLEAN, picker: BOOLEAN, status: Statuses \cup {"all"}, items: Copies,
             sel: {0} \cup Proposals, counts: Tallies, text: {0} \cup Rewrites, doubt: BOOLEAN,
             miscounted: BOOLEAN, approved: BOOLEAN]
AnyFolder == [open: BOOLEAN, picker: BOOLEAN, filter: Statuses \cup {"all"}, seen: Copies,
              detail: {0} \cup Proposals, doubt: BOOLEAN]
PostOK(p) ==
  /\ p \in AnyPost
  /\ p.kind = "verdict" => p.r \in Proposals /\ p.what \in {"approved", "rejected"}
  /\ p.kind \in {"list", "relist", "counts"} => ~p.narrow

InboxFull ==
  /\ verdicts \in [Proposals -> Statuses] /\ wording \in {0} \cup Rewrites
  /\ inbox \in AnyInbox /\ folder \in AnyFolder
  /\ \A p \in posts : PostOK(p)
  /\ \A p, q \in posts : p.id = q.id => p = q

\* One page is open at most, what is under way of its own it has sent, and a page that is
\* opening has nothing else under way.
Opening(ps) ==
  \A p \in ps : p.own /\ p.kind \in {"open", "picker"} => \A q \in ps : q.own => q = p
OnePage(ib, fd, ps) ==
  /\ ~(ib.open /\ fd.open)
  /\ \A p \in ps : p.own =>
       /\ ib.open => ~p.narrow
       /\ fd.open => p.narrow
       /\ p.kind \in {"open", "picker"} => ~ib.open /\ ~fd.open
  /\ Opening(ps)

OwnPosts(ps, kinds) == {p \in ps : p.own /\ p.kind \in kinds}
Banished(ps) == \E p \in ps : p.kind = "verdict" /\ ~p.own
ListLoads == {"list", "relist"}
Counters == {"relist", "counts"}

\* What the server lists and counts under its statuses.
ServerList(vs, status) == [r \in {q \in Proposals : status \in {"all", vs[q]}} |-> vs[r]]
ServerTally(vs) == [v \in Statuses |-> Cardinality({r \in Proposals : vs[r] = v})]

\* Without doubt one list is under way at most, of the chosen status, and otherwise what is
\* listed is what the server has.
ListedSound(ib, ps, matching) ==
  ib.open /\ ~ib.doubt =>
    /\ ~Banished(ps)
    /\ \A p, q \in OwnPosts(ps, ListLoads) : p = q
    /\ \A p \in OwnPosts(ps, ListLoads) : p.what = ib.status
    /\ OwnPosts(ps, ListLoads) = {} => ib.items = matching

CountedSound(ib, ps, counted) ==
  ib.open /\ ~ib.miscounted =>
    ~Banished(ps) /\ (OwnPosts(ps, Counters) = {} => ib.counts = counted)

\* While no edit was approved from the page, none is about to be.
TextSound(ib, ps, text) ==
  ib.open /\ ~ib.approved =>
    /\ ~Banished(ps)
    /\ \A p \in OwnPosts(ps, {"verdict"}) : p.what # "approved"
    /\ ib.text = text

\* The router is about to leave the screen that it shows.
Leaving == queued \/ rewritten \/ \E i \in imports : i.fresh /\ i.page \notin Screens

\* The copy of the phone agrees with the server, unless in doubt; and without doubt no earlier
\* visit is going to change anything.
CopyKnown(fd, ps) == fd.open /\ ~fd.doubt => ~Banished(ps)
CopySound(fd, vs) == fd.open /\ ~fd.doubt => fd.seen = vs

\* An open page of the phone is on screen, unless another one was painted over it.
FolderPlaced(fd, place) == fd.open => place.narrow /\ place.page \in LateScreens

InboxInv ==
  /\ InboxFull
  /\ OnePage(inbox, folder, posts)
  /\ ListedSound(inbox, posts, ServerList(verdicts, inbox.status))
  /\ CountedSound(inbox, posts, ServerTally(verdicts))
  /\ TextSound(inbox, posts, wording)
  /\ CopyKnown(folder, posts)
  /\ CopySound(folder, verdicts) \/ Leaving
  /\ FolderPlaced(folder, shown)

(***************************************************************************)
(* The editors.  What a draft, a copy or a request carries is keyed; the       *)
(* pictures by what the list of the materials is known to hold.                *)
(***************************************************************************)
AnyBank == UNION {[S -> Question] : S \in SUBSET (1..MaxIds)}
AnyDraft == {<<>>} \cup {<<d>> : d \in Drafts}
Stocks == {"never", "stored", "deleted"}
AnyEditor == [open: BOOLEAN, view: AnyBank, sel: 0..MaxIds, draft: AnyDraft, form: BOOLEAN,
              field: BOOLEAN, known: BOOLEAN, lapse: BOOLEAN, panel: 0..4]
AnyPhone == [open: BOOLEAN, q: 1..MaxIds, view: Question, draft: AnyDraft]
AnyWas == [bank: AnyBank, stored: Stocks]
AskKinds == {"list", "save", "propose", "add", "delete", "reload", "upload", "discard", "load"}
Thens == {"nothing", "insert", "redraw", "reload"}
Reading == {"reload", "load"}
AnyAsk == [id: 1..MaxAsks, narrow: BOOLEAN, to: 0..4, q: 0..MaxIds, new: Question,
           kind: AskKinds, then: Thens, was: AnyWas]

\* At most one option is correct; one is; one is, unless the question came without.
OneKey(o) == \A i, j \in DOMAIN o : o[i] /\ o[j] => i = j
Sure(o) == OneKey(o) /\ \E i \in DOMAIN o : o[i]
KeyFor(q, o) == OneKey(o) /\ (q \notin Unkeyed => \E i \in DOMAIN o : o[i])
BankKeyed(b) == \A q \in DOMAIN b : KeyFor(q, b[q].options)

\* Without a material nothing has a picture.
Plain(b) == \A q \in DOMAIN b : b[q].pic = "none"
Tokened(d) == d # <<>> /\ d[1].token

\* A picture without its file is excused, or its material was deleted.
BankFine(b, stock, ex) ==
  /\ BankKeyed(b)
  /\ stock = "never" => Plain(b)
  /\ \A q \in DOMAIN b : b[q].pic = "raw" => q \in ex \/ stock = "deleted"

AskSound(a, stock, ex) ==
  /\ BankKeyed(a.was.bank)
  /\ a.narrow => a.kind \in {"load", "save", "upload"}
  /\ a.kind = "load" => a.narrow
  /\ a.kind = "save" => /\ KeyFor(a.q, a.new.options)
                        /\ a.new.pic = "raw" => a.q \in ex \/ stock = "deleted"
  /\ a.kind = "add" => Sure(a.new.options) /\ a.new.pic = "none"
  /\ a.was.stored = "deleted" => stock = "deleted"
  /\ stock = "never" => Plain(a.was.bank) /\ a.new.pic = "none" /\ a.was.stored = "never"
  /\ a.kind = "list" /\ a.then = "insert" => a.was.stored # "never"

Mentions(e) == ~Plain(e.view) \/ e.field \/ Tokened(e.draft)

DeskSound(e, stock) ==
  /\ BankKeyed(e.view)
  /\ e.draft # <<>> => Sure(e.draft[1].options)
  /\ stock = "never" => ~Mentions(e)

PhoneSound(p, stock) ==
  /\ KeyFor(p.q, p.view.options)
  /\ p.draft # <<>> => KeyFor(p.q, p.draft[1].options)
  /\ stock = "never" => p.view.pic = "none" /\ ~Tokened(p.draft)

\* Unless a list failed or two crossed: one list at most is under way for the open editor, one
\* that was read too early belongs to an editor without pictures, and what has a picture knows
\* the material or will.
ListsAsked(as) == {a \in as : a.kind = "list" /\ a.to >= 2}
ListKnown(e, as, stock) ==
  ~e.lapse /\ stock # "deleted" =>
    /\ \A a, b \in ListsAsked(as) : a = b
    /\ \A a \in ListsAsked(as) : a.was.stored = "never" => ~Mentions(e) /\ ~e.known
    /\ Mentions(e) => e.known \/ ListsAsked(as) # {}

EditorFull ==
  /\ bank \in AnyBank /\ stored \in Stocks /\ editor \in AnyEditor /\ phone \in AnyPhone
  /\ asks \subseteq AnyAsk

EditorInv ==
  /\ EditorFull
  /\ BankFine(bank, stored, excused)
  /\ \A a \in asks : AskSound(a, stored, excused)
  /\ DeskSound(editor, stored)
  /\ PhoneSound(phone, stored)
  /\ ListKnown(editor, asks, stored)
=============================================================================
