# Verification of the test platform

TLA+ models of the server (`src/api`, FastAPI and SQLAlchemy on PostgreSQL) and of
the browser client (`src/static/js`: the router, what floats above the screens, and
the screens that take, import, edit, list, decide and share), checked with TLC on
small instances and, for the core, proved with TLAPS for every instance.

Contents: 1 inventory, 2 modules, 3 runs and bounds, 4 fairness, 5 proofs,
6 what the code says and does not do, 7 simplifications, 8 plan.

## 1. Inventory

| Component | State | Operations | What makes it hard |
| --- | --- | --- | --- |
| Attempts (`attempt_service.py`, `routes/attempts.py`, `api/attempts.js`) | tables `attempts`, `attempt_answers`, `question_performance` | start, answer, finish, abandon, nightly sweep | the screen sends every request without awaiting the last one and may hand in again; start and finish are two commits each; a flush writes only the columns that changed |
| Question bank (`questions_service.py`, `routes/questions.py`) | table `questions`: payload with an integer id, `order_index` | add, edit, delete, replace_all | ids and positions are read in one statement and written in another; PATCH is read-merge-write |
| Change requests (`change_request_service.py`) | table `change_requests`, one lock per test and process | propose, approve, reject | the status is checked before the lock; the change and the status are two commits |
| Access control (`access_service.py`, `routes/access.py`) | access level, shares, access requests | set level, share, unshare, ask, decide, list | check-then-insert; a unique key over (test, requester, status); two implementations of the reading rule |
| Login sessions (`auth_service.py`, `dependencies/auth.py`, `_fetch.js`, `api/auth.js`) | table `sessions`, refresh cookie, access token per tab | login, refresh, logout, authorised call | rotation is two commits; tabs share a cookie and not the token; answers cross a logout |
| Docx import (`import_service.py`, `routes/tests.py`) | table `import_jobs`, `test_collections`, object store | upload, create, delete, recovery at start | six commits and N object writes with failure between any two; deletion during the import; restarts |
| Mail outbox (`mail/service.py`, `cleanup_service.py`) | table `outgoing_emails` | send, retry worker | row before delivery, mark after; several workers |
| Password reset (`password_reset_service.py`) | table of tokens | issue, consume, reset | consume and reset are two commits |
| Connection pool and event loop (`database.py`) | 20 + 10 connections, one loop, a thread pool | checkout, release | connections held over a request; a second one asked for under a lock |
| Router and shell (`router.js`, `main.js`, `app-shell.js`, palette, cheatsheet, dialog, toast, banner) | address, token of the current route, root element, overlays | navigate, mount, follow the breakpoint, locale and sign-in | modules arrive late; writing the same hash fires no event; timers outlive what they belong to |
| Taking screens (`desktop/taking.js`, `mobile/taking.js`) | attempt, paper, index, clocks, picks | begin, click, next, jump, hand in, review | answers, timers and the hand-in overlap; the session storage passes settings and results between screens |
| Pre-test and result screens (`pre-test.js`, `results.js`, `per-question.js`, two of each) | form, mistakes, flags | choose, start, look back, take the mistakes again | controls promote each other; loads of two results overlap |
| Import wizard (`desktop/import.js`, `mobile/import.js`) | step, file, job, test made | upload, create, cancel, confirm | one module state for two flows, whose answers come in any order |
| Question editors (`question-editor.js`, `mobile/question.js`, `materials-panel.js`) | draft, options, materials | edit, mark, save, propose, insert a picture | the draft lives through answers to other requests; pictures resolve by a list that is loaded beside it |
| Home, settings (`home.js`, `edit-collection.js`, two of each) | lists per filter, pane, access chips, form | page, filter, select, rename, set the level | pages append to what is there; what the settings show was loaded earlier; title and level are two requests |
| Change request and sharing pages (`change-requests.js`, two; `home.js`, `mobile/collection.js`) | list by status, counts, copy of the phone, Access tab | filter, decide, invite, remove, grant | loads overlap with each other and with decisions |
| Profile, statistics, notifications, sign-in screens | what was fetched | one request per button | — |
| Statistics, notifications, activity, storage, extraction, search, scripts, assets | — | reads, best-effort writes, I/O, parsing | nothing decides on them |

How they interact: the router mounts one screen at a time, and what a screen started
may end after the user left it; the pre-test hands settings to the taking screen and
that one its result to the result screens through the session storage; the taking
screen calls the attempt handlers; the approval of a
change request runs the bank operations in its worker; access control guards the
routes of all other parts; the fetch wrapper and `get_current_user` stand in front of every call; an
import creates the collection that access control guards and the questions that the
bank edits; deletion of a test removes rows by cascade and objects by prefix. The
handlers are synchronous functions in a thread pool, so any two of them interleave
at their commits, and a deployment may run several processes (`Procfile` uses
gunicorn with uvicorn workers, the `Dockerfile` one process).

What makes each part correct:

- *Attempts*: a verdict belongs to the answer beside it, the tally is the tally of
  what the user picked, aggregates count an answer once for each hand-in, an answer is never lost.
- *Bank*: an id finds one question, a PATCH keeps what it does not carry, the order
  of the paper survives.
- *Change requests*: approved means applied, once, if a question is named; rejected means
  not applied; a decision stands; every review is answered.
- *Access*: the listing shows what may be opened; an approval shares; one request is
  pending; a decision stands.
- *Sessions*: one live session per login, dead ones stay dead, every call settles,
  a logout holds.
- *Import*: a test has its materials, done means complete, the cap holds, decided
  jobs stay decided, the store follows the tests.
- *Router and shell*: what is mounted is what the address names; being offline is said.
- *Taking a test*: what is graded is what was picked, timers end with their attempt, a
  mode keeps what it promises, an exam never goes back, a finished attempt has a result.
- *Other screens*: what the page shows agrees with the server, the job or the draft once
  everything is answered.

`PROJECT.json` lists each component with its files and status, every modelled
definition with its source lines, and under `hazards` each thing in the code that is
hard to test, with the properties that cover it.

## 2. Modules

A handler is cut at the points where others see or change its data: its commits, and
its reads whose result is used after another statement. PostgreSQL runs READ
COMMITTED, so a statement sees everything that was committed before it. All
histories (variables that no code reads) are named as such.

**Attempts** — one attempt of one user. `screen` is the browser, with the setting that
locks answers; `start`, `calls` (one per click), `finish` (one per hand-in) and
`abandon` are the requests with what they loaded; `attempt`, `rows` and `perf` are the
tables, and `edition` counts the owner's edits of the marked options: `Banks` gives, for
each edition, the option marked in each question, or None where none is or the question
is gone. A snapshot takes the marks that the paper was loaded with; the safety net of
finish looks in the table as it is by then (`FinishLookup`), and leaves an answer
without a verdict if it finds nothing. `Written` is the ORM flush: it writes
the columns whose value differs from the loaded one, which is why two overlapping
answers can mix. A conflict on the unique key (attempt, question) makes an insert
fail as a whole (`StartConflict`, `AnswerConflict`). `Fail` ends any request between
two commits. `FinishUp` stands for the button and for the timers. It has no guard, as in the
code: an interval that lost its handle hands in at every second at zero (`taking.js:334-349`),
and neither `finish_attempt` nor the upsert looks whether the attempt is finished.

**QuestionBank** — the rows of one test with primary key `uid`, payload `id`,
`index` (order_index), heap place `tid` and body; each request (`writer`) is add,
edit or delete, cut at its statements. The shift of a delete visits rows in index or
in heap order, and the unique index is checked row by row (`Collides`). It has no
specification of its own: it is composed into

**ChangeRequests** (EXTENDS QuestionBank) — reviews are writers that hold the
per-test lock of their process; other writers are the owner's direct requests.
`Load`, `Apply`, `ApplyStep`, `Unlock`, `Approve`, `Reject` follow
`approve_change_request`, `_apply_change_request` and `reject_change_request`; the
status is looked at in `Load`, outside the lock, as in the code. A request to edit or
delete may name no question (`Asked`): `question_id` is optional and nothing checks it, so
the review takes the lock, leaves the bank alone and approves
(`change_request_service.py:339-346`).

**AccessControl** — one test, its level, shares and access requests; server threads
(`handler`) serve ask, decide and share, each cut at its commits. `CanView` and
`Listed` are the two implementations of the reading rule.

**Sessions** — one user, one browser, several tabs. `session[i]` is the login that
row i descends from, or 0 for an inactive row; a row number is used again when no
token of it is held, so behaviours are unbounded. `Atomic` says that one process
serves refresh and logout, whose coroutines have no await.

**ImportJobs** — the tests of one owner: uploads, empty tests, deletions, the object
store, the end of the process and `recover_stale_jobs`. A request and the test it
makes share a name. `Drained` ends the mirror after all PUTs, as the thread pool
does. `Rolling` lets a second process start beside a running one.

The client. A screen's module has the state of its JavaScript module and one action
per control, timer or answer; requests under way are records in a set, whose answers
come in any order. `own` or `fresh` says whether the page that sent a request is still
there, that is, what the code compares its captured token with, where it does. The
server is as much of it as the page can tell apart. Where the code is known to go
wrong (section 6) a history variable named `doubt`, `crossed`, `excused` or `unsure`
records that it happened, and the property speaks of the other behaviours; a page that
is opened again starts without doubt, unless a save is under way while it is loaded.

**Router** — `hash`, `page`, `imports` and what is mounted; `shown` differs from
`mounted` when a screen paints late. `TakeRoute` is `handleRoute`. **Overlays** adds
palette, cheatsheet, chords, banner, dialog and one toast.

**Paper** is what the screens of one test share: the paper of an attempt, the orders in
which options may come, and the session storage. **TakingScreen** is the desktop's screen
with its modal, clock, automatic advance and review, **MobileTaking** the phone's. The two
shuffle options in different ways. The desktop draws the order of a question when it is
first painted and keeps it in `_shuffleCache` (`order`), which a new attempt does not clear
and every later painting, lookup and the index sent go by; so each action that paints may
draw. The phone shuffles all options when an attempt begins, stamps each with its place in
the test, and sorts by the stamps what it sends to the server (`OptionsSent`). An answer
holds the place of the click, the index sent and the verdict shown.
**PretestScreens** and **ResultScreens** are those before and after. **Flow** composes
them with the router (two instances of the state `s`, `desk` and `phone`).
**AnswerSheet** is the abstract promise of a taking screen: an attempt is begun, its
answers are filled in and, where they are locked, never changed, and the sheet is put
away. `SheetsKept` of Flow says that each of the two screens implements it (INSTANCE
AnswerSheet WITH attempt, last, locked and sheet taken from the screen).

**ImportScreens**, **QuestionEditors**, **CollectionScreens**, **InboxScreens** and
**PeopleScreens** are the other rows of the table: the wizard of both breakpoints; the
desktop's editor and the phone's question screen; home lists, access chips and the
settings form; the owner's change requests; who can read a test. The settings are shown
from a test that was loaded earlier, with the detail pane or when the edit screen was
rendered, so that load is a request of its own (`Asking`): its answer is what the server
had when it was asked or has by now, and the tab of the chips is painted from it however
long ago that was (`home.js:360, 883`). The tab may be left and opened again while a level
is being saved; what is taken back is then painted on chips that are gone. **Screens** composes
them with the overlays and the router: `Opens` starts the screen that the router
mounts, `Route` leaves what was on screen. A constant of Flow and of Screens, `Tours`,
says what one behaviour visits; a tour of Screens is a set of pages, breakpoints and parts, and
one of Flow names the pages that the user asks for, those that only the screens lead to, the
handoff that is found, and how many attempts are begun.

`AttemptsProofs`, `ChangeRequestsProofs`, `AccessControlProofs`, `ServerProofs` (Sessions
and ImportJobs), `RouterProofs`, `FlowProofs`, `ScreensProofs` and `EditorProofs` (the
question editors, on top of ScreensProofs) hold the theorems, and `ScreensInvariants` the
inductive invariants of the screens. The definitions of ImportJobs that ServerProofs needs
beside those of Sessions carry the prefix Jobs (`JobsSpec`, `JobsTypeOK`). `MCAttempts`,
`MCChangeRequests`, `MCAccessControl`, `MCSessions`, `MCImportJobs`, `MCFlow` and
`MCScreens` name the instances.

## 3. Runs and bounds

| Run | Instance | Shows |
| --- | --- | --- |
| Attempts | 2 questions, 2 options, 2 clicks, 2 hand-ins, of which 1 may follow an abandon, 1 edit by the owner; answers locked or not | verdicts, tally and aggregates are sound under every interleaving and however often the attempt is handed in; an answer stays ungraded only if no key was to be found; no answer is erased |
| AttemptsTorn | the same with 3 options, 3 clicks, 1 hand-in | *violation*: a verdict beside the answer of another request |
| CrReviews | 3 reviews, 5 requests of which one names no question, 2 questions, 1 process, 1 death | under the lock the races of the bank do not happen; with an owner who waits the bank follows the decisions |
| CrWithOwner | 2 reviews, 1 direct request, 4 proposals of which one names no question, 1 death, fair | approved means applied, or nothing asked; the order of the paper is kept; every review is answered |
| CrTwice | 2 reviews of 1 request | *violation*: the change goes in twice |
| AccessDecisions | 2 readers, 2 threads, 3 request rows | listing and guard agree, one pending request, approvals share, decisions stand |
| SessionsOneProcess | 2 tabs, calls from one, 3 sessions held at once, fair | one live session per login, dead ones stay dead, calls wait for one refresh and settle |
| SessionsLogout | 1 tab | *violation*: a refresh answered after the logout signs the browser in again |
| ImportJobs | 2 uploads of 2 materials, 1 empty test, cap 1, 1 crash | materials, completeness, quota, finality, a clean store |
| Flow | 2 questions of 3 options, one of them without a right one, 2 orders to draw, 2 attempts, 2 ticks of the clock, 13 tours | clicks are graded as picked, timers end with their attempt, handoffs keep the promises of their mode, an exam never goes back, no finished attempt is stranded, the screens are answer sheets |
| FlowExam | the pre-test of the desktop alone | *violation*: an exam is handed over that the server's rule for its settings refuses |
| Screens | 2 requests of each kind under way, 2 tests, questions, titles, rows, change requests; 1 reader; 18 tours | what is mounted, offline banner, wizard, key and pictures of a draft, lists, settings, change requests and sharing agree with the rest of the system |

Why the bounds are enough. Every race of these handlers is one of two requests on one
row: two clicks on one question, two reviews of one request, two threads on one
reader. Two hand-ins and two clicks allow a change of an answer and both hand-ins to be
in flight together, with the owner's edit between their looks for a key: in the first
edition one question has a mark and the other none, in the second the mark has moved and
the other question has one. Two wrong options and a third click are needed to see a torn
verdict; a third review is needed for an
addition, an edit and a deletion to queue for one lock. Two questions make an order
and a shift. Three sessions are the old, the rotated and one of a second login. With
two materials one PUT can fail beside one that succeeds, and with a cap of 1 the
third request meets it. One crash is enough to reach each "died here" state; a second
one starts from a state that the first reaches too. Proofs remove the bounds where
section 5 says so.

In the client, the races are of two requests of one page, of one request and its page
being left or opened again, and of one late page and another; so two requests, two
imports and one page to go to suffice, and one behaviour works with one part of the
client at a time (a tour). Pages that are left have "stats" to go to; the phone's change
requests have an address that no module answers, so that the route can fail as well; who
can read a test is seen with both breakpoints in one tour. The parts of Screens do not share state but for the router,
whose part is proved for all of them together (`ScreensFollowRouter`); those of Flow
share the session storage, and what the run checks of them is proved for all tours
(`FlowProofs`). Three options are the fewest with an order that is not its own inverse (turned by one
place), so that a place taken for an option shows; the other order drawn exchanges two. Of the settings, the test is
the first of the user's own, and only its row makes the pane show it; the desktop's and the phone's
variant of a screen are in one tour where they share a module. One reader is enough to
be invited, removed and let in at once; two change requests are one edit and one
addition.

Deadlock checking is off in every run: the users stop clicking, so the system may
rest in any state where all requests are answered.

Each property of a passing run has a mutant in `PROJECT.json`: a change of one
definition that a plausible bug would make and that violates the property. The
mutated operators stand before the definition they replace, marked `Mutant`.

## 4. Fairness

Only server threads and timers of the client library are fair, never a user.

- `ChangeRequests!FairSpec`: each review that can take a step takes it (a thread of
  a running pool). The lock is a `threading.Lock`, without a queue; weak fairness of
  a review is enough in this instance because another holder cannot take the lock
  for ever when there are finitely many reviews.
- `Sessions!FairSpec`: a call or refresh that was sent is answered or fails (fetch
  resolves or rejects), and the retry loop of `apiFetch` runs. Logins, logouts,
  expiry and new calls are not fair.

The client modules state no fairness: users and networks may stop. Liveness is
model-checked only.

## 5. Proofs

All for every value of the constants, from the `ASSUME`s of each module (finite sets,
disjoint names, natural bounds).

- **Attempts.** `TypeCorrect`; `AnswersSurvive` needs only types and that a sent call
  carries a question and an option. The rest rests on three inductive invariants, for any
  number of clicks, hand-ins and edits and for either setting of the screen.
  `GInv` holds whether or not answers lock: what any row is (`Sane`: a row without a
  snapshot was made by an answer), how the row that a hand-in loaded relates to the row by
  now (`Leads`), that nothing changes any more after a hand-in that found nothing under way
  (`GStill`), what the hand-ins that committed found (`GGraded`), and that the stored tally
  and the aggregates are those of the rows (`GTally`, `GPerf`). `GradesComplete` follows.
  `LInv` adds what holds when the screen shows answers at once: one call per question, which
  writes what the screen shows (`LPicks`, `LCalls`), so each row is one of a few shapes
  whoever writes it, also when two hand-ins found different keys (`LRows`: they differ in the
  columns that are written together). `VerdictSound`, `TallySound` and `AggregatesSound`
  follow; they no longer assume the setting, because their properties name it
  (`screen.show`). `TallyInPaper` needs `CInv`: before a hand-in commits, `question_count` is
  0 or right, and afterwards it covers the answers that were counted.
- **ChangeRequests.** `ApprovedSound` by `AppliedInv`: between the end of the bank
  operation and the write of the status the change counts already as applied, and a review
  that holds the lock works on the bank unless its request names no question.
  `DecisionsStand` by `LoneInv`: while the owner waits, one review is under way and
  its request is pending. `BankFollows` by `OnceInv`, which adds that an applied and
  still pending request belongs to that review.
- **The bank** (second half of `ChangeRequestsProofs`). `BankSound` is what holds whoever
  overlaps: types, a finite table, one row per primary key and per place, and a request
  whose question is in the table has ended. `TypeCorrect` adds who holds the lock
  (`DeskSound`). `OrderStands` needs no lock: a delete that shifts from a place that is no
  longer that of its row would swap two rows only if one were at that place and one
  behind it, and there it collides (`DeletedRows`). `NumbersSound` and `EditsSound` assume
  `OneQueue` (every writer is a review of one process; without it both fail, section 6)
  and use `QueueInv`: one request works at a time, and what it read is still so
  (`UpToDate`): a number that nobody has, a place behind the last, the body in the row.
  Maxima exist because subsets of a finite set are well-founded (`MaxExists`), and
  `Compact` follows because places without gaps are in bijection with the rows.
- **ImportJobs** (second half of `ServerProofs`). `JobsTypeCorrect`. `MaterialsThere` by `MaterialsInv`: a request that
  is past the mirror has all its objects, one before its row has no row, and
  deletion drops objects only after the row. `DoneSound` by `DoneInv`: a request
  about to link has a full row or a deleted one, and only an answered request has a
  done job. `QuotaHolds` by `QuotaInv`: while nobody overlapped, one request is
  under way and there is room for the row it has not made yet; cardinalities come
  from the finite-set theorems. `JobsStand` assumes `~Rolling` and uses `JobInv`:
  recovery runs only while no request does, and each pc fixes the status of its job.
  `StoreClean` by `CleanInv`: without a mishap the mirror is complete when it ends and
  a deletion takes the objects along.
- **AccessControl.** `PendingSound` (no reader has two pending requests although two
  handlers both found none), `ApprovedSound` and `DecisionsStand` follow from one
  invariant: a working thread has a reader and a deciding one a request of that reader
  (`Shaped`), no reader has two pending rows (`RowsSound`), the share precedes the
  status (`SharedFirst`), and unless decisions overlapped there is at most one under
  way, on a pending request (`OneDecision`). `ListingSound` needs only the types.
- **Sessions.** `OneSessionLives` assumes one server process (`Atomic`): then one
  rotation runs at a time (`OneRotation`), it holds the live row of its login until
  the first commit, and between its commits nothing of that login lives
  (`RotationHeld`). `DeadAreDead` (a fresh row is one that nobody holds a token of) and
  `NobodyWaitsInVain` need only the types and hold with several processes.
- **Router.** `RouterTypeCorrect`, and `RouteSound` by `RouterInv`: an import that will
  be mounted is of the current page (`OfPage`), without an event on its way the page is
  that of the address (`Addressed`), and with nothing on its way it is mounted
  (`Arrived`).
- **Screens.** `ScreensFollowRouter`: the composition implements the router's
  specification (`ScreensSpec => RouterSpec`). A component leaves the router alone,
  sends the user elsewhere or paints (`Placed` of `RouterProofs`), one lemma per component;
  `Wander` and `Repaint` of the router allow these. `ScreensRouteSound` is `RouteSound` carried over by that
  refinement. `OfflineSound` by `Announced`: no flash timer runs while offline. Then
  what the pages show, for any number of requests under way, of tests, titles, change
  requests and readers, and any tours:
  - `WizardSound` by `WizardInv`: the two wizards, whose calls are told apart by number,
    never work for one test (`Apart`), and one that did not cross shows what its own call
    explains (`Straight`).
  - `ListsSound` by `ListsInv`: at most one first page or next page of a list is under way,
    and a next page goes on where the rows end, in the filter of the rows.
  - `SettingsSound` by `SettingsInv`: chips and form are live only on their own screen or
    under a late rendering of the phone (`PlacesInv`), which is why what is left open is closed
    by the next screen. While a test is being loaded and no save was under way since, the
    server still has what it had when the load was sent (`LoadsSound`), so chips and forms
    begin with the truth however late they are painted; and what they show beyond what the
    server has is explained by one press or by one of the two requests of a save
    (`ChipsSound`, `SetupSound`). Steps of other parts send only requests that bear on none
    of this (`Harmless`). The one paint that comes late and opens something is the phone's edit
    screen (`Strayed` for the other parts, which may send the user elsewhere and paint no
    settings).
  - `OwnerPagesSound` by `PeopleInv` and `InboxInv`. While a list of readers is asked for,
    the card is empty, else it is the server's, unless a request of an earlier visit is
    under way (`ReadersSound`, `AskersSound`). Of the change requests one page is open and
    the requests of a page are its own (`OnePage`), one list at most is under way and of
    the chosen status (`ListedSound`, `CountedSound`), and the phone's copy agrees with the
    server or the router is about to take the user away (`CopySound`, `Leaving`).
  - `KeySound` and `PicturesSound` (in `EditorProofs`) by `EditorInv`: whatever the copy of the desktop, the draft
    of the phone or a request carries has at most one correct option, and one if its question
    had (`BankKeyed`, `KeyFor`, `Sure`); as long as there is no material nothing mentions an image
    (`Plain`, `Mentions`); and unless a list failed or two lists crossed, one list at most is
    under way for the open editor, and an editor that mentions an image knows the material
    or a list that has it is on its way (`ListKnown`).
- **Flow.** All that the run checks, for any test, number of attempts, renderings and
  ticks, and any tours. `FlowInv` is the conjunction of `RouterInv`, of what the session
  storage and the pre-test's form hold (`StorageSound`, `FormSound`, `KeptSound`) and,
  for each taking screen, of `ScreenInv`: on the desktop, a shuffled question that has an
  answer has an order, and what was sent is what that order has at the place of the click;
  on the phone, the stamps are a permutation, so that sorting by them and sending a stamp
  undo each other, and without stamps both are the identity (`Graded`); while
  no rendering overtook another one, one load at most is under way and a clock has its
  attempt (`Unhurried`); an armed advance has a question to go to (`OnPaper`); the number
  of the attempt in hand was given out (`Numbered`); a user who handed in has a hand-in
  under way or a result (`Settled`). The two screens share few lines of code and do the
  same things, so each action of either is first shown to be one of the `Moved` (opened,
  began, turned, picked, walked, ticked, handed in, returned), whatever orders a painting draws, and the invariant, the
  action property and the refinement are proved of `Moved` once. `GradedSound`,
  `TimersSound`, `HandoversSound` and `NobodyStranded` follow from the invariant.
  `ExamStaysForward` needs `Numbered`: an index may go down only with a new attempt, and
  only numbers tell a new one apart. `SheetsImplement` maps each `Moved` to a step of
  AnswerSheet or a stutter, and an attempt begun on the other screen to `BegunElsewhere`.
  `HandoversSound` needs that a preset of minutes exists nearest to what was typed
  (`NearestPreset`), which comes from the well-founded order of the naturals (`LeastNumber`).
  `FlowFollowsRouter` is the refinement of the router, as for Screens. The tours may put
  a handoff into the storage only if it keeps the promises of its mode
  (`ToursAssumption`), because nothing but these screens writes there.

Not proved: liveness and what rests on fairness, out of reach of the prover, so those
properties stay with TLC. The type invariants of the modules (`...TypeOK`) are theorems for
Attempts, ChangeRequests, AccessControl, Sessions, ImportJobs and the router; of the others
the proofs use and prove the parts they need, and the whole holds in the same instances.

What a failed proof showed about the model, since mended: two CASEs had arms that
overlap, so that what they choose was not determined (they are IF chains now); the
breakpoint never changed in the compositions, because `~mobile \in views` is
`~(mobile \in views)`; the phone's change requests are not to be held to the server's while
a hash change or an import is on its way (`AtRest`); and the picker that is painted late
on the phone takes the place of an open list.

## 6. What the code says and does not do

Four statements of the code have a run that TLC finds violated: AttemptsTorn
(`attempt_service.py:230`), CrTwice (`change_request_service.py:329`),
SessionsLogout (`routes/auth.py:291-292`) and FlowExam (`attempt_service.py:14-17`); see `findings` in `PROJECT.json`.

The following are stated in the modules too and fail in the same way. To see one,
take the configuration, change what the third column says and check the property.

| Property (module) | Statement in the code | Configuration |
| --- | --- | --- |
| BackfillOnlyWithoutSnapshot (Attempts) | `attempt_service.py:340-343` "Safety net" | Attempts with MaxClicks 1. finish reads before start commits and writes its smaller count over it |
| AggregatedOnce (Attempts) | `models/db/question_performance.py:15-17`, `scripts/repair_attempt_correctness.py:19-20` "all COMPLETED attempts" | Attempts. The second hand-in of one attempt adds its answers again |
| Numbered (QuestionBank) | `questions_service.py:75` | CrWithOwner with Spec, Writers = {v1, v2, v3}, Reviews = CRs = {}, Home <- NoReviews, Seed = 2. Two direct adds take one id |
| BankEdits (QuestionBank) | `routes/questions.py:37-39` | the same. Two direct edits; or CrReviews with Processes = {p1, p2}, Home <- TwoProcesses |
| IdNamesOneQuestion (QuestionBank) | `models/db/question.py:11-12` "survive renumbering" | the same with Seed = 1. Delete the last question, add one |
| LoneDeleteSucceeds (QuestionBank) | `questions_service.py:216-218` | the same with Seed = 3. An edit moved a row version, and the shift visits the heap in order |
| DecisionFinal without waiting (ChangeRequests) | "Change request is not pending" | CrReviews with the property freed of `~overlapped'`: a rejection overwrites an approval |
| DecisionNotRefused (AccessControl) | `models/db/access_request.py:49-51`, `routes/access.py:343` | AccessDecisions. The second rejection of one reader meets the unique key |
| OneLiveSession (Sessions) | `auth_service.py:231-232` | SessionsOneProcess with Atomic = FALSE |
| RefusalClearsCookie (Sessions) | `routes/auth.py:343, 355` | SessionsOneProcess. The cookie is cleared on a response that the exception replaces |
| UploadSettles (ImportJobs) | `routes/tests.py:401-402` "straight to `done` on success or `failed`" | ImportJobs. The PUT of the source fails outside the try block, the job stays pending, and recovery looks at processing jobs only |
| JobFinal with a second process (ImportJobs) | `import_service.py:110-111` "left alone" | ImportJobs with Rolling = TRUE. A slow import overwrites the verdict of the recovery |

A request that asks for an edit or a deletion and names no question is approved and
changes nothing (`change_request_service.py:339-346`; `question_id` is optional in
`models/change_request.py:34`): `ApprovedWasApplied` says so, and speaks of the other
requests where it says that approved means applied. A question with no marked option, or
one deleted before the hand-in, leaves an answer that is counted as answered and has no
verdict: `NothingUngraded` allows exactly that. Two threads may pass the cap of tests
together (`routes/tests.py:57`), so `QuotaKept` speaks of owners who make one at a time.

In the client, the following was met while modelling. The modules do what the code
does; where it breaks a property, the history variables of section 2 set those
behaviours apart.

- *Callbacks that nobody reads.* `components/confirm-dialog.js` returns a promise and
  knows no `onConfirm`; the phone's screens pass one, so confirming the deletion of a
  question (`mobile/question.js:233`), of a material (`:601`) or of a test
  (`mobile/edit-collection.js:181`), the sign-out (`mobile/profile.js:379`) or the
  rejection of a change request (`mobile/change-requests.js:189, 480`) does nothing.
- *Late paints.* "screens compare against their captured value to abort stale renders"
  (`router.js:39`), but several do not after their last await: taking, results, the
  phone's pre-test, home, question, test page (`mobile/collection.js:684-688`) and
  picker of change requests, and the register screen paint over the next page. The
  catch of the 404 import paints although it is stale (`router.js:325`).
- *Taking a test.* Settings survive on the desktop, so the modal can disclose answers in
  an exam; the snapshot of a hand-in is torn when the screen is rendered again
  meanwhile; Next and jumps do not clear the advance timer; overlapping renders leak an
  interval; every leaked interval hands in
  again at each second at zero, also after the user has left (`taking.js:334-349, 653`); the
  phone hands in at the end of a limit described as "без авто-сдачи"
  (`mobile/pre-test.js:211`) and has flags in an exam described as "без флагов"; its
  handoff is not used up (a mistake review of the desktop that is still stored is restored
  by the phone's pre-test with its mode and name and without its filter,
  `mobile/pre-test.js:161-174, 491`, so it asks everything: `MistakesOnly` speaks of
  handoffs that name the attempt whose mistakes they repeat, the field `retake`), its "only
  mistakes" is read by nobody and its source "flag"
  filters nothing; `forwardOnly` is not read on the desktop.
- *Results.* Key handlers of the question screens survive leaving; the phone caches a
  failed list of flags; the desktop's question screen (`desktop/per-question.js:274`) and
  review (`taking.js:761`) read `optionIdx` of a result that the phone has kept as a place in
  the test, which for the phone is the place on its screen (`mobile/per-question.js:119-128`).
- *Server against screen.* The server takes an exam only with shuffled questions, without
  answers shown and with at most one minute a question, and a timed attempt with at most two
  (`attempt_service.py:37-91`). The pre-test of the desktop hands over an exam of weak
  questions unshuffled, weakest first, although the form says that an exam is always shuffled
  (`pre-test.js:566`), and exams and timed attempts with more minutes than that. Such a start
  is refused, the screen only logs it (`taking.js:326`), and nothing of the attempt is
  stored. `KeepsMode` asks of an exam that nothing is revealed and that it is shuffled unless
  it is of the weak questions, and of weak questions their order only outside an exam;
  `ExamAccepted` is the server's rule, and FlowExam shows an exam that breaks it. The phone
  sends no mode with a start, so its starts are never held to the rule.
- *Import wizard.* Toggling to import while a test is created leaves "progress" for
  ever; a late answer to a cancel resets the next wizard; confirming is possible while
  the deletion is pending; an upload goes by XHR and does not refresh the token
  (`api/tests.js:75`).
- *Editors.* A save before the list of materials has come writes images without their
  file; a panel upload rebuilds the form under a following insertion; a saved edit drops
  a draft begun meanwhile on another question; the phone's save turns images and
  formulas into text, its proposal sends `type` for `request_type`
  (`api/models/change_request.py:30-35`) and is always refused, and `new=1` fails to
  render.
- *Home and settings.* A filter chosen while a page is under way gets rows of the old
  one; a late detail replaces a newer one (`home.js:349-367`); quick presses of the
  access chips can end on the wrong level; a level that is refused after the tab was left and
  opened again stays on show, because what is taken back is painted on chips that are gone
  (`home.js:912-924`); a test that is loaded while its level or title is being saved shows the
  one of before for as long as the pane or the screen stays; title saved and level
  refused, then the title typed back, reads as saved; edits typed during a save count as
  saved.
- *Change requests and sharing.* Crossing presses of the status chips show the list of
  the wrong status; a failed list is shown as empty; the "before" side is that of the
  page's opening (`desktop/change-requests.js:15-16` calls it the current text); `?status=`
  sets the chip and not the list; approving a request for access does not show the new
  reader; overlapping reloads show two lists.
- "changes are saved locally and synced" (`components/offline-banner.js:63`): nothing is.

## 7. Simplifications

- Data: texts, options and payload keys are small sets; a verdict is yes, no or
  unknown; who wrote a field stands for its value.
- Attempts: settings are fixed for an attempt; hand-ins after an abandon are one of the
  first MaxAfter; the clock (elapsed, pauses) is left
  out; the sweep happens when no request can still be running, 90 days later.
- QuestionBank: ids in the test are integers; flags, title and description are
  left out.
- ChangeRequests: proposals are made by a reader who may see the test; the rate
  limit and the request that edits title and description are left out (the latter touches no row of the bank). `Die` covers
  failing commits, pool timeouts and the end of one handler.
- AccessControl: one test with a fixed owner; notifications are left out.
- Sessions: the 30-day expiry of the refresh token is left out; both updates of a
  logout are one action; extension of a row is an action of its own also in one
  process, because `get_current_user` commits in it before the handler goes on.
- ImportJobs: extraction succeeds or fails; names of materials are valid; the
  ten minutes of `recover_stale_jobs` are a choice (any subset of the processing
  jobs is old enough); the materials that the editor uploads are left out.

- Router and shell: parameters of an address are the business of its screen; "/tests"
  and "/collection/:id" mount home on the desktop and are not opened there; breadcrumbs
  and menus are layout; concurrent changes of the locale are left out.
- Taking a test: the flag button of the taking screens and the search of the rail are
  left out, as are diagrams and comments of the results.
- Import and editors: formulas are text; the list of the edit screens is there at once;
  of several materials one is followed.
- Home, settings, pages of a test: deletion from the list, the phone's chips on the page
  of a test (they are shown after the answer) and its other tabs are left out.
- Lists: how many tests the server has under a filter does not change while the user pages,
  so what paging by offset does when a test is inserted, deleted or moved in the order is not
  seen, and `ListFaithful` exempts lists whose filter was changed while a page was under way.
- Settings: the answer of a load is what the server had when it was asked or has when it
  comes; of two saves in between the middle value is left out (either way the load counts as
  doubtful).
- Results: which option is painted as picked is left out.
- Other answers of the server are taken as of their arrival. What they could have missed when
  they were computed earlier is recorded as doubt.

## 8. Plan

Done: the modules of section 2 and the proofs of section 5. Next, most important first:

1. **AccountRecovery**: mail outbox (row, delivery, mark, retry worker with its
   schedule) composed with password reset (issue, consume, reset, the sessions that
   survive). Abstract specification: a mail that was accepted is eventually sent or
   given up.
2. Flow against Attempts: the taking screens send their requests to the handlers instead
   of an abstract server; Screens against ChangeRequests and AccessControl likewise.
3. Extensions: asset routes in ImportJobs (a material uploaded while the test is
   deleted), rate limit and metadata edits in ChangeRequests, flags in QuestionBank.
4. **ConnectionPool**, if it stays within reach: 30 connections, the event loop
   blocked by `get_current_user`, the second connection of an approval.
5. Abstract specifications: a change-request desk without locks that ChangeRequests
   implements while the owner waits; a session cell per login that Sessions
   implements in one process.
6. Theorems: the refinements of item 5, and the type invariants of the screens.

**Not modelled**: the profile, statistics, notification and sign-in screens,
statistics, notifications, storage backends, the Word parser and the scripts. They
render, aggregate, transfer or parse, and keep no state that another step depends on.
Mail outbox, password reset and the connection pool are left for the plan above.
