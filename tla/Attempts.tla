------------------------------ MODULE Attempts ------------------------------
(***************************************************************************)
(* One attempt at a test: the taking screen in the browser, which fires    *)
(* its requests without waiting for the answers, and the four handlers     *)
(* that serve them (start, answer, finish, abandon).  The screen may hand   *)
(* in more than once: an interval that lost its handle does so at every     *)
(* second at zero, and neither the screen nor the server looks whether the  *)
(* attempt is finished.  Every handler is a thread with a database session  *)
(* of its own under READ COMMITTED, so it is cut where it commits and where *)
(* it works on rows read earlier:                                          *)
(*                                                                         *)
(*   start    creates the attempt (commit), reads which rows exist,        *)
(*            inserts the missing snapshots and question_count (commit);   *)
(*   answer   reads the row, writes it (commit);                           *)
(*   finish   reads the attempt and its rows, looks missing keys up in the  *)
(*            questions table, writes tally and backfilled rows (commit),    *)
(*            then adds the rows to question_performance (commit);         *)
(*   abandon  writes the status (commit).                                  *)
(*                                                                         *)
(* The ORM updates only the columns that differ from the values it loaded  *)
(* (Written), and (attempt_id, question_id) is unique, so an insert of a   *)
(* row that another session committed meanwhile fails as a whole.          *)
(***************************************************************************)
EXTENDS Naturals, FiniteSets, Sequences

CONSTANTS
  Questions,    \* the questions of the paper
  Options,      \* option indices
  None,         \* SQL NULL and JavaScript undefined
  Banks,        \* bound: what the questions table marks correct, edit after edit
  MaxClicks,    \* bound: clicks on options in one attempt
  MaxFinishes,  \* bound: hand-ins of one attempt
  MaxAfter      \* bound: the last of them that may be sent after an abandon

Opt == Options \cup {None}

ASSUME QuestionsAssumption == IsFiniteSet(Questions)
ASSUME NoneAssumption == None \notin Options
ASSUME BanksAssumption == Banks \in Seq([Questions -> Opt]) /\ Banks # <<>>
ASSUME BoundsAssumption == MaxClicks \in Nat /\ MaxFinishes \in Nat /\ MaxAfter \in Nat

VARIABLES
  edition,     \* table questions: the edit in force
  screen,      \* the browser: phase, setting, paper as loaded, option picked per question
  start,       \* the start request: pc, and the questions it saw stored
  calls,       \* the answer requests, by click
  finish,      \* the hand-ins: pc, what each loaded, and the keys it looked up
  abandon,     \* pc of the abandon request
  attempt,     \* the row of table attempts
  rows,        \* table attempt_answers, by question
  perf,        \* table question_performance, by question
  straggler    \* history: a hand-in read while another request was to write

vars == <<edition, screen, start, calls, finish, abandon, attempt, rows, perf, straggler>>

Calls == 1..MaxClicks
Finishes == 1..MaxFinishes
Row == [stored: BOOLEAN, snap: Opt, ans: Opt, skipped: BOOLEAN,
        correct: {"yes", "no", "unknown"}]
Absent == [stored |-> FALSE, snap |-> None, ans |-> None, skipped |-> FALSE,
           correct |-> "unknown"]
\* The option marked correct; None: no option is, or the question is gone.
Bank == Banks[edition]

Unset == [q \in Questions |-> None]

\* What start inserts: the paper comes with the request, as the browser loaded it.
Snapshot(q) ==
  [Absent EXCEPT !.stored = TRUE, !.snap = screen.key[q], !.skipped = TRUE]

AttemptRow == [status: {"absent", "in_progress", "completed", "abandoned", "purged"},
               question_count: Nat, answered_count: Nat, correct_count: Nat]
NoRows == [q \in Questions |-> Absent]
NoAttempt == [status |-> "absent", question_count |-> 0, answered_count |-> 0,
              correct_count |-> 0]

Exists == attempt.status \in {"in_progress", "completed", "abandoned"}
InFlight(pc) == pc \notin {"unsent", "done", "failed", "cut"}
Outstanding == InFlight(start.pc) \/ \E c \in Calls : InFlight(calls[c].pc)

\* A request that ends drops what its session had loaded.
StartEnds(pc) == [pc |-> pc, seen |-> {}]
CallEnds(call, pc) == [call EXCEPT !.pc = pc, !.loaded = Absent]
FinishEnds(fin, pc) == [fin EXCEPT !.pc = pc, !.loaded = NoAttempt, !.rows = NoRows]

\* A hand-in between its reads and its commit; a hand-in whose tally is stored.
Reading(f) == finish[f].pc \in {"read", "looked"}
Committed(f) == finish[f].pc \in {"committed", "cut", "done"}

Call == [pc: {"unsent", "sent", "read", "done", "failed"},
         q: Questions \cup {None}, opt: Opt, loaded: Row]
Finish == [pc: {"unsent", "sent", "read", "looked", "committed", "cut", "done", "failed"},
           loaded: AttemptRow, rows: [Questions -> Row], keys: [Questions -> Opt]]

TypeOK ==
  /\ edition \in 1..Len(Banks)
  /\ screen \in [phase: {"pretest", "taking", "finishing", "left"}, show: BOOLEAN,
                 key: [Questions -> Opt], picked: [Questions -> Opt]]
  /\ start \in [pc: {"unsent", "sent", "created", "read", "done", "failed"},
                seen: SUBSET Questions]
  /\ calls \in [Calls -> Call]
  /\ finish \in [Finishes -> Finish]
  /\ abandon \in {"unsent", "sent", "done", "failed"}
  /\ attempt \in AttemptRow
  /\ rows \in [Questions -> Row]
  /\ perf \in [Questions -> [total: Nat, correct: Nat]]
  /\ straggler \in BOOLEAN

Init ==
  /\ edition = 1
  /\ screen \in [phase: {"pretest"}, show: BOOLEAN, key: {Unset}, picked: {Unset}]
  /\ start = [pc |-> "unsent", seen |-> {}]
  /\ calls = [c \in Calls |->
                [pc |-> "unsent", q |-> None, opt |-> None, loaded |-> Absent]]
  /\ finish = [f \in Finishes |->
                 [pc |-> "unsent", loaded |-> NoAttempt,
                  rows |-> NoRows, keys |-> Unset]]
  /\ abandon = "unsent"
  /\ attempt = NoAttempt
  /\ rows = NoRows
  /\ perf = [q \in Questions |-> [total |-> 0, correct |-> 0]]
  /\ straggler = FALSE

-----------------------------------------------------------------------------
(* The taking screen.  JavaScript runs one callback at a time.             *)

server == <<edition, attempt, rows, perf>>

\* beginAttempt: start is sent, with the paper that the screen has loaded, and
\* the screen goes on without its answer.
Begin ==
  /\ screen.phase = "pretest"
  /\ screen' = [screen EXCEPT !.phase = "taking", !.key = Bank]
  /\ start' = [start EXCEPT !.pc = "sent"]
  /\ UNCHANGED <<calls, finish, abandon, server, straggler>>

\* onOptionClick: locked after the first pick when answers are shown at once.
Click(c, q, o) ==
  /\ screen.phase = "taking"
  /\ screen.show => screen.picked[q] = None
  /\ calls[c].pc = "unsent"
  /\ \A d \in 1..(c - 1) : calls[d].pc # "unsent"
  /\ screen' = [screen EXCEPT !.picked[q] = o]
  /\ calls' = [calls EXCEPT ![c] = [pc |-> "sent", q |-> q, opt |-> o, loaded |-> Absent]]
  /\ UNCHANGED <<start, finish, abandon, server, straggler>>

\* finishUp, from the button or from a timer: answers may be in flight.  It has
\* no guard: an interval that lost its handle calls it at every second at zero,
\* and also when the user has left.
FinishUp(f) ==
  /\ screen.phase # "pretest"
  /\ finish[f].pc = "unsent"
  /\ \A g \in 1..(f - 1) : finish[g].pc # "unsent"
  /\ abandon # "unsent" => f <= MaxAfter
  /\ screen' = [screen EXCEPT !.phase = "finishing"]
  /\ finish' = [finish EXCEPT ![f].pc = "sent"]
  /\ UNCHANGED <<start, calls, abandon, server, straggler>>

\* The close button abandons; any other navigation only leaves the screen.
Leave(sendAbandon) ==
  /\ screen.phase = "taking"
  /\ screen' = [screen EXCEPT !.phase = "left"]
  /\ abandon' = IF sendAbandon THEN "sent" ELSE abandon
  /\ UNCHANGED <<start, calls, finish, server, straggler>>

-----------------------------------------------------------------------------
(* POST /start                                                             *)

\* get_or_create_attempt and its commit.
StartCreate ==
  /\ start.pc = "sent"
  /\ start' = [start EXCEPT !.pc = "created"]
  /\ attempt' = [attempt EXCEPT !.status = "in_progress"]
  /\ UNCHANGED <<edition, screen, calls, finish, abandon, rows, perf, straggler>>

\* The look for existing rows.  The code asks once per question; a row that
\* appears between two of these reads makes the commit below fail either way.
StartRead ==
  /\ start.pc = "created"
  /\ start' = [pc |-> "read", seen |-> {q \in Questions : rows[q].stored}]
  /\ UNCHANGED <<screen, calls, finish, abandon, server, straggler>>

\* A row the request saw is kept, every other question gets its snapshot.
\* Mutant: the snapshot loop without its look for existing rows.
BlindSnapshot(q) == Snapshot(q)
Snapshotted(q) == IF q \in start.seen THEN rows[q] ELSE Snapshot(q)

\* The second commit: all missing snapshots and question_count, or nothing.
StartCommit ==
  /\ start.pc = "read"
  /\ \A q \in Questions \ start.seen : ~rows[q].stored
  /\ start' = StartEnds("done")
  /\ rows' = [q \in Questions |-> Snapshotted(q)]
  /\ attempt' = [attempt EXCEPT !.question_count = Cardinality(Questions)]
  /\ UNCHANGED <<edition, screen, calls, finish, abandon, perf, straggler>>

StartConflict ==
  /\ start.pc = "read"
  /\ \E q \in Questions \ start.seen : rows[q].stored
  /\ start' = StartEnds("failed")
  /\ UNCHANGED <<screen, calls, finish, abandon, server, straggler>>

-----------------------------------------------------------------------------
(* POST /answer                                                            *)

Grade(answer, key) == IF answer = key THEN "yes" ELSE "no"

\* The route's owner check (404 before start has created the attempt, but no
\* look at the status), and the row as record_answer selects it.
AnswerRead(c) ==
  /\ calls[c].pc = "sent"
  /\ calls' = [calls EXCEPT ![c] =
                 IF Exists THEN [@ EXCEPT !.pc = "read", !.loaded = rows[calls[c].q]]
                           ELSE [@ EXCEPT !.pc = "failed"]]
  /\ UNCHANGED <<screen, start, finish, abandon, server, straggler>>

\* record_answer on the row it loaded (or on a new one without a snapshot).
Recorded(old, o) ==
  [old EXCEPT !.stored = TRUE, !.ans = o, !.skipped = FALSE,
              !.correct = IF old.snap = None THEN "unknown" ELSE Grade(o, old.snap)]

\* A flush writes the columns whose value differs from the loaded one.
Column(current, old, new) == IF new # old THEN new ELSE current

Written(current, old, new) ==
  [stored  |-> TRUE,
   snap    |-> Column(current.snap, old.snap, new.snap),
   ans     |-> Column(current.ans, old.ans, new.ans),
   skipped |-> Column(current.skipped, old.skipped, new.skipped),
   correct |-> Column(current.correct, old.correct, new.correct)]

WrittenAttempt(current, old, new) ==
  [status         |-> Column(current.status, old.status, new.status),
   question_count |-> Column(current.question_count, old.question_count, new.question_count),
   answered_count |-> Column(current.answered_count, old.answered_count, new.answered_count),
   correct_count  |-> Column(current.correct_count, old.correct_count, new.correct_count)]

\* UPDATE of the row that was loaded, or INSERT when there was none.
AnswerCommit(c) ==
  LET q == calls[c].q
      old == calls[c].loaded
  IN
  /\ calls[c].pc = "read"
  /\ old.stored \/ ~rows[q].stored
  /\ calls' = [calls EXCEPT ![c] = CallEnds(@, "done")]
  /\ rows' = [rows EXCEPT ![q] = Written(@, old, Recorded(old, calls[c].opt))]
  /\ UNCHANGED <<edition, screen, start, finish, abandon, attempt, perf, straggler>>

\* The INSERT meets a row committed by start or by another answer.
AnswerConflict(c) ==
  /\ calls[c].pc = "read"
  /\ ~calls[c].loaded.stored /\ rows[calls[c].q].stored
  /\ calls' = [calls EXCEPT ![c] = CallEnds(@, "failed")]
  /\ UNCHANGED <<screen, start, finish, abandon, server, straggler>>

-----------------------------------------------------------------------------
(* POST /finish                                                            *)

Answered(r) == r.stored /\ ~r.skipped /\ r.ans # None

\* The attempt and its rows as finish_attempt loads them; a finished attempt is
\* not refused.
FinishRead(f) ==
  /\ finish[f].pc = "sent"
  /\ IF Exists
     THEN /\ finish' = [finish EXCEPT ![f] =
                         [@ EXCEPT !.pc = "read", !.loaded = attempt, !.rows = rows]]
          /\ straggler' = (straggler \/ Outstanding \/ \E g \in Finishes : Reading(g))
     ELSE /\ finish' = [finish EXCEPT ![f].pc = "failed"]
          /\ UNCHANGED straggler
  /\ UNCHANGED <<screen, start, calls, abandon, server>>

\* get_correct_option_index for the answered rows without a snapshot: None when
\* the question is gone or no option of it is marked.
FinishLookup(f) ==
  /\ finish[f].pc = "read"
  /\ LET found == [q \in Questions |->
                     IF Answered(finish[f].rows[q]) /\ finish[f].rows[q].snap = None
                     THEN Bank[q] ELSE None]
     IN finish' = [finish EXCEPT ![f] = [@ EXCEPT !.pc = "looked", !.keys = found]]
  /\ UNCHANGED <<screen, start, calls, abandon, server, straggler>>

\* Mutants: no safety net; a safety net that finds the key and not the verdict.
NoBackfill(r, key) == r
BackfillWithoutVerdict(r, key) ==
  IF Answered(r) /\ r.snap = None /\ key # None
  THEN [r EXCEPT !.snap = key, !.correct = "no"] ELSE r

\* The safety net: an answered row without a snapshot gets the key that was
\* found, and its verdict; without a key it stays as it is.
Backfilled(r, key) ==
  IF Answered(r) /\ r.snap = None /\ key # None
  THEN [r EXCEPT !.snap = key, !.correct = Grade(r.ans, key)] ELSE r

\* Mutant: question_count is never filled in.
CountNotBackfilled(count, stored) == count

\* question_count is filled in from the loaded rows when the loaded value is 0.
CountBackfilled(count, stored) ==
  IF count = 0 /\ stored # {} THEN Cardinality(stored) ELSE count

\* Mutant: an answer without a verdict is not counted as an answer.
TalliedIfGraded(loaded, graded) ==
  LET answered == {q \in Questions : Answered(graded[q]) /\ graded[q].correct # "unknown"}
  IN [status |-> "completed",
      question_count |-> CountBackfilled(loaded.question_count,
                                         {q \in Questions : graded[q].stored}),
      answered_count |-> Cardinality(answered),
      correct_count |-> Cardinality({q \in answered : graded[q].correct = "yes"})]

\* What finish_attempt makes of the attempt that it loaded.
Tallied(loaded, graded) ==
  LET stored == {q \in Questions : graded[q].stored}
      answered == {q \in Questions : Answered(graded[q])}
  IN [status |-> "completed",
      question_count |-> CountBackfilled(loaded.question_count, stored),
      answered_count |-> Cardinality(answered),
      correct_count |-> Cardinality({q \in answered : graded[q].correct = "yes"})]

\* The loaded rows after the safety net.
Graded(f) == [q \in Questions |-> Backfilled(finish[f].rows[q], finish[f].keys[q])]

\* The tally is counted on the loaded rows; both tables are flushed by column.
FinishCommit(f) ==
  LET old == finish[f].loaded
      new == Tallied(old, Graded(f))
  IN
  /\ finish[f].pc = "looked"
  /\ finish' = [finish EXCEPT ![f] = FinishEnds(@, "committed")]
  /\ rows' = [q \in Questions |->
                IF finish[f].rows[q].stored
                THEN Written(rows[q], finish[f].rows[q], Graded(f)[q]) ELSE rows[q]]
  /\ attempt' = WrittenAttempt(attempt, old, new)
  /\ UNCHANGED <<edition, screen, start, calls, abandon, perf, straggler>>

\* Mutant: the upsert counts skipped rows too.
UpsertedSkipsToo(p, r) ==
  IF r.stored
  THEN [total |-> p.total + 1,
        correct |-> p.correct + (IF r.correct = "yes" THEN 1 ELSE 0)]
  ELSE p

\* One row of the upsert: SQL increments, not values computed from a read.
Upserted(p, r) ==
  IF Answered(r)
  THEN [total |-> p.total + 1,
        correct |-> p.correct + (IF r.correct = "yes" THEN 1 ELSE 0)]
  ELSE p

\* upsert_question_performance reads the rows afresh, in a transaction of its
\* own, at every hand-in.
FinishAggregate(f) ==
  /\ finish[f].pc = "committed"
  /\ finish' = [finish EXCEPT ![f].pc = "done"]
  /\ perf' = [q \in Questions |-> Upserted(perf[q], rows[q])]
  /\ UNCHANGED <<edition, screen, start, calls, abandon, attempt, rows, straggler>>

-----------------------------------------------------------------------------
(* POST /abandon, failures, the owner of the test, the nightly sweep        *)

AbandonCommit ==
  /\ abandon = "sent"
  /\ IF Exists
     THEN /\ attempt' = [attempt EXCEPT !.status = "abandoned"]
          /\ abandon' = "done"
     ELSE /\ abandon' = "failed"
          /\ UNCHANGED attempt
  /\ UNCHANGED <<edition, screen, start, calls, finish, rows, perf, straggler>>

\* A request ends between two of its commits: lost on the way, refused, timed
\* out waiting for a connection, or its worker is gone.  What it has not
\* committed is rolled back; the screen only logs a warning.
Fail ==
  \/ /\ InFlight(start.pc)
     /\ start' = StartEnds("failed")
     /\ UNCHANGED <<screen, calls, finish, abandon, server, straggler>>
  \/ \E c \in Calls :
       /\ InFlight(calls[c].pc)
       /\ calls' = [calls EXCEPT ![c] = CallEnds(@, "failed")]
       /\ UNCHANGED <<screen, start, finish, abandon, server, straggler>>
  \/ \E f \in Finishes :
       /\ InFlight(finish[f].pc)
       /\ finish' = [finish EXCEPT ![f] = IF Committed(f) THEN FinishEnds(@, "cut")
                                                  ELSE [FinishEnds(@, "failed") EXCEPT !.keys = Unset]]
       /\ UNCHANGED <<screen, start, calls, abandon, server, straggler>>
  \/ /\ InFlight(abandon)
     /\ abandon' = "failed"
     /\ UNCHANGED <<screen, start, calls, finish, server, straggler>>

\* The owner marks another option, or none, or deletes a question.
Edit ==
  /\ edition < Len(Banks)
  /\ edition' = edition + 1
  /\ UNCHANGED <<screen, start, calls, finish, abandon, attempt, rows, perf, straggler>>

\* cleanup_old_attempts: an abandoned attempt goes 90 days after its start,
\* when no request of it can still be running; its answer rows cascade.
Sweep ==
  /\ attempt.status = "abandoned"
  /\ ~Outstanding /\ ~InFlight(abandon) /\ \A f \in Finishes : ~InFlight(finish[f].pc)
  /\ attempt' = [attempt EXCEPT !.status = "purged"]
  /\ rows' = NoRows
  /\ UNCHANGED <<edition, screen, start, calls, finish, abandon, perf, straggler>>

-----------------------------------------------------------------------------

Next ==
  \/ Begin
  \/ \E c \in Calls, q \in Questions, o \in Options : Click(c, q, o)
  \/ \E f \in Finishes : FinishUp(f)
  \/ \E sendAbandon \in BOOLEAN : Leave(sendAbandon)
  \/ StartCreate \/ StartRead \/ StartCommit \/ StartConflict
  \/ \E c \in Calls : AnswerRead(c) \/ AnswerCommit(c) \/ AnswerConflict(c)
  \/ \E f \in Finishes :
       FinishRead(f) \/ FinishLookup(f) \/ FinishCommit(f) \/ FinishAggregate(f)
  \/ AbandonCommit
  \/ Fail
  \/ Edit
  \/ Sweep

Spec == Init /\ [][Next]_vars

-----------------------------------------------------------------------------
(* Properties                                                              *)

AllRecorded == \A c \in Calls : calls[c].pc \in {"unsent", "done"}

\* Only one hand-in has stored a tally.
HandedInOnce == \A f, g \in Finishes : Committed(f) /\ Committed(g) => f = g

VerdictsFollow ==
  \A q \in Questions : rows[q].correct # "unknown" =>
    rows[q].snap # None /\ rows[q].correct = Grade(rows[q].ans, rows[q].snap)

\* Where answers lock, a stored verdict is the verdict on the stored answer by the
\* stored key: concurrent writers of one row (an answer, and the backfills of
\* several hand-ins that may have found different keys) never leave the answer or
\* the key of one beside the is_correct of another.  This is what "is_correct is
\* computed server-side from the stored correct_option_index snapshot" promises.
VerdictFollowsAnswer == screen.show => VerdictsFollow

\* The same while the test is being taken, when only answers write the rows.  It
\* fails when answers may be changed.
VerdictWhileTaking == screen.phase = "taking" => VerdictsFollow

\* The tally stored is that of the user's picks against the stored keys, when every
\* answer was recorded before a hand-in read the rows: also when the answers
\* overtook the snapshots of start, when start failed after its first commit, and
\* when the attempt was handed in again after the owner had marked other options.
FinalTally ==
  screen.show /\ attempt.status = "completed" /\ ~straggler /\ AllRecorded =>
    /\ attempt.correct_count =
         Cardinality({q \in Questions : /\ screen.picked[q] # None
                                       /\ screen.picked[q] = rows[q].snap})
    /\ attempt.answered_count =
         Cardinality({q \in Questions : screen.picked[q] # None})

\* percent_correct stays within 0..100 in a finished attempt, whichever of start
\* and finish wrote question_count last, if it is handed in once; and however often
\* it is handed in, if no hand-in read while another request was to write.
TallyWithinPaper ==
  attempt.status = "completed" /\ (HandedInOnce \/ ~straggler) =>
    /\ attempt.correct_count <= attempt.answered_count
    /\ attempt.answered_count <= attempt.question_count

\* The aggregates hold an attempt as often as its hand-ins have counted it, never
\* before a tally is stored, and with each question or without it in all of them;
\* with one hand-in, and answers that lock, the verdict is that on the pick.
AggregatedPerHandIn ==
  LET counted == Cardinality({f \in Finishes : finish[f].pc = "done"}) IN
  \A q \in Questions :
    /\ perf[q].correct <= perf[q].total /\ perf[q].total <= counted
    /\ ~straggler /\ attempt.status # "purged" =>
         /\ perf[q].total = IF Answered(rows[q]) THEN counted ELSE 0
         /\ screen.show /\ HandedInOnce /\ counted = 1 =>
              perf[q].correct = IF /\ screen.picked[q] # None /\ Answered(rows[q])
                                   /\ screen.picked[q] = rows[q].snap
                                THEN 1 ELSE 0

\* "Rebuild question_performance from scratch by aggregating the answers of all
\* COMPLETED attempts": an attempt is in the aggregates once.  It fails when the
\* attempt is handed in twice.
AggregatedOnce == \A q \in Questions : perf[q].total <= 1

\* An answered row that a finished attempt leaves without a verdict is one whose key
\* none of its hand-ins could find; none is silently counted wrong otherwise, unless
\* a hand-in read while another request was to write.
NothingUngraded ==
  attempt.status = "completed" /\ ~straggler =>
    \A q \in Questions, f \in Finishes :
      Answered(rows[q]) /\ rows[q].correct = "unknown" /\ Committed(f) =>
        finish[f].keys[q] = None

\* A stored answer is only replaced by another answer: a late snapshot of
\* start or the backfill of finish never turns it back into a skipped row.
AnswerNeverErased ==
  [][\A q \in Questions :
       Answered(rows[q]) /\ attempt'.status # "purged" => Answered(rows[q])']_vars

\* "Safety net: if start_attempt didn't get a usable snapshot ... backfill
\* question_count": the backfill never replaces the count of a start that did
\* store its snapshots.  It fails when finish reads before start commits.
BackfillOnlyWithoutSnapshot ==
  start.pc = "done" /\ attempt.status = "completed" =>
    attempt.question_count = Cardinality(Questions)
=============================================================================
