--------------------------- MODULE AttemptsProofs ---------------------------
(***************************************************************************)
(* Proofs about Attempts, for any paper, edits, options and number of       *)
(* clicks and hand-ins.                                                     *)
(***************************************************************************)
EXTENDS Attempts, FiniteSetTheorems, TLAPS

USE QuestionsAssumption, NoneAssumption, BanksAssumption, BoundsAssumption

-----------------------------------------------------------------------------
(* Types                                                                   *)

\* A snapshot, a recorded answer, a backfilled row and a flushed row are rows.
LEMMA RowTypes ==
  /\ Absent \in Row /\ NoRows \in [Questions -> Row] /\ Unset \in [Questions -> Opt]
  /\ screen.key \in [Questions -> Opt] => \A q \in Questions : Snapshot(q) \in Row
  /\ \A r \in Row, o \in Options : Recorded(r, o) \in Row
  /\ \A r \in Row, k \in Opt : Backfilled(r, k) \in Row
  /\ \A x, y, z \in Row : Written(x, y, z) \in Row
BY DEF Row, Absent, NoRows, Unset, Snapshot, Recorded, Backfilled, Written, Column,
       Answered, Grade, Opt

\* The sets counted by the tally are finite, so their cardinalities are numbers.
LEMMA CountTypes ==
  /\ \A S \in SUBSET Questions : Cardinality(S) \in Nat
  /\ \A S \in SUBSET Finishes : IsFiniteSet(S) /\ Cardinality(S) \in Nat
<1>1. IsFiniteSet(Finishes)
  BY FS_Interval DEF Finishes
<1> QED
  BY <1>1, FS_Subset, FS_CardinalityType

\* The key of a question is an option or none.
LEMMA BankType == ASSUME edition \in 1..Len(Banks) PROVE Bank \in [Questions -> Opt]
BY DEF Bank

\* What a hand-in computes from the attempt and the rows that it loaded.
LEMMA TallyTypes ==
  ASSUME NEW loaded \in AttemptRow, NEW graded \in [Questions -> Row]
  PROVE  /\ Tallied(loaded, graded) \in AttemptRow
         /\ \A x, y, z \in AttemptRow : WrittenAttempt(x, y, z) \in AttemptRow
<1>1. /\ Cardinality({q \in Questions : graded[q].stored}) \in Nat
      /\ Cardinality({q \in Questions : Answered(graded[q])}) \in Nat
      /\ Cardinality({q \in {p \in Questions : Answered(graded[p])} :
                        graded[q].correct = "yes"}) \in Nat
  BY CountTypes
<1>2. Tallied(loaded, graded) \in AttemptRow
  BY <1>1 DEF Tallied, CountBackfilled, AttemptRow
<1>3. \A x, y, z \in AttemptRow : WrittenAttempt(x, y, z) \in AttemptRow
  BY DEF WrittenAttempt, Column, AttemptRow
<1> QED
  BY <1>2, <1>3

\* The loaded rows of a hand-in after the safety net.
LEMMA GradedType ==
  ASSUME TypeOK, NEW f \in Finishes
  PROVE  /\ Graded(f) \in [Questions -> Row]
         /\ \A q \in Questions :
              Graded(f)[q] = Backfilled(finish[f].rows[q], finish[f].keys[q])
<1>1. finish[f].rows \in [Questions -> Row] /\ finish[f].keys \in [Questions -> Opt]
  BY DEF TypeOK, Finish
<1> QED
  BY <1>1, RowTypes DEF Graded

\* A request that ends keeps its type.
LEMMA EndTypes ==
  /\ \A pc \in {"done", "failed"}, call \in Call :
       /\ CallEnds(call, pc) \in Call /\ CallEnds(call, pc).q = call.q
       /\ CallEnds(call, pc).opt = call.opt /\ CallEnds(call, pc).pc = pc
  /\ \A pc \in {"committed", "cut", "failed"}, fin \in Finish :
       /\ FinishEnds(fin, pc) \in Finish /\ FinishEnds(fin, pc).pc = pc
       /\ FinishEnds(fin, pc).keys = fin.keys
       /\ [FinishEnds(fin, pc) EXCEPT !.keys = Unset] \in Finish
       /\ [FinishEnds(fin, pc) EXCEPT !.keys = Unset].pc = pc
<1>1. NoAttempt \in AttemptRow
  BY DEF NoAttempt, AttemptRow
<1> QED
  BY <1>1, RowTypes DEF CallEnds, FinishEnds, Call, Finish

\* The calls that have been sent carry an option and a question.
CallsFilled ==
  \A c \in Calls : calls[c].pc # "unsent" =>
    calls[c].q \in Questions /\ calls[c].opt \in Options

\* Every step of a hand-in replaces its record.
LEMMA FinishTypes ==
  ASSUME TypeOK, NEW f \in Finishes,
         FinishUp(f) \/ FinishRead(f) \/ FinishLookup(f) \/ FinishCommit(f) \/ FinishAggregate(f)
  PROVE  finish' \in [Finishes -> Finish]
<1> DEFINE fin == finish[f]
<1>0. fin \in Finish
  BY DEF TypeOK
<1>1. CASE FinishUp(f) \/ FinishAggregate(f)
  <2>1. \A pc \in {"sent", "done"} : [fin EXCEPT !.pc = pc] \in Finish
    BY <1>0 DEF Finish
  <2>2. \E pc \in {"sent", "done"} : finish' = [finish EXCEPT ![f] = [fin EXCEPT !.pc = pc]]
    BY <1>1 DEF FinishUp, FinishAggregate
  <2> QED
    BY <2>1, <2>2 DEF TypeOK
<1>2. CASE FinishRead(f)
  <2>1. [fin EXCEPT !.pc = "read", !.loaded = attempt, !.rows = rows] \in Finish
    BY <1>0 DEF TypeOK, Finish
  <2>2. [fin EXCEPT !.pc = "failed"] \in Finish
    BY <1>0 DEF Finish
  <2> QED
    BY <1>2, <2>1, <2>2 DEF FinishRead, TypeOK
<1>3. CASE FinishLookup(f)
  <2> DEFINE found == [q \in Questions |->
                         IF Answered(fin.rows[q]) /\ fin.rows[q].snap = None
                         THEN Bank[q] ELSE None]
  <2>1. found \in [Questions -> Opt]
    BY BankType DEF TypeOK, Opt
  <2>2. [fin EXCEPT !.pc = "looked", !.keys = found] \in Finish
    BY <1>0, <2>1 DEF Finish
  <2>3. finish' = [finish EXCEPT ![f] = [fin EXCEPT !.pc = "looked", !.keys = found]]
    BY <1>3 DEF FinishLookup
  <2> QED
    BY <2>2, <2>3 DEF TypeOK
<1>4. CASE FinishCommit(f)
  BY <1>0, <1>4, EndTypes DEF FinishCommit, TypeOK
<1> QED
  BY <1>1, <1>2, <1>3, <1>4

\* Every variable keeps its type, and sent calls are filled in.
LEMMA TypeStep ==
  ASSUME TypeOK, CallsFilled, [Next]_vars
  PROVE  TypeOK' /\ CallsFilled'
<1> USE DEF TypeOK, CallsFilled, server
<1>1. CASE Begin
  BY <1>1, BankType DEF Begin
<1>2. ASSUME NEW c \in Calls, NEW q \in Questions, NEW o \in Options, Click(c, q, o)
      PROVE  TypeOK' /\ CallsFilled'
  <2>1. /\ calls' \in [Calls -> Call]
        /\ CallsFilled'
    BY <1>2, RowTypes DEF Click, Opt, Call
  <2>2. screen'.picked \in [Questions -> Opt]
    BY <1>2 DEF Click, Opt
  <2> QED
    BY <1>2, <2>1, <2>2 DEF Click
<1>3. ASSUME NEW f \in Finishes, FinishUp(f)
      PROVE  TypeOK' /\ CallsFilled'
  BY <1>3, FinishTypes DEF FinishUp
<1>4. ASSUME NEW s \in BOOLEAN, Leave(s)
      PROVE  TypeOK' /\ CallsFilled'
  BY <1>4 DEF Leave
<1>5. CASE StartCreate \/ StartRead \/ StartConflict
  <2>1. CASE StartCreate
    BY <2>1 DEF StartCreate, AttemptRow
  <2>2. CASE StartRead
    BY <2>2 DEF StartRead
  <2>3. CASE StartConflict
    BY <2>3 DEF StartConflict, StartEnds
  <2> QED
    BY <1>5, <2>1, <2>2, <2>3
<1>6. CASE StartCommit
  <2>1. Cardinality(Questions) \in Nat
    BY CountTypes
  <2>2. rows' \in [Questions -> Row]
    BY <1>6, RowTypes DEF StartCommit, Snapshotted
  <2> QED
    BY <1>6, <2>1, <2>2 DEF StartCommit, StartEnds, AttemptRow
<1>7. ASSUME NEW c \in Calls, AnswerRead(c) \/ AnswerConflict(c)
      PROVE  TypeOK' /\ CallsFilled'
  <2>1. CASE AnswerRead(c)
    <3> DEFINE after == IF Exists
                        THEN [calls[c] EXCEPT !.pc = "read", !.loaded = rows[calls[c].q]]
                        ELSE [calls[c] EXCEPT !.pc = "failed"]
    <3>1. after \in Call /\ after.q = calls[c].q /\ after.opt = calls[c].opt
      <4>1. calls[c] \in Call /\ calls[c].pc = "sent" /\ calls[c].q \in Questions
        BY <2>1 DEF AnswerRead
      <4>2. rows[calls[c].q] \in Row
        BY <4>1
      <4>3. CASE Exists
        BY <4>1, <4>2, <4>3 DEF Call
      <4>4. CASE ~Exists
        BY <4>1, <4>4 DEF Call
      <4> QED
        BY <4>3, <4>4
    <3>2. calls' = [calls EXCEPT ![c] = after]
      BY <2>1 DEF AnswerRead
    <3> HIDE DEF after
    <3>3. ASSUME NEW d \in Calls, calls'[d].pc # "unsent"
          PROVE  calls'[d].q \in Questions /\ calls'[d].opt \in Options
      <4>1. CASE d = c
        <5>1. calls'[d] = after
          BY <3>2, <4>1
        <5>2. calls[c].q \in Questions /\ calls[c].opt \in Options
          BY <2>1 DEF AnswerRead
        <5> QED
          BY <3>1, <5>1, <5>2
      <4>2. CASE d # c
        <5>1. calls'[d] = calls[d]
          BY <3>2, <4>2
        <5> QED
          BY <3>3, <5>1
      <4> QED
        BY <4>1, <4>2
    <3>4. calls' \in [Calls -> Call]
      BY <3>1, <3>2
    <3> QED
      BY <2>1, <3>3, <3>4 DEF AnswerRead
  <2>2. CASE AnswerConflict(c)
    BY <2>2, EndTypes DEF AnswerConflict
  <2> QED
    BY <1>7, <2>1, <2>2
<1>8. ASSUME NEW c \in Calls, AnswerCommit(c)
      PROVE  TypeOK' /\ CallsFilled'
  <2>1. Written(rows[calls[c].q], calls[c].loaded,
                Recorded(calls[c].loaded, calls[c].opt)) \in Row
    BY <1>8, RowTypes DEF AnswerCommit, Call
  <2> QED
    BY <1>8, <2>1, EndTypes DEF AnswerCommit
<1>9. ASSUME NEW f \in Finishes, FinishRead(f) \/ FinishLookup(f)
      PROVE  TypeOK' /\ CallsFilled'
  <2>1. finish' \in [Finishes -> Finish]
    BY <1>9, FinishTypes
  <2>2. straggler' \in BOOLEAN
    BY <1>9 DEF FinishRead, FinishLookup, Outstanding, InFlight, Reading
  <2> QED
    BY <1>9, <2>1, <2>2 DEF FinishRead, FinishLookup
<1>10. ASSUME NEW f \in Finishes, FinishCommit(f)
       PROVE  TypeOK' /\ CallsFilled'
  <2>1. finish' \in [Finishes -> Finish]
    BY <1>10, FinishTypes
  <2>2. finish[f].rows \in [Questions -> Row] /\ finish[f].loaded \in AttemptRow
    BY DEF Finish
  <2>3. \A q \in Questions : Written(rows[q], finish[f].rows[q], Graded(f)[q]) \in Row
    <3>1. Graded(f) \in [Questions -> Row]
      BY GradedType
    <3> QED
      BY <2>2, <3>1, RowTypes
  <2>4. rows' \in [Questions -> Row]
    BY <1>10, <2>3 DEF FinishCommit
  <2>5. attempt' \in AttemptRow
    <3>1. Graded(f) \in [Questions -> Row]
      BY GradedType
    <3> QED
      BY <1>10, <2>2, <3>1, TallyTypes DEF FinishCommit
  <2> QED
    BY <1>10, <2>1, <2>4, <2>5 DEF FinishCommit
<1>11. ASSUME NEW f \in Finishes, FinishAggregate(f)
       PROVE  TypeOK' /\ CallsFilled'
  <2>1. perf' \in [Questions -> [total: Nat, correct: Nat]]
    BY <1>11 DEF FinishAggregate, Upserted
  <2> QED
    BY <1>11, <2>1, FinishTypes DEF FinishAggregate
<1>12. CASE AbandonCommit
  BY <1>12 DEF AbandonCommit, AttemptRow
<1>13. CASE Fail
  <2>1. ASSUME NEW c \in Calls, calls' = [calls EXCEPT ![c] = CallEnds(@, "failed")],
               UNCHANGED <<screen, start, finish, abandon, server, straggler>>,
               calls[c].pc # "unsent"
        PROVE  TypeOK' /\ CallsFilled'
    BY <2>1, EndTypes
  <2>2. ASSUME NEW f \in Finishes, UNCHANGED <<screen, start, calls, abandon, server, straggler>>,
               finish' = [finish EXCEPT ![f] = IF Committed(f) THEN FinishEnds(@, "cut")
                            ELSE [FinishEnds(@, "failed") EXCEPT !.keys = Unset]]
        PROVE  TypeOK' /\ CallsFilled'
    <3>1. finish[f] \in Finish
      OBVIOUS
    <3> QED
      BY <2>2, <3>1, EndTypes
  <2>3. ASSUME start' = StartEnds("failed"),
               UNCHANGED <<screen, calls, finish, abandon, server, straggler>>
        PROVE  TypeOK' /\ CallsFilled'
    BY <2>3 DEF StartEnds
  <2>4. ASSUME abandon' = "failed", UNCHANGED <<screen, start, calls, finish, server, straggler>>
        PROVE  TypeOK' /\ CallsFilled'
    BY <2>4
  <2> QED
    BY <1>13, <2>1, <2>2, <2>3, <2>4 DEF Fail, InFlight
<1>14. CASE Sweep
  BY <1>14, RowTypes DEF Sweep, AttemptRow
<1>15. CASE Edit
  BY <1>15 DEF Edit
<1>16. CASE UNCHANGED vars
  BY <1>16 DEF vars
<1> QED
  BY <1>1, <1>2, <1>3, <1>4, <1>5, <1>6, <1>7, <1>8, <1>9, <1>10, <1>11,
     <1>12, <1>13, <1>14, <1>15, <1>16 DEF Next

\* The initial state is well typed.
LEMMA TypeInit == Init => TypeOK /\ CallsFilled
<1> SUFFICES ASSUME Init PROVE TypeOK /\ CallsFilled
  OBVIOUS
<1>1. calls \in [Calls -> Call] /\ CallsFilled
  BY RowTypes DEF Init, CallsFilled, Opt, Call
<1>2. NoAttempt \in AttemptRow
  BY DEF NoAttempt, AttemptRow
<1>3. /\ finish \in [Finishes -> Finish]
      /\ rows \in [Questions -> Row]
      /\ perf \in [Questions -> [total: Nat, correct: Nat]]
  BY <1>2, RowTypes DEF Init, Finish
<1>4. screen \in [phase: {"pretest", "taking", "finishing", "left"}, show: BOOLEAN,
                  key: [Questions -> Opt], picked: [Questions -> Opt]]
  BY RowTypes DEF Init
<1>5. edition \in 1..Len(Banks)
  BY DEF Init
<1> QED
  BY <1>1, <1>2, <1>3, <1>4, <1>5 DEF Init, TypeOK

\* Every table, screen and request holds values of its type, whatever the
\* paper: counters are numbers because every counted set is finite.
THEOREM TypeCorrect == Spec => []TypeOK
BY TypeInit, TypeStep, PTL DEF Spec

-----------------------------------------------------------------------------
(* What a flush leaves in a row                                            *)

\* A flush that changed nothing leaves a stored row as it is.
LEMMA WrittenUnchanged == \A x, y \in Row : x.stored => Written(x, y, y) = x
BY DEF Written, Column, Row

\* A flush over the very row that was loaded installs the new row.
LEMMA WrittenFresh == \A x, y \in Row : y.stored => Written(x, x, y) = y
BY DEF Written, Column, Row

\* An answer or a backfill flushed over an answered row leaves it answered.
LEMMA WrittenAnswered ==
  ASSUME NEW x \in Row, NEW y \in Row, Answered(x)
  PROVE  /\ \A o \in Options : Answered(Written(x, y, Recorded(y, o)))
         /\ \A k \in Opt : Answered(Written(x, y, Backfilled(y, k)))
BY DEF Written, Column, Row, Answered, Recorded, Backfilled, Grade

\* The rows that the commit of a hand-in leaves.
LEMMA RowsCommitted ==
  ASSUME TypeOK, NEW f \in Finishes, FinishCommit(f), NEW q \in Questions
  PROVE  LET old == finish[f].rows[q]
         IN /\ rows'[q] = IF old.stored THEN Written(rows[q], old, Backfilled(old, finish[f].keys[q]))
                                        ELSE rows[q]
            /\ old \in Row /\ finish[f].keys[q] \in Opt /\ rows[q] \in Row
<1>1. Graded(f)[q] = Backfilled(finish[f].rows[q], finish[f].keys[q])
  BY GradedType
<1>2. finish[f].rows[q] \in Row /\ finish[f].keys[q] \in Opt /\ rows[q] \in Row
  BY DEF TypeOK, Finish
<1> QED
  BY <1>1, <1>2 DEF FinishCommit

\* The steps that leave the rows alone.
LEMMA RowsKept ==
  ASSUME \/ Begin
         \/ \E c \in Calls, q \in Questions, o \in Options : Click(c, q, o)
         \/ \E f \in Finishes :
              FinishUp(f) \/ FinishRead(f) \/ FinishLookup(f) \/ FinishAggregate(f)
         \/ \E s \in BOOLEAN : Leave(s)
         \/ StartCreate \/ StartRead \/ StartConflict
         \/ \E c \in Calls : AnswerRead(c) \/ AnswerConflict(c)
         \/ AbandonCommit \/ Fail \/ Edit
  PROVE  UNCHANGED rows
BY DEF server, Begin, Click, FinishUp, Leave, StartCreate, StartRead,
       StartConflict, AnswerRead, AnswerConflict, FinishRead, FinishLookup, FinishAggregate,
       AbandonCommit, Fail, Edit

\* An answer that is stored stays stored until the attempt is purged: neither
\* the late snapshots of start nor the backfills of any hand-in erase it.
THEOREM AnswersSurvive == Spec => AnswerNeverErased
<1>1. TypeOK /\ CallsFilled /\ [Next]_vars
        => [\A q \in Questions :
              Answered(rows[q]) /\ attempt'.status # "purged" => Answered(rows[q])']_vars
  <2> SUFFICES ASSUME TypeOK, CallsFilled, Next, NEW q \in Questions,
                      Answered(rows[q]), attempt'.status # "purged"
               PROVE  Answered(rows'[q])
    BY DEF vars
  <2>1. CASE UNCHANGED rows
    BY <2>1
  <2>2. CASE StartCommit
    BY <2>2 DEF StartCommit, Snapshotted, Answered, TypeOK
  <2>3. ASSUME NEW c \in Calls, AnswerCommit(c)
        PROVE  Answered(rows'[q])
    <3>1. CASE q = calls[c].q
      <4>1. rows'[q] = Written(rows[q], calls[c].loaded,
                               Recorded(calls[c].loaded, calls[c].opt))
        BY <2>3, <3>1 DEF AnswerCommit, TypeOK
      <4> QED
        BY <2>3, <4>1, WrittenAnswered DEF AnswerCommit, TypeOK, CallsFilled, Call
    <3>2. CASE q # calls[c].q
      BY <2>3, <3>2 DEF AnswerCommit, TypeOK
    <3> QED
      BY <3>1, <3>2
  <2>4. ASSUME NEW f \in Finishes, FinishCommit(f)
        PROVE  Answered(rows'[q])
    BY <2>4, RowsCommitted, WrittenAnswered
  <2>5. CASE Sweep
    BY <2>5 DEF Sweep, TypeOK, AttemptRow
  <2> QED
    BY <2>1, <2>2, <2>3, <2>4, <2>5, RowsKept DEF Next
<1>2. Init => TypeOK /\ CallsFilled
  BY TypeInit
<1>3. TypeOK /\ CallsFilled /\ [Next]_vars => (TypeOK /\ CallsFilled)'
  BY TypeStep
<1> QED
  BY <1>1, <1>2, <1>3, PTL DEF Spec, AnswerNeverErased

-----------------------------------------------------------------------------
(* What a finished attempt leaves behind: its counts, its verdicts and the   *)
(* aggregates, whether or not answers lock.                                  *)

(* Rows                                                                    *)

\* What any row is, whoever wrote it: a missing row is blank, a row without a
\* key or without an answer has no verdict, and one with both has one.
Sane(r) ==
  /\ ~r.stored => r = Absent
  /\ r.snap = None => r.correct = "unknown"
  /\ r.ans = None => r.correct = "unknown"
  /\ r.snap # None /\ r.ans # None => r.correct # "unknown"

\* Row b is row a some writes later: only an answered row gets a key later on.
Leads(a, b) ==
  /\ a.stored => b.stored
  /\ a.snap # None => b.snap # None
  /\ a.ans # None => b.ans # None
  /\ a.stored /\ a.snap = None /\ b.snap # None => b.ans # None

\* An answer written over a row that was loaded earlier leaves a sane row.
LEMMA AnswerWritten ==
  ASSUME NEW x \in Row, NEW old \in Row, NEW o \in Options, Sane(x), Sane(old),
         Leads(old, x), old.stored \/ ~x.stored
  PROVE  LET y == Written(x, old, Recorded(old, o)) IN Sane(y) /\ Leads(x, y)
<1> DEFINE new == Recorded(old, o)
           y == Written(x, old, new)
<1>1. /\ new.stored /\ new.snap = old.snap /\ new.ans = o
      /\ new.correct = IF old.snap = None THEN "unknown" ELSE Grade(o, old.snap)
  BY DEF Recorded, Row
<1>2. /\ y.stored /\ y.snap = x.snap
      /\ y.ans = IF o # old.ans THEN o ELSE x.ans
      /\ y.correct = IF new.correct # old.correct THEN new.correct ELSE x.correct
  BY <1>1 DEF Written, Column
<1>3. o # None /\ Grade(o, old.snap) \in {"yes", "no"}
  BY DEF Grade
<1>4. y.ans # None
  BY <1>2, <1>3 DEF Leads
<1>5. CASE old.snap = None
  <2>1. y.correct = x.correct
    BY <1>1, <1>2, <1>5 DEF Sane
  <2>2. x.snap # None => x.ans # None
    BY <1>5 DEF Sane, Leads, Absent
  <2> QED
    BY <1>2, <1>4, <2>1, <2>2 DEF Sane, Leads
<1>6. CASE old.snap # None
  <2>1. x.snap # None
    BY <1>6 DEF Leads
  <2>2. y.correct # "unknown"
    BY <1>1, <1>2, <1>3, <1>6, <2>1 DEF Sane, Leads
  <2> QED
    BY <1>2, <1>4, <2>1, <2>2 DEF Sane, Leads
<1> QED
  BY <1>5, <1>6

\* So does the safety net of finish; over a row that did not change meanwhile it
\* leaves an answer without a verdict only if it found no key.
LEMMA BackfillWritten ==
  ASSUME NEW x \in Row, NEW old \in Row, NEW k \in Opt, Sane(x), Sane(old),
         Leads(old, x), old.stored
  PROVE  LET y == Written(x, old, Backfilled(old, k))
         IN /\ Sane(y) /\ Leads(x, y)
            /\ x = old =>
                 /\ y = Backfilled(old, k)
                 /\ Answered(y) <=> Answered(x)
                 /\ Answered(y) /\ y.correct = "unknown" => y = x /\ k = None
<1> DEFINE new == Backfilled(old, k)
           y == Written(x, old, new)
<1>1. CASE Answered(old) /\ old.snap = None /\ k # None
  <2>1. /\ new.stored /\ new.snap = k /\ new.ans = old.ans
        /\ new.skipped = old.skipped /\ new.correct = Grade(old.ans, k)
    BY <1>1 DEF Backfilled, Row, Answered
  <2>2. Grade(old.ans, k) \in {"yes", "no"} /\ old.correct = "unknown"
    BY <1>1 DEF Grade, Sane
  <2>3. /\ y.stored /\ y.snap = k /\ y.ans = x.ans
        /\ y.skipped = x.skipped /\ y.correct = Grade(old.ans, k)
    BY <2>1, <2>2, <1>1 DEF Written, Column
  <2>4. x = old => y = new
    <3>1. new \in Row /\ new.stored
      BY <2>1, RowTypes
    <3> QED
      BY <3>1, WrittenFresh
  <2> QED
    BY <2>2, <2>3, <2>4, <1>1 DEF Sane, Leads, Answered
<1>2. CASE ~(Answered(old) /\ old.snap = None /\ k # None)
  <2>1. new = old
    BY <1>2 DEF Backfilled
  <2>2. x.stored
    BY DEF Leads
  <2>3. y = x
    BY <2>1, <2>2, WrittenUnchanged
  <2> QED
    BY <1>2, <2>1, <2>3 DEF Sane, Leads, Answered
<1> QED
  BY <1>1, <1>2

\* A missing row and a snapshot are sane, and the one leads to the other.
LEMMA SnapshotSane ==
  /\ Sane(Absent)
  /\ \A q \in Questions : Sane(Snapshot(q)) /\ Leads(Absent, Snapshot(q))
                          /\ ~Answered(Snapshot(q)) /\ ~Answered(Absent)
BY DEF Sane, Leads, Absent, Snapshot, Answered

\* Later is transitive.
LEMMA LeadsOn == \A a, b, c : Leads(a, b) /\ Leads(b, c) => Leads(a, c)
BY DEF Leads

-----------------------------------------------------------------------------
(* The invariant                                                           *)

\* From which phase of the screen a request can have been sent, and what it
\* makes of the attempt.
GPhase ==
  /\ start.pc = "unsent" <=> screen.phase = "pretest"
  /\ start.pc \in {"unsent", "sent"} => attempt.status = "absent"
  /\ \A f \in Finishes : finish[f].pc # "unsent" => screen.phase = "finishing"
  /\ attempt.status = "completed" => \E f \in Finishes : Committed(f)
  /\ \A f \in Finishes : Reading(f) \/ finish[f].pc = "committed" =>
       attempt.status \notin {"absent", "purged"}

GRows == \A q \in Questions : Sane(rows[q])

\* What a request loaded, and the row that is there now.
GLoaded ==
  /\ \A c \in Calls : calls[c].pc = "read" =>
       Sane(calls[c].loaded) /\ Leads(calls[c].loaded, rows[calls[c].q])
  /\ \A f \in Finishes : Reading(f) =>
       \A q \in Questions : Sane(finish[f].rows[q]) /\ Leads(finish[f].rows[q], rows[q])

Counts(a) == <<a.question_count, a.answered_count, a.correct_count>>

\* When every hand-in found nothing under way, nothing writes between its reads
\* and its commit, or after it, but a later hand-in.
GStill ==
  ~straggler =>
    /\ \A f \in Finishes : Reading(f) \/ Committed(f) => ~Outstanding
    /\ \A f \in Finishes : Reading(f) =>
         rows = finish[f].rows /\ Counts(attempt) = Counts(finish[f].loaded)
    /\ \A f, g \in Finishes : Reading(f) /\ Reading(g) => f = g

\* A finished attempt has a verdict on every answer whose key was found.
GGraded ==
  ~straggler =>
    \A q \in Questions, f \in Finishes :
      Answered(rows[q]) /\ rows[q].correct = "unknown" /\ Committed(f) =>
        finish[f].keys[q] = None

AnsweredRows == {q \in Questions : Answered(rows[q])}
RightRows == {q \in Questions : Answered(rows[q]) /\ rows[q].correct = "yes"}

\* The tally is that of the rows.
GTally ==
  ~straggler /\ attempt.status # "purged" /\ (\E f \in Finishes : Committed(f)) =>
    /\ attempt.answered_count = Cardinality(AnsweredRows)
    /\ attempt.correct_count = Cardinality(RightRows)

Counted == {f \in Finishes : finish[f].pc = "done"}

\* The rows are in the aggregates once for every hand-in that is done.
GPerf ==
  \A q \in Questions :
    /\ perf[q].correct <= perf[q].total /\ perf[q].total <= Cardinality(Counted)
    /\ ~straggler /\ attempt.status # "purged" =>
         /\ perf[q].total = IF Answered(rows[q]) THEN Cardinality(Counted) ELSE 0
         /\ HandedInOnce /\ Cardinality(Counted) = 1 =>
              perf[q].correct = IF q \in RightRows THEN 1 ELSE 0

GInv == /\ TypeOK /\ CallsFilled /\ GPhase /\ GRows /\ GLoaded /\ GStill /\ GGraded
        /\ GTally /\ GPerf

LEMMA GInvInit == Init => GInv
<1> SUFFICES ASSUME Init PROVE GInv
  OBVIOUS
<1>1. TypeOK /\ CallsFilled
  BY TypeInit
<1>2. \A f \in Finishes : finish[f].pc = "unsent"
  BY DEF Init
<1>3. \A q \in Questions : rows[q] = Absent
  BY DEF Init, NoRows
<1>4. GPhase /\ GRows /\ GLoaded /\ GStill /\ GGraded /\ GTally
  BY <1>2, <1>3, SnapshotSane
  DEF Init, NoAttempt, GPhase, GRows, GLoaded, GStill, GGraded, GTally, Reading, Committed
<1>5. GPerf
  <2>1. Counted = {} /\ Cardinality(Counted) = 0
    BY <1>2, FS_EmptySet DEF Counted
  <2> QED
    BY <2>1 DEF Init, GPerf
<1> QED
  BY <1>1, <1>4, <1>5 DEF GInv

\* A step that leaves the rows and the counts, and of the hand-ins what they
\* loaded or committed, keeps the invariant.
LEMMA GSame ==
  ASSUME GInv, TypeOK', CallsFilled', GPhase', UNCHANGED <<rows, perf, straggler>>,
         Counts(attempt') = Counts(attempt),
         attempt.status = "purged" <=> attempt'.status = "purged",
         \A f \in Finishes :
           \/ finish'[f] = finish[f]
           \/ ~Reading(f)' /\ ~Committed(f)' /\ ~Committed(f)
           \/ /\ finish[f].pc = "committed" /\ finish'[f].pc = "cut"
              /\ finish'[f].keys = finish[f].keys
           \/ /\ Reading(f) /\ Reading(f)' /\ finish'[f].rows = finish[f].rows
              /\ finish'[f].loaded = finish[f].loaded,
         Outstanding' => Outstanding \/ (\A f \in Finishes : ~Reading(f)' /\ ~Committed(f)'),
         \A c \in Calls : calls'[c].pc = "read" => calls'[c] = calls[c]
  PROVE  GInv'
<1> USE DEF GInv
<1>1. \A f \in Finishes :
        /\ Committed(f)' <=> Committed(f)
        /\ Committed(f) => finish'[f].keys = finish[f].keys
        /\ Reading(f)' => /\ Reading(f) /\ finish'[f].rows = finish[f].rows
                          /\ finish'[f].loaded = finish[f].loaded
        /\ finish'[f].pc = "done" <=> finish[f].pc = "done"
  BY DEF Reading, Committed
<1>2. HandedInOnce' <=> HandedInOnce
  BY <1>1 DEF HandedInOnce
<1>3. Counted' = Counted /\ AnsweredRows' = AnsweredRows /\ RightRows' = RightRows
  BY <1>1 DEF Counted, AnsweredRows, RightRows
<1>4. GRows' /\ GLoaded'
  BY <1>1 DEF GRows, GLoaded
<1>5. GStill'
  BY <1>1 DEF GStill
<1>6. GGraded'
  BY <1>1 DEF GGraded
<1>7. GTally'
  BY <1>1, <1>3 DEF GTally, Counts
<1>8. GPerf'
  BY <1>2, <1>3 DEF GPerf
<1> QED
  BY <1>4, <1>5, <1>6, <1>7, <1>8

\* Clicks and navigation, and the edits of the owner: no call is sent once a
\* hand-in is.
LEMMA GScreenStep ==
  ASSUME GInv, TypeOK', CallsFilled',
         \/ Begin
         \/ \E c \in Calls, q \in Questions, o \in Options : Click(c, q, o)
         \/ \E f \in Finishes : FinishUp(f)
         \/ \E s \in BOOLEAN : Leave(s)
         \/ Edit
  PROVE  GInv'
<1> USE DEF GInv
<1>1. UNCHANGED <<attempt, rows, perf, straggler>>
  BY DEF Begin, Click, FinishUp, Leave, Edit, server
<1>2. /\ \/ UNCHANGED finish
         \/ screen'.phase = "finishing" /\ screen.phase # "pretest"
            /\ \A f \in Finishes : \/ finish'[f] = finish[f]
                                   \/ finish[f].pc = "unsent" /\ finish'[f].pc = "sent"
      /\ \/ screen'.phase = screen.phase /\ UNCHANGED start
         \/ screen.phase = "pretest" /\ screen'.phase = "taking" /\ start'.pc = "sent"
            /\ start.pc = "unsent" /\ UNCHANGED finish
         \/ screen.phase = "taking" /\ screen'.phase = "left" /\ UNCHANGED <<start, finish>>
         \/ screen.phase # "pretest" /\ screen'.phase = "finishing" /\ UNCHANGED start
  <2>1. CASE \E f \in Finishes : FinishUp(f)
    <3>1. PICK f \in Finishes : FinishUp(f)
      BY <2>1
    <3>2. /\ finish' = [finish EXCEPT ![f] = [finish[f] EXCEPT !.pc = "sent"]]
          /\ finish[f].pc = "unsent"
      BY <3>1 DEF FinishUp
    <3>3. \A g \in Finishes : \/ finish'[g] = finish[g]
                              \/ finish[g].pc = "unsent" /\ finish'[g].pc = "sent"
      <4>1. finish[f] \in Finish
        BY DEF TypeOK
      <4>2. finish'[f].pc = "sent" /\ \A g \in Finishes : g # f => finish'[g] = finish[g]
        BY <3>2, <4>1 DEF TypeOK, Finish
      <4> QED
        BY <3>2, <4>2
    <3>4. screen'.phase = "finishing" /\ screen.phase # "pretest" /\ UNCHANGED start
      BY <3>1 DEF FinishUp, TypeOK
    <3> QED
      BY <3>3, <3>4
  <2>2. CASE Begin
    BY <2>2 DEF Begin, TypeOK, GPhase
  <2>3. CASE \E c \in Calls, q \in Questions, o \in Options : Click(c, q, o)
    BY <2>3 DEF Click, TypeOK
  <2>4. CASE (\E s \in BOOLEAN : Leave(s)) \/ Edit
    BY <2>4 DEF Leave, Edit, TypeOK
  <2> QED
    BY <2>1, <2>2, <2>3, <2>4
<1>3. GPhase'
  BY <1>1, <1>2 DEF GPhase, Reading, Committed
<1>4. Outstanding' => Outstanding \/ (\A f \in Finishes : ~Reading(f)' /\ ~Committed(f)')
  <2>1. CASE screen.phase \in {"pretest", "taking"} /\ UNCHANGED finish
    BY <2>1 DEF GPhase, Reading, Committed
  <2>2. CASE \E f \in Finishes : FinishUp(f)
    BY <2>2 DEF FinishUp, Outstanding
  <2>3. CASE Edit
    BY <2>3 DEF Edit, Outstanding
  <2> QED
    BY <2>1, <2>2, <2>3 DEF Begin, Click, Leave
<1>5. \A c \in Calls : calls'[c].pc = "read" => calls'[c] = calls[c]
  BY DEF Begin, Click, FinishUp, Leave, Edit, TypeOK
<1>6. \A f \in Finishes : \/ finish'[f] = finish[f]
                          \/ ~Reading(f)' /\ ~Committed(f)' /\ ~Committed(f)
  BY <1>2 DEF Reading, Committed
<1> QED
  BY <1>1, <1>3, <1>4, <1>5, <1>6, GSame DEF Counts

\* A step of a request that was under way: the rows lead on.
LEMMA GRequestStep ==
  ASSUME GInv, TypeOK', CallsFilled', Outstanding, GPhase',
         UNCHANGED <<finish, perf, straggler>>,
         attempt.status = "purged" <=> attempt'.status = "purged",
         \A q \in Questions : Sane(rows'[q]) /\ Leads(rows[q], rows'[q]),
         \A c \in Calls : calls'[c].pc = "read" =>
           \/ calls'[c] = calls[c]
           \/ UNCHANGED rows /\ calls'[c].q = calls[c].q /\ calls'[c].loaded = rows[calls[c].q]
  PROVE  GInv'
<1> USE DEF GInv
<1>1. ~straggler => \A f \in Finishes : ~Reading(f) /\ ~Committed(f)
  BY DEF GStill
<1>2. GRows'
  BY DEF GRows
<1>3. GLoaded'
  <2>1. ASSUME NEW c \in Calls, calls'[c].pc = "read"
        PROVE  Sane(calls'[c].loaded) /\ Leads(calls'[c].loaded, rows'[calls'[c].q])
    <3>1. calls'[c].q \in Questions
      BY <2>1 DEF CallsFilled
    <3>2. CASE calls'[c] = calls[c]
      BY <2>1, <3>1, <3>2, LeadsOn DEF GLoaded
    <3>3. CASE UNCHANGED rows /\ calls'[c].q = calls[c].q /\ calls'[c].loaded = rows[calls[c].q]
      BY <3>1, <3>3 DEF GRows, Leads
    <3> QED
      BY <2>1, <3>2, <3>3
  <2>2. ASSUME NEW f \in Finishes, Reading(f)', NEW q \in Questions
        PROVE  Sane(finish'[f].rows[q]) /\ Leads(finish'[f].rows[q], rows'[q])
    BY <2>2, LeadsOn DEF GLoaded, Reading
  <2> QED
    BY <2>1, <2>2 DEF GLoaded
<1>4. GStill' /\ GGraded' /\ GTally'
  BY <1>1 DEF GStill, GGraded, GTally, Reading, Committed
<1>5. GPerf'
  <2>1. Counted' = Counted
    BY DEF Counted
  <2>2. ~straggler => Cardinality(Counted) = 0
    <3>1. ~straggler => Counted = {}
      BY <1>1 DEF Counted, Committed
    <3> QED
      BY <3>1, FS_EmptySet
  <2>3. ASSUME NEW q \in Questions, ~straggler
        PROVE  perf[q].total = 0
    BY <2>2, <2>3 DEF GPerf, TypeOK
  <2> QED
    BY <2>1, <2>2, <2>3 DEF GPerf
<1> QED
  BY <1>2, <1>3, <1>4, <1>5

LEMMA GStartStep ==
  ASSUME GInv, TypeOK', CallsFilled', StartCreate \/ StartRead \/ StartCommit \/ StartConflict
  PROVE  GInv'
<1> USE DEF GInv, server
<1>1. /\ Outstanding /\ UNCHANGED <<screen, calls, finish, abandon, perf, straggler>>
      /\ start.pc # "unsent" /\ start'.pc # "unsent"
  BY DEF StartCreate, StartRead, StartCommit, StartConflict, StartEnds, Outstanding, InFlight, TypeOK
<1>2. /\ \/ attempt'.status = attempt.status
         \/ start.pc = "sent" /\ attempt'.status = "in_progress" /\ attempt.status = "absent"
      /\ start'.pc # "sent"
  BY DEF StartCreate, StartRead, StartCommit, StartConflict, StartEnds, TypeOK, AttemptRow, GPhase
<1>3. GPhase'
  <2>1. start.pc = "sent" \/ attempt'.status = attempt.status
    BY <1>2
  <2> QED
    BY <1>1, <1>2, <2>1 DEF GPhase, StartCreate, StartRead, StartCommit, StartConflict, StartEnds,
       TypeOK, Reading, Committed
<1>4. \A q \in Questions : Sane(rows'[q]) /\ Leads(rows[q], rows'[q])
  <2>1. CASE StartCommit
    <3> TAKE q \in Questions
    <3>1. CASE q \in start.seen
      BY <2>1, <3>1 DEF StartCommit, Snapshotted, GRows, Leads
    <3>2. CASE q \notin start.seen
      <4>1. rows[q] = Absent /\ rows'[q] = Snapshot(q)
        BY <2>1, <3>2 DEF StartCommit, Snapshotted, GRows, Sane
      <4> QED
        BY <4>1, SnapshotSane
    <3> QED
      BY <3>1, <3>2
  <2>2. CASE ~StartCommit
    BY <2>2, RowsKept DEF GRows, Leads
  <2> QED
    BY <2>1, <2>2
<1> QED
  BY <1>1, <1>2, <1>3, <1>4, GRequestStep

LEMMA GAnswerStep ==
  ASSUME GInv, TypeOK', CallsFilled', NEW c \in Calls,
         AnswerRead(c) \/ AnswerCommit(c) \/ AnswerConflict(c)
  PROVE  GInv'
<1> USE DEF GInv, server
<1>1. /\ Outstanding /\ UNCHANGED <<screen, start, finish, abandon, attempt, perf, straggler>>
      /\ calls[c].q \in Questions /\ calls[c].opt \in Options
  BY DEF AnswerRead, AnswerCommit, AnswerConflict, Outstanding, InFlight, CallsFilled
<1>2. GPhase'
  BY <1>1 DEF GPhase, Reading, Committed
<1>3. \A q \in Questions : Sane(rows'[q]) /\ Leads(rows[q], rows'[q])
  <2>1. CASE AnswerCommit(c)
    <3> DEFINE p == calls[c].q
               old == calls[c].loaded
    <3>1. /\ rows' = [rows EXCEPT ![p] = Written(rows[p], old, Recorded(old, calls[c].opt))]
          /\ old.stored \/ ~rows[p].stored
          /\ Sane(old) /\ Leads(old, rows[p]) /\ old \in Row
      BY <2>1 DEF AnswerCommit, GLoaded, TypeOK, Call
    <3>2. rows[p] \in Row /\ Sane(rows[p])
      BY <1>1 DEF GRows, TypeOK
    <3>3. rows'[p] = Written(rows[p], old, Recorded(old, calls[c].opt))
      BY <1>1, <3>1 DEF TypeOK
    <3>4. Sane(rows'[p]) /\ Leads(rows[p], rows'[p])
      BY <1>1, <3>1, <3>2, <3>3, AnswerWritten
    <3>5. \A q \in Questions : q # p => rows'[q] = rows[q]
      BY <3>1 DEF TypeOK
    <3> QED
      BY <3>4, <3>5 DEF GRows, Leads
  <2>2. CASE ~AnswerCommit(c)
    BY <2>2, RowsKept DEF GRows, Leads
  <2> QED
    BY <2>1, <2>2
<1>4. ASSUME NEW d \in Calls, calls'[d].pc = "read"
      PROVE  \/ calls'[d] = calls[d]
             \/ UNCHANGED rows /\ calls'[d].q = calls[d].q /\ calls'[d].loaded = rows[calls[d].q]
  <2>1. CASE d = c /\ AnswerRead(c) /\ Exists
    <3>1. calls' = [calls EXCEPT ![c] =
                      [calls[c] EXCEPT !.pc = "read", !.loaded = rows[calls[c].q]]]
      BY <2>1 DEF AnswerRead
    <3> QED
      BY <2>1, <3>1 DEF TypeOK, Call, AnswerRead
  <2>2. CASE d = c /\ ~(AnswerRead(c) /\ Exists)
    BY <1>4, <2>2, EndTypes DEF AnswerRead, AnswerCommit, AnswerConflict, TypeOK, Call
  <2>3. CASE d # c
    BY <2>3 DEF AnswerRead, AnswerCommit, AnswerConflict, TypeOK
  <2> QED
    BY <2>1, <2>2, <2>3
<1> QED
  BY <1>1, <1>2, <1>3, <1>4, GRequestStep

\* A hand-in that commits over the rows it loaded leaves them graded.
LEMMA CommitFresh ==
  ASSUME GInv, NEW f \in Finishes, FinishCommit(f)
  PROVE  /\ finish'[f].pc = "committed" /\ finish'[f].keys = finish[f].keys
         /\ \A g \in Finishes : g # f => finish'[g] = finish[g]
         /\ Reading(f) /\ finish[f].pc = "looked" /\ attempt'.status # "absent"
         /\ \A q \in Questions :
              /\ Sane(rows'[q]) /\ Leads(rows[q], rows'[q])
              /\ ~straggler =>
                   /\ rows'[q] = Graded(f)[q]
                   /\ Answered(rows'[q]) <=> Answered(rows[q])
                   /\ Answered(rows'[q]) /\ rows'[q].correct = "unknown" =>
                        rows'[q] = rows[q] /\ finish[f].keys[q] = None
<1> USE DEF GInv
<1>1. /\ finish[f].pc = "looked" /\ Reading(f)
      /\ finish' = [finish EXCEPT ![f] = FinishEnds(finish[f], "committed")]
  BY DEF FinishCommit, Reading
<1>2. finish[f] \in Finish
  BY DEF TypeOK
<1>3. /\ finish'[f].pc = "committed" /\ finish'[f].keys = finish[f].keys
      /\ \A g \in Finishes : g # f => finish'[g] = finish[g]
  BY <1>1, <1>2, EndTypes DEF TypeOK
<1>4. ASSUME NEW q \in Questions
      PROVE  /\ Sane(rows'[q]) /\ Leads(rows[q], rows'[q])
             /\ ~straggler =>
                  /\ rows'[q] = Graded(f)[q]
                  /\ Answered(rows'[q]) <=> Answered(rows[q])
                  /\ Answered(rows'[q]) /\ rows'[q].correct = "unknown" =>
                       rows'[q] = rows[q] /\ finish[f].keys[q] = None
  <2> DEFINE old == finish[f].rows[q]
             key == finish[f].keys[q]
  <2>1. /\ rows'[q] = IF old.stored THEN Written(rows[q], old, Backfilled(old, key)) ELSE rows[q]
        /\ old \in Row /\ key \in Opt /\ rows[q] \in Row
    BY RowsCommitted
  <2>2. Sane(rows[q]) /\ Sane(old) /\ Leads(old, rows[q]) /\ (~straggler => rows[q] = old)
    BY <1>1 DEF GRows, GLoaded, GStill
  <2>3. Graded(f)[q] = Backfilled(old, key)
    BY GradedType
  <2>4. CASE old.stored
    BY <2>1, <2>2, <2>3, <2>4, BackfillWritten
  <2>5. CASE ~old.stored
    <3>1. ~Answered(old) /\ Backfilled(old, key) = old
      BY <2>5 DEF Answered, Backfilled
    <3> QED
      BY <2>1, <2>2, <2>3, <2>5, <3>1 DEF Leads
  <2> QED
    BY <2>4, <2>5
<1>5. attempt'.status # "absent"
  BY <1>1 DEF FinishCommit, WrittenAttempt, Tallied, Column, GPhase, Reading
<1> QED
  BY <1>1, <1>3, <1>4, <1>5

\* A hand-in that found nothing under way stores the tally of the rows.
LEMMA CommitTally ==
  ASSUME GInv, NEW f \in Finishes, FinishCommit(f), ~straggler
  PROVE  /\ attempt'.answered_count = Cardinality(AnsweredRows')
         /\ attempt'.correct_count = Cardinality(RightRows')
<1> DEFINE new == Tallied(finish[f].loaded, Graded(f))
<1>1. \A q \in Questions : rows'[q] = Graded(f)[q]
  BY CommitFresh
<1>2. /\ new.answered_count = Cardinality({q \in Questions : Answered(Graded(f)[q])})
      /\ new.correct_count = Cardinality({q \in {p \in Questions : Answered(Graded(f)[p])} :
                                            Graded(f)[q].correct = "yes"})
  BY DEF Tallied
<1>3. /\ {q \in Questions : Answered(Graded(f)[q])} = AnsweredRows'
      /\ {q \in {p \in Questions : Answered(Graded(f)[p])} : Graded(f)[q].correct = "yes"}
           = RightRows'
  BY <1>1 DEF AnsweredRows, RightRows
<1>4. Reading(f) /\ Counts(attempt) = Counts(finish[f].loaded)
  BY CommitFresh DEF GInv, GStill
<1>5. /\ attempt'.answered_count = Column(attempt.answered_count, finish[f].loaded.answered_count,
                                          new.answered_count)
      /\ attempt'.correct_count = Column(attempt.correct_count, finish[f].loaded.correct_count,
                                         new.correct_count)
  BY DEF FinishCommit, WrittenAttempt
<1>6. /\ attempt'.answered_count = new.answered_count
      /\ attempt'.correct_count = new.correct_count
  BY <1>4, <1>5 DEF Counts, Column
<1> QED
  BY <1>2, <1>3, <1>6

LEMMA GFinishStep ==
  ASSUME GInv, TypeOK', CallsFilled', NEW f \in Finishes,
         FinishRead(f) \/ FinishLookup(f) \/ FinishCommit(f) \/ FinishAggregate(f)
  PROVE  GInv'
<1> USE DEF GInv, server
<1>0. UNCHANGED <<screen, start, calls, abandon>> /\ finish[f] \in Finish
      /\ \A g \in Finishes : g # f => finish'[g] = finish[g]
  BY DEF FinishRead, FinishLookup, FinishCommit, FinishAggregate, TypeOK
<1>1. CASE FinishRead(f) /\ Exists
  <2>1. /\ UNCHANGED <<attempt, rows, perf>> /\ finish[f].pc = "sent"
        /\ finish'[f] = [finish[f] EXCEPT !.pc = "read", !.loaded = attempt, !.rows = rows]
        /\ straggler' = (straggler \/ Outstanding \/ \E g \in Finishes : Reading(g))
    BY <1>1 DEF FinishRead, TypeOK
  <2>2. finish'[f].pc = "read" /\ finish'[f].loaded = attempt /\ finish'[f].rows = rows
    BY <1>0, <2>1 DEF Finish
  <2>3. /\ \A g \in Finishes : Committed(g)' <=> Committed(g)
        /\ \A g \in Finishes : finish'[g].pc = "done" <=> finish[g].pc = "done"
        /\ \A g \in Finishes : Committed(g) => finish'[g] = finish[g]
        /\ \A g \in Finishes : Reading(g)' => g = f \/ Reading(g)
    BY <1>0, <2>1, <2>2 DEF Committed, Reading
  <2>4. GPhase'
    BY <1>0, <1>1, <2>1, <2>2, <2>3 DEF GPhase, Exists, Reading
  <2>5. GRows' /\ GLoaded'
    <3>1. ASSUME NEW g \in Finishes, Reading(g)', NEW q \in Questions
          PROVE  Sane(finish'[g].rows[q]) /\ Leads(finish'[g].rows[q], rows'[q])
      <4>1. CASE g = f
        BY <2>1, <2>2, <4>1 DEF GRows, Leads
      <4>2. CASE g # f
        BY <1>0, <2>1, <2>3, <3>1, <4>2 DEF GLoaded
      <4> QED
        BY <4>1, <4>2
    <3> QED
      BY <1>0, <2>1, <3>1 DEF GRows, GLoaded
  <2>6. GStill'
    <3>1. Outstanding' <=> Outstanding
      BY <1>0 DEF Outstanding
    <3>2. ~straggler' => ~straggler /\ ~Outstanding /\ \A g \in Finishes : ~Reading(g)
      BY <2>1
    <3>3. ~straggler' => \A g \in Finishes : Reading(g)' => g = f
      BY <2>3, <3>2
    <3> QED
      BY <2>1, <2>2, <2>3, <3>1, <3>2, <3>3 DEF GStill
  <2>7. Counted' = Counted /\ AnsweredRows' = AnsweredRows /\ RightRows' = RightRows
        /\ (HandedInOnce' <=> HandedInOnce)
    <3>1. Counted' = Counted /\ AnsweredRows' = AnsweredRows /\ RightRows' = RightRows
      BY <2>1, <2>3 DEF Counted, AnsweredRows, RightRows
    <3>2. HandedInOnce' <=> HandedInOnce
      BY <2>3 DEF HandedInOnce
    <3> QED
      BY <3>1, <3>2
  <2>8. GGraded'
    <3>1. UNCHANGED rows /\ (~straggler' => ~straggler)
      BY <2>1
    <3> QED
      BY <2>3, <3>1 DEF GGraded
  <2>9. GTally'
    BY <2>1, <2>3, <2>7 DEF GTally
  <2>10. GPerf'
    BY <2>1, <2>7 DEF GPerf
  <2> QED
    BY <2>4, <2>5, <2>6, <2>8, <2>9, <2>10
<1>2. CASE FinishRead(f) /\ ~Exists
  <2>1. /\ UNCHANGED <<attempt, rows, perf, straggler>> /\ finish[f].pc = "sent"
        /\ finish'[f].pc = "failed"
    BY <1>0, <1>2 DEF FinishRead, TypeOK, Finish
  <2>2. GPhase'
    BY <1>0, <2>1 DEF GPhase, Reading, Committed
  <2> QED
    BY <1>0, <2>1, <2>2, GSame DEF Reading, Committed, Outstanding, Counts
<1>3. CASE FinishLookup(f)
  <2>1. /\ UNCHANGED <<attempt, rows, perf, straggler>> /\ finish[f].pc = "read"
        /\ finish'[f].pc = "looked" /\ finish'[f].rows = finish[f].rows
        /\ finish'[f].loaded = finish[f].loaded
    BY <1>0, <1>3 DEF FinishLookup, TypeOK, Finish
  <2>2. GPhase'
    BY <1>0, <2>1 DEF GPhase, Reading, Committed
  <2> QED
    BY <1>0, <2>1, <2>2, GSame DEF Reading, Committed, Outstanding, Counts
<1>4. CASE FinishCommit(f)
  <2>1. UNCHANGED <<perf, straggler>> /\ finish[f].pc = "looked" /\ finish'[f].pc = "committed"
        /\ finish'[f].keys = finish[f].keys
    BY <1>4, CommitFresh DEF FinishCommit
  <2>2. attempt'.status = attempt.status \/ attempt'.status = "completed"
    BY <1>4 DEF FinishCommit, WrittenAttempt, Tallied, Column
  <2>3. attempt.status \notin {"absent", "purged"}
    BY <2>1 DEF GPhase, Reading
  <2>4. \A g \in Finishes : /\ Committed(g)' <=> Committed(g) \/ g = f
                            /\ Reading(g)' <=> Reading(g) /\ g # f
                            /\ finish'[g].pc = "done" <=> finish[g].pc = "done"
    BY <1>0, <2>1 DEF Committed, Reading
  <2>5. GPhase'
    BY <1>0, <2>1, <2>2, <2>3, <2>4 DEF GPhase
  <2>6. GRows'
    BY <1>4, CommitFresh DEF GRows
  <2>7. GLoaded'
    <3>1. ASSUME NEW c \in Calls, calls[c].pc = "read"
          PROVE  Sane(calls[c].loaded) /\ Leads(calls[c].loaded, rows'[calls[c].q])
      <4>1. calls[c].q \in Questions
        BY <3>1 DEF CallsFilled
      <4> QED
        BY <1>4, <3>1, <4>1, CommitFresh, LeadsOn DEF GLoaded
    <3>2. ASSUME NEW g \in Finishes, Reading(g)', NEW q \in Questions
          PROVE  Sane(finish'[g].rows[q]) /\ Leads(finish'[g].rows[q], rows'[q])
      BY <1>0, <1>4, <2>4, <3>2, CommitFresh, LeadsOn DEF GLoaded
    <3> QED
      BY <1>0, <3>1, <3>2 DEF GLoaded
  <2>8. GStill'
    <3>1. ~straggler => \A g \in Finishes : Reading(g) => g = f
      BY <2>1 DEF GStill, Reading
    <3>2. ~straggler => ~Outstanding
      BY <2>1 DEF GStill, Reading
    <3>3. Outstanding' <=> Outstanding
      BY <1>0 DEF Outstanding
    <3>4. ~straggler => \A g \in Finishes : ~Reading(g)'
      BY <2>4, <3>1
    <3> QED
      BY <2>1, <3>2, <3>3, <3>4 DEF GStill
  <2>9. GGraded'
    <3>1. ASSUME ~straggler, NEW q \in Questions, NEW g \in Finishes, Answered(rows'[q]),
                 rows'[q].correct = "unknown", Committed(g)'
          PROVE  finish'[g].keys[q] = None
      <4>1. rows'[q] = rows[q] /\ finish[f].keys[q] = None
        BY <1>4, <3>1, CommitFresh
      <4> QED
        BY <1>0, <2>1, <2>4, <3>1, <4>1 DEF GGraded
    <3> QED
      BY <2>1, <3>1 DEF GGraded
  <2>10. GTally'
    BY <1>4, <2>1, CommitTally DEF GTally
  <2>11. GPerf'
    <3>1. Counted' = Counted
      BY <2>4 DEF Counted
    <3>2. ASSUME HandedInOnce', Cardinality(Counted) = 1
          PROVE  FALSE
      <4>1. Counted # {}
        <5>1. IsFiniteSet(Counted)
          BY CountTypes DEF Counted
        <5> QED
          BY <3>2, <5>1, FS_EmptySet
      <4>2. PICK g \in Finishes : finish[g].pc = "done"
        BY <4>1 DEF Counted
      <4>3. Committed(g)' /\ Committed(f)' /\ g # f
        BY <2>1, <2>4, <4>2 DEF Committed
      <4> QED
        BY <3>2, <4>3 DEF HandedInOnce
    <3>3. ASSUME NEW q \in Questions, ~straggler
          PROVE  Answered(rows'[q]) <=> Answered(rows[q])
      BY <1>4, <3>3, CommitFresh
    <3> QED
      BY <2>1, <2>3, <3>1, <3>2, <3>3 DEF GPerf
  <2> QED
    BY <2>5, <2>6, <2>7, <2>8, <2>9, <2>10, <2>11
<1>5. CASE FinishAggregate(f)
  <2>1. /\ UNCHANGED <<attempt, rows, straggler>> /\ finish[f].pc = "committed"
        /\ finish'[f].pc = "done" /\ finish'[f].keys = finish[f].keys
        /\ \A q \in Questions : perf'[q] = Upserted(perf[q], rows[q])
    BY <1>0, <1>5 DEF FinishAggregate, TypeOK, Finish
  <2>2. \A g \in Finishes : /\ Committed(g)' <=> Committed(g)
                            /\ Reading(g)' <=> Reading(g)
                            /\ Reading(g) => finish'[g] = finish[g]
                            /\ finish'[g].keys = finish[g].keys
    BY <1>0, <2>1 DEF Committed, Reading
  <2>3. GPhase'
    BY <1>0, <2>1, <2>2 DEF GPhase
  <2>4. GRows' /\ GLoaded'
    BY <1>0, <2>1, <2>2 DEF GRows, GLoaded
  <2>5. GStill'
    <3>1. Outstanding' <=> Outstanding
      BY <1>0 DEF Outstanding
    <3> QED
      BY <2>1, <2>2, <3>1 DEF GStill
  <2>6. GGraded' /\ GTally'
    BY <2>1, <2>2 DEF GGraded, GTally, AnsweredRows, RightRows
  <2>7. GPerf'
    <3>1. Counted' = Counted \cup {f} /\ f \notin Counted
      BY <1>0, <2>1 DEF Counted
    <3>2. Cardinality(Counted') = Cardinality(Counted) + 1 /\ Cardinality(Counted) \in Nat
      <4>1. IsFiniteSet(Counted) /\ Cardinality(Counted) \in Nat
        BY CountTypes DEF Counted
      <4> QED
        BY <3>1, <4>1, FS_AddElement
    <3>3. attempt.status # "purged" /\ (HandedInOnce' <=> HandedInOnce)
      BY <2>1, <2>2 DEF GPhase, HandedInOnce
    <3>4. ASSUME NEW q \in Questions
          PROVE  /\ perf'[q].correct <= perf'[q].total
                 /\ perf'[q].total <= Cardinality(Counted')
                 /\ ~straggler => perf'[q].total =
                      IF Answered(rows[q]) THEN Cardinality(Counted') ELSE 0
                 /\ ~straggler /\ Cardinality(Counted') = 1 =>
                      perf'[q].correct = IF q \in RightRows THEN 1 ELSE 0
      <4>1. /\ perf[q].total \in Nat /\ perf[q].correct \in Nat
            /\ perf[q].correct <= perf[q].total /\ perf[q].total <= Cardinality(Counted)
            /\ ~straggler => perf[q].total =
                 IF Answered(rows[q]) THEN Cardinality(Counted) ELSE 0
        BY <3>3 DEF GPerf, TypeOK
      <4>2. CASE Answered(rows[q])
        <5>0. perf'[q] = Upserted(perf[q], rows[q])
          BY <2>1
        <5>1. /\ perf'[q].total = perf[q].total + 1
              /\ perf'[q].correct = perf[q].correct
                                    + (IF rows[q].correct = "yes" THEN 1 ELSE 0)
          BY <4>2, <5>0 DEF Upserted
        <5>2. q \in RightRows <=> rows[q].correct = "yes"
          BY <4>2 DEF RightRows
        <5> QED
          BY <3>2, <4>1, <4>2, <5>1, <5>2
      <4>3. CASE ~Answered(rows[q])
        <5>1. perf'[q] = perf[q] /\ q \notin RightRows
          BY <2>1, <4>3 DEF Upserted, RightRows
        <5> QED
          BY <3>2, <4>1, <4>3, <5>1
      <4> QED
        BY <4>2, <4>3
    <3> QED
      BY <2>1, <3>4 DEF GPerf, RightRows
  <2> QED
    BY <2>3, <2>4, <2>5, <2>6, <2>7
<1> QED
  BY <1>1, <1>2, <1>3, <1>4, <1>5

LEMMA GEndStep ==
  ASSUME GInv, TypeOK', CallsFilled', AbandonCommit \/ Fail \/ Sweep
  PROVE  GInv'
<1> USE DEF GInv, server
<1>1. CASE AbandonCommit
  <2>1. /\ UNCHANGED <<screen, start, calls, finish, rows, perf, straggler>>
        /\ Counts(attempt') = Counts(attempt)
        /\ \/ attempt'.status = attempt.status
           \/ attempt'.status = "abandoned" /\ Exists
    BY <1>1 DEF AbandonCommit, TypeOK, AttemptRow, Counts
  <2>2. GPhase'
    BY <2>1 DEF GPhase, Exists, Reading, Committed
  <2> QED
    BY <2>1, <2>2, GSame DEF Reading, Committed, Outstanding, Exists
<1>2. CASE Fail
  <2>1. UNCHANGED <<screen, attempt, rows, perf, straggler>>
    BY <1>2 DEF Fail
  <2>2. /\ \/ start' = start
           \/ InFlight(start.pc) /\ start'.pc = "failed"
        /\ \A c \in Calls :
             \/ calls'[c] = calls[c]
             \/ InFlight(calls[c].pc) /\ calls'[c].pc = "failed"
    <3>1. start' = start \/ (InFlight(start.pc) /\ start'.pc = "failed")
      BY <1>2 DEF Fail, StartEnds
    <3>2. CASE UNCHANGED calls
      BY <3>1, <3>2
    <3>3. ASSUME NEW d \in Calls, InFlight(calls[d].pc),
                 calls' = [calls EXCEPT ![d] = CallEnds(calls[d], "failed")]
          PROVE  \A c \in Calls : \/ calls'[c] = calls[c]
                                  \/ InFlight(calls[c].pc) /\ calls'[c].pc = "failed"
      BY <3>3, EndTypes DEF TypeOK
    <3> QED
      BY <1>2, <3>1, <3>2, <3>3 DEF Fail
  <2>3. \A f \in Finishes :
             \/ finish'[f] = finish[f]
             \/ /\ InFlight(finish[f].pc) /\ ~Committed(f) /\ finish'[f].pc = "failed"
             \/ /\ finish[f].pc = "committed" /\ finish'[f].pc = "cut"
                /\ finish'[f].keys = finish[f].keys
    <3>1. CASE UNCHANGED finish
      BY <3>1
    <3>2. ASSUME NEW f \in Finishes, InFlight(finish[f].pc),
                 finish' = [finish EXCEPT ![f] = IF Committed(f) THEN FinishEnds(@, "cut")
                              ELSE [FinishEnds(@, "failed") EXCEPT !.keys = Unset]]
          PROVE  \A g \in Finishes :
                   \/ finish'[g] = finish[g]
                   \/ /\ InFlight(finish[g].pc) /\ ~Committed(g) /\ finish'[g].pc = "failed"
                   \/ /\ finish[g].pc = "committed" /\ finish'[g].pc = "cut"
                      /\ finish'[g].keys = finish[g].keys
      <4>1. finish[f] \in Finish
        BY DEF TypeOK
      <4>2. finish'[f] = IF Committed(f) THEN FinishEnds(finish[f], "cut")
                         ELSE [FinishEnds(finish[f], "failed") EXCEPT !.keys = Unset]
        BY <3>2 DEF TypeOK
      <4>3. \A g \in Finishes : g # f => finish'[g] = finish[g]
        BY <3>2 DEF TypeOK
      <4>4. Committed(f) => finish[f].pc = "committed"
        BY <3>2 DEF Committed, InFlight
      <4>5. /\ ~Committed(f) => finish'[f].pc = "failed"
            /\ Committed(f) => finish'[f].pc = "cut" /\ finish'[f].keys = finish[f].keys
        <5>1. /\ FinishEnds(finish[f], "cut").pc = "cut"
              /\ FinishEnds(finish[f], "cut").keys = finish[f].keys
              /\ [FinishEnds(finish[f], "failed") EXCEPT !.keys = Unset].pc = "failed"
          BY <4>1, EndTypes
        <5> QED
          BY <4>2, <5>1
      <4> QED
        BY <3>2, <4>3, <4>4, <4>5
    <3> QED
      BY <1>2, <3>1, <3>2 DEF Fail
  <2>4. Outstanding' => Outstanding
    BY <2>2 DEF Outstanding, InFlight
  <2>5. GPhase'
    <3>1. \A f \in Finishes : /\ Committed(f)' <=> Committed(f)
                              /\ Reading(f)' => Reading(f)
                              /\ finish'[f].pc = "committed" => finish[f].pc = "committed"
                              /\ finish'[f].pc # "unsent" => finish[f].pc # "unsent"
      <4> TAKE f \in Finishes
      <4> QED
        BY <2>3 DEF Committed, Reading, InFlight
    <3>2. start'.pc = start.pc \/ (start.pc # "unsent" /\ start'.pc = "failed")
      BY <2>2 DEF InFlight
    <3> QED
      BY <2>1, <3>1, <3>2 DEF GPhase
  <2>6. \A f \in Finishes :
           \/ finish'[f] = finish[f]
           \/ ~Reading(f)' /\ ~Committed(f)' /\ ~Committed(f)
           \/ /\ finish[f].pc = "committed" /\ finish'[f].pc = "cut"
              /\ finish'[f].keys = finish[f].keys
    BY <2>3 DEF Reading, Committed
  <2> QED
    BY <2>1, <2>2, <2>4, <2>5, <2>6, GSame DEF Counts
<1>3. CASE Sweep
  <2>1. /\ UNCHANGED <<screen, start, calls, finish, abandon, perf, straggler>>
        /\ attempt.status = "abandoned" /\ attempt'.status = "purged" /\ ~Outstanding
        /\ \A f \in Finishes : ~InFlight(finish[f].pc)
        /\ \A q \in Questions : rows'[q] = Absent
    BY <1>3 DEF Sweep, TypeOK, AttemptRow, NoRows
  <2>2. /\ \A f \in Finishes : ~Reading(f) /\ finish[f].pc # "committed"
        /\ \A c \in Calls : calls[c].pc # "read"
    BY <2>1 DEF Reading, Outstanding, InFlight
  <2>3. /\ \A f \in Finishes : (Reading(f)' <=> Reading(f)) /\ (Committed(f)' <=> Committed(f))
        /\ Outstanding' = Outstanding /\ Counted' = Counted
    BY <2>1 DEF Reading, Committed, Outstanding, Counted
  <2>4. GPhase'
    BY <2>1, <2>2, <2>3 DEF GPhase
  <2>5. GRows' /\ GLoaded' /\ GStill'
    BY <2>1, <2>2, <2>3, SnapshotSane DEF GRows, GLoaded, GStill
  <2>6. GGraded' /\ GTally' /\ GPerf'
    BY <2>1, <2>3 DEF GGraded, GTally, GPerf, Answered, Absent
  <2> QED
    BY <2>4, <2>5, <2>6
<1> QED
  BY <1>1, <1>2, <1>3

LEMMA GInvStep == GInv /\ [Next]_vars => GInv'
<1> SUFFICES ASSUME GInv, [Next]_vars PROVE GInv'
  OBVIOUS
<1>1. TypeOK' /\ CallsFilled'
  BY TypeStep DEF GInv
<1>2. CASE UNCHANGED vars
  <2>1. UNCHANGED <<screen, start, calls, finish, attempt, rows, perf, straggler>>
    BY <1>2 DEF vars
  <2>2. GPhase'
    BY <2>1 DEF GInv, GPhase, Reading, Committed
  <2> QED
    BY <1>1, <2>1, <2>2, GSame DEF GInv, Outstanding, Counts
<1>3. CASE Next
  BY <1>1, <1>3, GScreenStep, GStartStep, GAnswerStep, GFinishStep, GEndStep DEF Next
<1> QED
  BY <1>2, <1>3

-----------------------------------------------------------------------------
(* Questions that lock after the first pick (screen.show)                  *)

\* What a row may hold: a missing row is blank, an answer is the user's pick, and
\* the verdict on it is that of the key beside it.
Shape(r, q) ==
  /\ ~r.stored => r = Absent
  /\ r.ans # None => r.stored /\ ~r.skipped /\ r.ans = screen.picked[q]
  /\ r.correct = IF r.snap = None \/ r.ans = None THEN "unknown" ELSE Grade(r.ans, r.snap)

LRows ==
  \A q \in Questions :
    /\ Shape(rows[q], q)
    /\ \A f \in Finishes : Reading(f) => Shape(finish[f].rows[q], q)

\* Every pick is carried by exactly one call.
LPicks ==
  /\ \A c \in Calls : calls[c].pc # "unsent" => screen.picked[calls[c].q] = calls[c].opt
  /\ \A c, d \in Calls :
       calls[c].pc # "unsent" /\ calls[d].pc # "unsent" /\ calls[c].q = calls[d].q => c = d
  /\ \A q \in Questions : screen.picked[q] # None =>
       \E c \in Calls : calls[c].pc # "unsent" /\ calls[c].q = q

\* While a call is in flight its question is unanswered, and the row it loaded is
\* the current one unless its insert is doomed; a finished call is stored.
LCalls ==
  \A c \in Calls :
    /\ calls[c].pc \in {"sent", "read"} => rows[calls[c].q].ans = None
    /\ calls[c].pc = "read" =>
         \/ calls[c].loaded = rows[calls[c].q]
         \/ calls[c].loaded = Absent /\ rows[calls[c].q].stored
    /\ calls[c].pc = "done" /\ attempt.status # "purged" => rows[calls[c].q].ans # None

LInv == GInv /\ (screen.show => LRows /\ LPicks /\ LCalls)

LEMMA LInvInit == Init => LInv
<1> SUFFICES ASSUME Init PROVE LRows /\ LPicks /\ LCalls
  BY GInvInit DEF LInv
<1>1. LRows
  BY DEF Init, LRows, Shape, NoRows, Absent, Reading
<1>2. LPicks /\ LCalls
  BY DEF Init, LPicks, LCalls, Unset
<1> QED
  BY <1>1, <1>2

\* A step that leaves the picks, the rows and the calls in flight alone.
LEMMA LSame ==
  ASSUME LInv, GInv', UNCHANGED rows,
         screen'.show => screen.show /\ screen'.picked = screen.picked,
         attempt'.status = attempt.status \/ attempt.status # "purged",
         \A f \in Finishes : Reading(f)' =>
           finish'[f].rows = rows \/ (Reading(f) /\ finish'[f].rows = finish[f].rows),
         \A c \in Calls :
           /\ calls'[c].q = calls[c].q /\ calls'[c].opt = calls[c].opt
           /\ \/ calls'[c] = calls[c]
              \/ calls[c].pc # "unsent" /\ calls'[c].pc = "failed"
              \/ /\ calls[c].pc = "sent" /\ calls'[c].pc = "read"
                 /\ calls'[c].loaded = rows[calls[c].q]
  PROVE  LInv'
<1> SUFFICES ASSUME screen'.show PROVE LRows' /\ LPicks' /\ LCalls'
  BY DEF LInv
<1> USE DEF LInv
<1>1. LRows'
  BY DEF LRows, Shape
<1>2. LPicks'
  <2>1. \A c \in Calls : calls'[c].pc # "unsent" <=> calls[c].pc # "unsent"
    OBVIOUS
  <2> QED
    BY <2>1 DEF LPicks
<1>3. LCalls'
  BY DEF LCalls
<1> QED
  BY <1>1, <1>2, <1>3

\* The lock is what keeps one call per question.
LEMMA LClickStep ==
  ASSUME LInv, GInv', NEW c \in Calls, NEW q \in Questions, NEW o \in Options, Click(c, q, o)
  PROVE  LInv'
<1> SUFFICES ASSUME screen'.show PROVE LRows' /\ LPicks' /\ LCalls'
  BY DEF LInv
<1> USE DEF LInv, GInv, server
<1>1. /\ screen.show /\ screen.picked[q] = None /\ calls[c].pc = "unsent"
      /\ screen'.picked = [screen.picked EXCEPT ![q] = o]
      /\ screen.picked \in [Questions -> Opt]
  BY DEF Click, TypeOK
<1>2. calls' = [calls EXCEPT ![c] = [pc |-> "sent", q |-> q, opt |-> o, loaded |-> Absent]]
  BY DEF Click
<1>3. UNCHANGED <<start, finish, abandon, attempt, rows, perf, straggler>>
  BY DEF Click
<1>4. /\ rows[q].ans = None
      /\ \A f \in Finishes : Reading(f) => finish[f].rows[q].ans = None
  BY <1>1 DEF LRows, Shape
<1>5. LRows'
  <2>1. \A p \in Questions : p # q => screen'.picked[p] = screen.picked[p]
    BY <1>1
  <2> QED
    BY <1>1, <1>3, <1>4, <2>1 DEF LRows, Shape, Reading
<1>6. \A d \in Calls : calls[d].pc # "unsent" => calls[d].q # q
  BY <1>1 DEF LPicks, CallsFilled
<1>7. LPicks'
  BY <1>1, <1>2, <1>6 DEF LPicks, TypeOK, CallsFilled
<1>8. LCalls'
  BY <1>1, <1>2, <1>3, <1>4 DEF LCalls, TypeOK
<1> QED
  BY <1>5, <1>7, <1>8

\* The rows that a step may write: a snapshot of a missing row, the verdict of an
\* answered one.
LEMMA LRowsStep ==
  ASSUME LInv, GInv', UNCHANGED <<screen, calls>>,
         attempt'.status = attempt.status \/ attempt.status # "purged",
         \A f \in Finishes : Reading(f)' => Reading(f) /\ finish'[f].rows = finish[f].rows,
         \A q \in Questions : screen.show =>
           \/ rows'[q] = rows[q]
           \/ rows[q] = Absent /\ rows'[q] = Snapshot(q)
           \/ Shape(rows'[q], q) /\ rows'[q].ans = rows[q].ans /\ rows[q].ans # None
  PROVE  LInv'
<1> SUFFICES ASSUME screen.show PROVE LRows' /\ LPicks' /\ LCalls'
  BY DEF LInv
<1> USE DEF LInv
<1>1. \A q \in Questions :
        /\ Snapshot(q).stored /\ Snapshot(q).ans = None /\ Snapshot(q).correct = "unknown"
        /\ Absent.ans = None /\ ~Absent.stored
  BY DEF Snapshot, Absent
<1>2. LRows'
  BY <1>1 DEF LRows, Shape
<1>3. LPicks'
  BY DEF LPicks
<1>4. LCalls'
  <2>1. \A c \in Calls : calls[c].pc # "unsent" => calls[c].q \in Questions
    BY DEF GInv, CallsFilled
  <2>2. \A q \in Questions : rows'[q].ans = rows[q].ans
    BY <1>1
  <2>3. \A q \in Questions : rows[q].ans = None /\ rows'[q] # rows[q] =>
                               rows[q] = Absent /\ rows'[q].stored
    BY <1>1
  <2> QED
    BY <2>1, <2>2, <2>3 DEF LCalls
<1> QED
  BY <1>2, <1>3, <1>4

LEMMA LStartStep ==
  ASSUME LInv, GInv', StartCreate \/ StartRead \/ StartCommit \/ StartConflict
  PROVE  LInv'
<1> USE DEF LInv, server
<1>1. CASE StartCommit
  <2>1. /\ UNCHANGED <<screen, calls, finish>> /\ attempt'.status = attempt.status
        /\ \A q \in Questions : rows'[q] = Snapshotted(q)
        /\ \A q \in Questions : q \notin start.seen => ~rows[q].stored
    BY <1>1 DEF StartCommit, GInv, TypeOK
  <2>2. \A q \in Questions : \/ rows'[q] = rows[q]
                             \/ rows[q] = Absent /\ rows'[q] = Snapshot(q)
    BY <2>1 DEF Snapshotted, GInv, GRows, Sane
  <2> QED
    BY <2>1, <2>2, LRowsStep DEF Reading
<1>2. CASE StartCreate \/ StartRead \/ StartConflict
  <2>1. UNCHANGED <<screen, calls, finish, rows>>
    BY <1>2 DEF StartCreate, StartRead, StartConflict
  <2>2. attempt'.status = attempt.status \/ attempt.status # "purged"
    BY <1>2 DEF StartCreate, StartRead, StartConflict, GInv, GPhase
  <2> QED
    BY <2>1, <2>2, LSame DEF Reading
<1> QED
  BY <1>1, <1>2

LEMMA LAnswerStep ==
  ASSUME LInv, GInv', NEW c \in Calls, AnswerRead(c) \/ AnswerCommit(c) \/ AnswerConflict(c)
  PROVE  LInv'
<1> USE DEF LInv, GInv, server
<1>0. UNCHANGED <<screen, start, finish, abandon, attempt, straggler>>
      /\ calls[c] \in Call /\ \A d \in Calls : d # c => calls'[d] = calls[d]
  BY DEF AnswerRead, AnswerCommit, AnswerConflict, TypeOK
<1>1. CASE AnswerRead(c) \/ AnswerConflict(c)
  <2>1. UNCHANGED rows
    BY <1>1, RowsKept
  <2>2. /\ calls'[c].q = calls[c].q /\ calls'[c].opt = calls[c].opt
        /\ calls[c].pc \in {"sent", "read"}
        /\ \/ /\ calls[c].pc = "sent" /\ calls'[c].pc = "read"
              /\ calls'[c].loaded = rows[calls[c].q]
           \/ calls'[c].pc = "failed"
    <3>1. CASE AnswerRead(c) /\ Exists
      BY <1>0, <3>1 DEF AnswerRead, TypeOK, Call
    <3>2. CASE AnswerRead(c) /\ ~Exists
      BY <1>0, <3>2 DEF AnswerRead, TypeOK, Call
    <3>3. CASE AnswerConflict(c)
      BY <3>3, EndTypes DEF AnswerConflict, TypeOK
    <3> QED
      BY <1>1, <3>1, <3>2, <3>3
  <2> QED
    BY <1>0, <2>1, <2>2, LSame DEF Reading
<1>2. CASE AnswerCommit(c)
  <2> DEFINE q == calls[c].q
             r == Recorded(rows[q], calls[c].opt)
  <2> SUFFICES ASSUME screen.show PROVE LRows' /\ LPicks' /\ LCalls'
    BY <1>0
  <2>1. /\ calls[c].pc = "read" /\ q \in Questions /\ calls[c].opt \in Options
        /\ rows[q].ans = None /\ rows[q] \in Row
    BY <1>2 DEF AnswerCommit, LCalls, CallsFilled, TypeOK
  <2>2. calls[c].loaded = rows[q]
    BY <1>2, <2>1 DEF AnswerCommit, LCalls, Absent
  <2>3. r \in Row /\ r.stored
    BY <2>1, RowTypes DEF Recorded, Row
  <2>4. rows' = [rows EXCEPT ![q] = r]
    BY <1>2, <2>1, <2>2, <2>3, WrittenFresh DEF AnswerCommit, TypeOK
  <2>5. /\ r.stored /\ r.ans = calls[c].opt /\ ~r.skipped
        /\ r.snap = rows[q].snap /\ r.ans # None
        /\ r.correct = IF r.snap = None THEN "unknown" ELSE Grade(r.ans, r.snap)
    BY <2>1 DEF Recorded, Row
  <2>6. calls'[c].q = q /\ calls'[c].opt = calls[c].opt /\ calls'[c].pc = "done"
    BY <1>0, <1>2, EndTypes DEF AnswerCommit, TypeOK
  <2>7. rows'[q] = r /\ \A p \in Questions : p # q => rows'[p] = rows[p]
    BY <2>1, <2>4 DEF TypeOK
  <2> HIDE DEF r
  <2>8. LRows'
    BY <1>0, <2>1, <2>5, <2>7 DEF LRows, Shape, LPicks, Reading
  <2>9. LPicks'
    <3>1. \A d \in Calls : /\ calls'[d].q = calls[d].q /\ calls'[d].opt = calls[d].opt
                           /\ calls'[d].pc # "unsent" <=> calls[d].pc # "unsent"
      BY <1>0, <2>1, <2>6
    <3> QED
      BY <1>0, <3>1 DEF LPicks
  <2>10. LCalls'
    <3>1. \A d \in Calls : d # c /\ calls[d].pc # "unsent" =>
            calls[d].q # q /\ calls[d].q \in Questions
      BY <2>1 DEF LPicks, CallsFilled
    <3> QED
      BY <1>0, <2>5, <2>6, <2>7, <3>1 DEF LCalls
  <2> QED
    BY <2>8, <2>9, <2>10
<1> QED
  BY <1>1, <1>2

\* A backfill changes only answered rows, and grades them by the key that it writes.
LEMMA LFinishStep ==
  ASSUME LInv, GInv', NEW f \in Finishes,
         FinishRead(f) \/ FinishLookup(f) \/ FinishCommit(f) \/ FinishAggregate(f)
  PROVE  LInv'
<1> USE DEF LInv, GInv, server
<1>0. UNCHANGED <<screen, start, calls, abandon>> /\ finish[f] \in Finish
      /\ \A g \in Finishes : g # f => finish'[g] = finish[g]
  BY DEF FinishRead, FinishLookup, FinishCommit, FinishAggregate, TypeOK
<1>1. CASE FinishRead(f) \/ FinishLookup(f) \/ FinishAggregate(f)
  <2>1. UNCHANGED <<rows, attempt>>
    BY <1>1 DEF FinishRead, FinishLookup, FinishAggregate
  <2>2. Reading(f)' => finish'[f].rows = rows \/ (Reading(f) /\ finish'[f].rows = finish[f].rows)
    <3>1. CASE FinishRead(f)
      <4>1. finish'[f] \in {[finish[f] EXCEPT !.pc = "read", !.loaded = attempt, !.rows = rows],
                            [finish[f] EXCEPT !.pc = "failed"]}
        BY <3>1 DEF FinishRead, TypeOK
      <4> QED
        BY <1>0, <4>1 DEF Reading, Finish
    <3>2. CASE FinishLookup(f)
      <4>1. /\ finish[f].pc = "read"
            /\ \E found : finish'[f] = [finish[f] EXCEPT !.pc = "looked", !.keys = found]
        BY <3>2 DEF FinishLookup, TypeOK
      <4> QED
        BY <1>0, <4>1 DEF Reading, Finish
    <3>3. CASE FinishAggregate(f)
      <4>1. finish'[f] = [finish[f] EXCEPT !.pc = "done"]
        BY <3>3 DEF FinishAggregate, TypeOK
      <4> QED
        BY <1>0, <4>1 DEF Reading, Finish
    <3> QED
      BY <1>1, <3>1, <3>2, <3>3
  <2> QED
    BY <1>0, <2>1, <2>2, LSame DEF Reading
<1>2. CASE FinishCommit(f)
  <2>1. /\ finish'[f].pc = "committed" /\ Reading(f)
        /\ attempt.status # "purged"
    BY <1>2, CommitFresh DEF GPhase
  <2>2. ASSUME NEW q \in Questions, screen.show
        PROVE  \/ rows'[q] = rows[q]
               \/ Shape(rows'[q], q) /\ rows'[q].ans = rows[q].ans /\ rows[q].ans # None
    <3> DEFINE old == finish[f].rows[q]
               key == finish[f].keys[q]
    <3>1. /\ rows'[q] = IF old.stored THEN Written(rows[q], old, Backfilled(old, key)) ELSE rows[q]
          /\ old \in Row /\ key \in Opt /\ rows[q] \in Row
      BY <1>2, RowsCommitted
    <3>2. Leads(old, rows[q]) /\ Shape(rows[q], q) /\ Shape(old, q)
      BY <2>1, <2>2 DEF GLoaded, LRows
    <3>3. CASE Answered(old) /\ old.snap = None /\ key # None
      <4>1. /\ Backfilled(old, key).stored = old.stored /\ Backfilled(old, key).snap = key
            /\ Backfilled(old, key).ans = old.ans /\ Backfilled(old, key).skipped = old.skipped
            /\ Backfilled(old, key).correct = Grade(old.ans, key)
        BY <3>1, <3>3 DEF Backfilled, Row
      <4>2. Grade(old.ans, key) \in {"yes", "no"} /\ old.correct = "unknown"
        BY <3>2, <3>3 DEF Grade, Shape
      <4>3. /\ rows'[q].stored /\ rows'[q].snap = key /\ rows'[q].ans = rows[q].ans
            /\ rows'[q].skipped = rows[q].skipped /\ rows'[q].correct = Grade(old.ans, key)
        BY <3>1, <3>3, <4>1, <4>2 DEF Written, Column, Answered
      <4>4. rows[q].ans # None /\ rows[q].ans = old.ans /\ ~rows[q].skipped
        BY <3>2, <3>3 DEF Shape, Leads, Answered
      <4> QED
        BY <3>2, <3>3, <4>3, <4>4 DEF Shape
    <3>4. CASE ~(Answered(old) /\ old.snap = None /\ key # None)
      <4>1. Backfilled(old, key) = old
        BY <3>4 DEF Backfilled
      <4> QED
        BY <3>1, <3>2, <4>1, WrittenUnchanged DEF Leads
    <3> QED
      BY <3>3, <3>4
  <2>3. \A g \in Finishes : Reading(g)' => Reading(g) /\ finish'[g].rows = finish[g].rows
    BY <1>0, <2>1 DEF Reading
  <2> QED
    BY <1>0, <2>1, <2>2, <2>3, LRowsStep
<1> QED
  BY <1>1, <1>2

LEMMA LEndStep ==
  ASSUME LInv, GInv', AbandonCommit \/ Fail \/ Sweep
  PROVE  LInv'
<1> USE DEF LInv, GInv, server
<1>1. CASE AbandonCommit
  <2>1. UNCHANGED <<screen, calls, finish, rows>>
        /\ (attempt'.status = attempt.status \/ attempt.status # "purged")
    BY <1>1 DEF AbandonCommit, Exists
  <2> QED
    BY <2>1, LSame DEF Reading
<1>2. CASE Fail
  <2>1. UNCHANGED <<screen, attempt, rows>>
    BY <1>2 DEF Fail
  <2>2. ASSUME NEW c \in Calls, InFlight(calls[c].pc),
               calls' = [calls EXCEPT ![c] = CallEnds(calls[c], "failed")], UNCHANGED finish
        PROVE  LInv'
    <3>1. \A d \in Calls : /\ calls'[d].q = calls[d].q /\ calls'[d].opt = calls[d].opt
                           /\ \/ calls'[d] = calls[d]
                              \/ calls[d].pc # "unsent" /\ calls'[d].pc = "failed"
      BY <2>2, EndTypes DEF TypeOK, InFlight
    <3> QED
      BY <2>1, <2>2, <3>1, LSame DEF Reading
  <2>3. ASSUME NEW f \in Finishes, UNCHANGED calls, InFlight(finish[f].pc),
               finish' = [finish EXCEPT ![f] = IF Committed(f) THEN FinishEnds(@, "cut")
                            ELSE [FinishEnds(@, "failed") EXCEPT !.keys = Unset]]
        PROVE  LInv'
    <3>1. finish[f] \in Finish
      BY DEF TypeOK
    <3>2. ~Reading(f)'
      BY <2>3, <3>1, EndTypes DEF Reading, TypeOK
    <3>3. \A g \in Finishes : g # f => finish'[g] = finish[g]
      BY <2>3 DEF TypeOK
    <3> QED
      BY <2>1, <2>3, <3>2, <3>3, LSame DEF Reading
  <2>4. CASE UNCHANGED <<calls, finish>>
    BY <2>1, <2>4, LSame DEF Reading
  <2> QED
    BY <1>2, <2>2, <2>3, <2>4 DEF Fail
<1>3. CASE Sweep
  <2>1. /\ UNCHANGED <<screen, calls, finish>> /\ attempt'.status = "purged" /\ ~Outstanding
        /\ \A f \in Finishes : ~InFlight(finish[f].pc)
        /\ \A q \in Questions : rows'[q] = Absent
    BY <1>3 DEF Sweep, TypeOK, AttemptRow, NoRows
  <2>2. LRows'
    <3>1. \A q \in Questions : Shape(Absent, q)'
      BY DEF Shape, Absent
    <3>2. \A f \in Finishes : ~Reading(f)'
      BY <2>1 DEF Reading, InFlight
    <3> QED
      BY <2>1, <3>1, <3>2 DEF LRows
  <2>3. screen.show => LPicks' /\ LCalls'
    BY <2>1 DEF LPicks, LCalls, Outstanding, InFlight
  <2> QED
    BY <2>1, <2>2, <2>3
<1> QED
  BY <1>1, <1>2, <1>3

LEMMA LInvStep == LInv /\ [Next]_vars => LInv'
<1> SUFFICES ASSUME LInv, [Next]_vars PROVE LInv'
  OBVIOUS
<1>1. GInv'
  BY GInvStep DEF LInv
<1>2. CASE UNCHANGED vars
  <2>1. UNCHANGED <<screen, calls, finish, attempt, rows>>
    BY <1>2 DEF vars
  <2> QED
    BY <1>1, <2>1, LSame DEF Reading
<1>3. CASE Begin \/ (\E s \in BOOLEAN : Leave(s)) \/ (\E f \in Finishes : FinishUp(f)) \/ Edit
  <2>1. /\ UNCHANGED <<calls, attempt, rows>>
        /\ screen'.show = screen.show /\ screen'.picked = screen.picked
    BY <1>3 DEF Begin, Leave, FinishUp, Edit, server, LInv, GInv, TypeOK
  <2>2. \A f \in Finishes : Reading(f)' => Reading(f) /\ finish'[f].rows = finish[f].rows
    BY <1>3 DEF Begin, Leave, FinishUp, Edit, server, LInv, GInv, TypeOK, Reading, Finish
  <2> QED
    BY <1>1, <2>1, <2>2, LSame
<1>4. CASE Next
  BY <1>1, <1>3, <1>4, LClickStep, LStartStep, LAnswerStep, LFinishStep, LEndStep DEF Next
<1> QED
  BY <1>2, <1>4

-----------------------------------------------------------------------------
(* The counts of a finished attempt                                        *)

Stored == {q \in Questions : rows[q].stored}
SomeCommitted == \E f \in Finishes : Committed(f)

\* Before a hand-in commits, question_count is 0 or right; afterwards it covers the
\* answers counted, and the rows themselves when nothing was under way.
CInv ==
  LET paper == Cardinality(Questions) IN
  /\ attempt.question_count <= paper
  /\ ~SomeCommitted =>
       /\ attempt.question_count \in {0, paper}
       /\ attempt.answered_count = 0 /\ attempt.correct_count = 0
       /\ \A f \in Finishes : Reading(f) =>
            /\ finish[f].loaded.question_count \in {0, paper}
            /\ finish[f].loaded.question_count # 0 => attempt.question_count = paper
            /\ finish[f].loaded.answered_count = 0 /\ finish[f].loaded.correct_count = 0
  /\ SomeCommitted /\ (HandedInOnce \/ ~straggler) =>
       /\ attempt.correct_count <= attempt.answered_count
       /\ attempt.answered_count <= attempt.question_count
  /\ SomeCommitted /\ ~straggler => Cardinality(Stored) <= attempt.question_count

LEMMA CInvInit == Init => CInv
<1> SUFFICES ASSUME Init PROVE CInv
  OBVIOUS
<1>1. ~SomeCommitted
  BY DEF Init, SomeCommitted, Committed
<1> QED
  BY <1>1, CountTypes DEF Init, CInv, NoAttempt, Reading

\* A step that neither counts nor commits.
LEMMA CSame ==
  ASSUME GInv, CInv, Counts(attempt') = Counts(attempt), ~straggler' => ~straggler,
         \A f \in Finishes : Committed(f)' <=> Committed(f),
         \A f \in Finishes : Reading(f)' =>
           \/ Reading(f) /\ finish'[f].loaded = finish[f].loaded
           \/ finish'[f].loaded = attempt,
         \/ UNCHANGED rows
         \/ SomeCommitted /\ ~straggler => Stored' = {}
  PROVE  CInv'
<1>1. /\ attempt'.question_count = attempt.question_count
      /\ attempt'.answered_count = attempt.answered_count
      /\ attempt'.correct_count = attempt.correct_count
  BY DEF Counts
<1>2. (SomeCommitted' <=> SomeCommitted) /\ (HandedInOnce' <=> HandedInOnce)
  BY DEF SomeCommitted, HandedInOnce
<1>3. SomeCommitted /\ ~straggler' => Cardinality(Stored') <= attempt.question_count
  <2>1. attempt.question_count \in Nat /\ Cardinality({}) = 0
    BY FS_EmptySet DEF GInv, TypeOK, AttemptRow
  <2>2. CASE UNCHANGED rows
    <3>1. Stored' = Stored
      BY <2>2 DEF Stored
    <3> QED
      BY <3>1 DEF CInv
  <2>3. CASE SomeCommitted /\ ~straggler => Stored' = {}
    <3>1. ASSUME SomeCommitted, ~straggler'
          PROVE  Stored' = {}
      BY <2>3, <3>1
    <3>2. Stored' = {} => Cardinality(Stored') = 0
      BY <2>1
    <3> QED
      BY <2>1, <3>1, <3>2
  <2> QED
    BY <2>2, <2>3
<1>4. \A f \in Finishes : Reading(f)' /\ ~SomeCommitted =>
        /\ finish'[f].loaded.question_count \in {0, Cardinality(Questions)}
        /\ finish'[f].loaded.question_count # 0 => attempt.question_count = Cardinality(Questions)
        /\ finish'[f].loaded.answered_count = 0 /\ finish'[f].loaded.correct_count = 0
  BY DEF CInv
<1> QED
  BY <1>1, <1>2, <1>3, <1>4 DEF CInv

\* What the commit of a hand-in counts.
LEMMA CCommitStep ==
  ASSUME GInv, CInv, NEW f \in Finishes, FinishCommit(f)
  PROVE  CInv'
<1> USE DEF GInv
<1> DEFINE paper == Cardinality(Questions)
           loaded == finish[f].loaded
           graded == Graded(f)
           stored == {q \in Questions : graded[q].stored}
           answered == {q \in Questions : Answered(graded[q])}
           right == {q \in answered : graded[q].correct = "yes"}
           new == Tallied(loaded, graded)
<1>1. /\ \A g \in Finishes : Committed(g)' <=> Committed(g) \/ g = f
      /\ Reading(f) /\ ~Committed(f) /\ UNCHANGED straggler
      /\ \A g \in Finishes : Reading(g)' => Reading(g) /\ finish'[g] = finish[g]
  BY CommitFresh DEF Committed, Reading, FinishCommit
<1>2. /\ attempt'.question_count = Column(attempt.question_count, loaded.question_count,
                                          new.question_count)
      /\ attempt'.answered_count = Column(attempt.answered_count, loaded.answered_count,
                                          Cardinality(answered))
      /\ attempt'.correct_count = Column(attempt.correct_count, loaded.correct_count,
                                         Cardinality(right))
      /\ new.question_count = CountBackfilled(loaded.question_count, stored)
  BY DEF FinishCommit, WrittenAttempt, Tallied
<1>3. /\ Cardinality(right) <= Cardinality(answered)
      /\ Cardinality(answered) <= Cardinality(stored) /\ Cardinality(stored) <= paper
      /\ Cardinality(right) \in Nat /\ Cardinality(answered) \in Nat /\ Cardinality(stored) \in Nat
      /\ paper \in Nat
  <2>1. right \subseteq answered /\ answered \subseteq stored /\ stored \subseteq Questions
    BY DEF Answered
  <2>2. IsFiniteSet(stored) /\ IsFiniteSet(answered)
    BY <2>1, FS_Subset
  <2> QED
    BY <2>1, <2>2, CountTypes, FS_Subset
<1>4. /\ attempt.question_count \in Nat /\ attempt.question_count <= paper
      /\ loaded.question_count \in Nat
  <2>1. finish[f] \in Finish
    BY DEF TypeOK
  <2> QED
    BY <2>1 DEF TypeOK, AttemptRow, Finish, CInv
<1>5. SomeCommitted'
  BY <1>1 DEF SomeCommitted
<1>6. stored = {} => Cardinality(stored) = 0
  BY FS_EmptySet
<1>7. ~straggler => Stored' = stored
  BY CommitFresh DEF Stored
<1>8. CASE ~SomeCommitted
  <2>1. /\ attempt.answered_count = 0 /\ attempt.correct_count = 0
        /\ loaded.answered_count = 0 /\ loaded.correct_count = 0
        /\ loaded.question_count \in {0, paper}
        /\ loaded.question_count # 0 => attempt.question_count = paper
    BY <1>1, <1>8 DEF CInv
  <2>2. /\ attempt'.answered_count = Cardinality(answered)
        /\ attempt'.correct_count = Cardinality(right)
    BY <1>2, <2>1 DEF Column
  <2>3. attempt'.question_count <= paper /\ Cardinality(stored) <= attempt'.question_count
    <3>1. CASE loaded.question_count # 0
      <4>1. new.question_count = loaded.question_count
        BY <1>2, <3>1 DEF CountBackfilled
      <4>2. attempt'.question_count = paper
        BY <1>2, <2>1, <3>1, <4>1 DEF Column
      <4> QED
        BY <1>3, <4>2
    <3>2. CASE loaded.question_count = 0 /\ stored # {}
      <4>1. new.question_count = Cardinality(stored)
        BY <1>2, <3>2 DEF CountBackfilled
      <4>2. Cardinality(stored) # 0
        <5>1. IsFiniteSet(stored)
          BY FS_Subset
        <5> QED
          BY <3>2, <5>1, FS_EmptySet
      <4>3. attempt'.question_count = Cardinality(stored)
        BY <1>2, <3>2, <4>1, <4>2 DEF Column
      <4> QED
        BY <1>3, <4>3
    <3>3. CASE loaded.question_count = 0 /\ stored = {}
      <4>1. new.question_count = 0
        BY <1>2, <3>3 DEF CountBackfilled
      <4>2. attempt'.question_count = attempt.question_count
        BY <1>2, <3>3, <4>1 DEF Column
      <4> QED
        BY <1>4, <1>6, <3>3, <4>2
    <3> QED
      BY <3>1, <3>2, <3>3
  <2>4. attempt'.question_count \in Nat
    <3>1. new.question_count \in Nat
      BY <1>2, <1>3, <1>4 DEF CountBackfilled
    <3> QED
      BY <1>2, <1>4, <3>1 DEF Column
  <2> HIDE DEF stored, answered, right
  <2>5. attempt'.answered_count <= attempt'.question_count
    BY <1>3, <2>2, <2>3, <2>4
  <2> QED
    BY <1>1, <1>3, <1>5, <1>7, <2>2, <2>3, <2>5 DEF CInv
<1>9. CASE SomeCommitted
  <2>1. ~HandedInOnce'
    <3>1. PICK g \in Finishes : Committed(g)
      BY <1>9 DEF SomeCommitted
    <3>2. Committed(g)' /\ Committed(f)' /\ g # f
      BY <1>1, <3>1
    <3> QED
      BY <3>2 DEF HandedInOnce
  <2>2. attempt'.question_count <= paper
    <3>1. new.question_count # loaded.question_count => new.question_count = Cardinality(stored)
      BY <1>2 DEF CountBackfilled
    <3> QED
      BY <1>2, <1>3, <1>4, <3>1 DEF Column
  <2>3. ASSUME ~straggler
        PROVE  /\ attempt'.correct_count <= attempt'.answered_count
               /\ attempt'.answered_count <= attempt'.question_count
               /\ Cardinality(stored) <= attempt'.question_count
    <3>1. Counts(attempt) = Counts(loaded)
      BY <1>1, <2>3 DEF GStill
    <3>2. /\ attempt'.question_count = new.question_count
          /\ attempt'.answered_count = Cardinality(answered)
          /\ attempt'.correct_count = Cardinality(right)
      BY <1>2, <3>1 DEF Counts, Column
    <3>3. Cardinality(Stored) <= loaded.question_count
      BY <1>9, <2>3, <3>1 DEF CInv, Counts
    <3>4. Stored = stored
      <4>1. \A q \in Questions : rows[q] = finish[f].rows[q]
        BY <1>1, <2>3 DEF GStill
      <4>2. \A q \in Questions : graded[q].stored <=> rows[q].stored
        <5>1. \A r \in Row, k \in Opt : Backfilled(r, k).stored = r.stored
          BY DEF Backfilled, Row
        <5>2. finish[f].keys \in [Questions -> Opt] /\ rows \in [Questions -> Row]
          BY DEF TypeOK, Finish
        <5>3. \A q \in Questions : graded[q] = Backfilled(rows[q], finish[f].keys[q])
          BY <4>1, GradedType
        <5> QED
          BY <5>1, <5>2, <5>3
      <4> QED
        BY <4>2 DEF Stored
    <3>5. Cardinality(stored) <= new.question_count
      <4>1. new.question_count = loaded.question_count
            \/ new.question_count = Cardinality(stored)
        BY <1>2 DEF CountBackfilled
      <4> QED
        BY <1>3, <3>3, <3>4, <4>1
    <3>6. new.question_count \in Nat
      BY <1>2, <1>3, <1>4 DEF CountBackfilled
    <3> HIDE DEF stored, answered, right
    <3> QED
      BY <1>3, <3>2, <3>5, <3>6
  <2> QED
    BY <1>1, <1>5, <1>7, <2>1, <2>2, <2>3 DEF CInv
<1> QED
  BY <1>8, <1>9

LEMMA CInvStep ==
  ASSUME GInv, CInv, [Next]_vars, TypeOK'
  PROVE  CInv'
<1> USE DEF GInv, server
<1>1. CASE UNCHANGED vars
  BY <1>1, CSame DEF vars, Reading, Committed
<1>2. CASE Begin \/ (\E s \in BOOLEAN : Leave(s)) \/ Edit \/ StartRead \/ StartConflict
           \/ (\E c \in Calls, q \in Questions, o \in Options : Click(c, q, o))
           \/ (\E c \in Calls : AnswerRead(c) \/ AnswerConflict(c))
  <2>1. UNCHANGED <<finish, attempt, rows, straggler>>
    BY <1>2 DEF Begin, Leave, Edit, StartRead, StartConflict, Click, AnswerRead, AnswerConflict
  <2> QED
    BY <2>1, CSame DEF Reading, Committed
<1>3. CASE StartCreate \/ AbandonCommit
  <2>1. UNCHANGED <<finish, rows, straggler>> /\ Counts(attempt') = Counts(attempt)
    BY <1>3 DEF StartCreate, AbandonCommit, TypeOK, AttemptRow, Counts
  <2> QED
    BY <2>1, CSame DEF Reading, Committed
<1>4. CASE StartCommit
  <2>1. /\ UNCHANGED <<finish, straggler>> /\ Outstanding
        /\ attempt'.question_count = Cardinality(Questions)
        /\ attempt'.answered_count = attempt.answered_count
        /\ attempt'.correct_count = attempt.correct_count
    BY <1>4 DEF StartCommit, TypeOK, AttemptRow, Outstanding, InFlight
  <2>2. \A f \in Finishes : (Committed(f)' <=> Committed(f)) /\ (Reading(f)' <=> Reading(f))
    BY <2>1 DEF Committed, Reading
  <2>3. (SomeCommitted' <=> SomeCommitted) /\ (HandedInOnce' <=> HandedInOnce)
    BY <2>2 DEF SomeCommitted, HandedInOnce
  <2>4. SomeCommitted => straggler
    BY <2>1 DEF SomeCommitted, GStill
  <2>5. Cardinality(Questions) \in Nat /\ attempt.question_count <= Cardinality(Questions)
        /\ attempt.question_count \in Nat /\ attempt.answered_count \in Nat
    BY CountTypes DEF CInv, TypeOK, AttemptRow
  <2> QED
    BY <2>1, <2>2, <2>3, <2>4, <2>5 DEF CInv
<1>5. ASSUME NEW c \in Calls, AnswerCommit(c)
      PROVE  CInv'
  <2>1. UNCHANGED <<finish, attempt, straggler>> /\ Outstanding
    BY <1>5 DEF AnswerCommit, Outstanding, InFlight
  <2>2. SomeCommitted => straggler
    BY <2>1 DEF SomeCommitted, GStill
  <2> QED
    BY <2>1, <2>2, CSame DEF Reading, Committed
<1>6. ASSUME NEW f \in Finishes, FinishUp(f) \/ FinishRead(f) \/ FinishLookup(f) \/ FinishAggregate(f)
      PROVE  CInv'
  <2>1. UNCHANGED <<attempt, rows>> /\ (~straggler' => ~straggler)
    <3>1. UNCHANGED <<attempt, rows>>
      BY <1>6 DEF FinishUp, FinishRead, FinishLookup, FinishAggregate
    <3>2. CASE FinishRead(f)
      BY <3>1, <3>2, Zenon DEF FinishRead
    <3>3. CASE FinishUp(f) \/ FinishLookup(f) \/ FinishAggregate(f)
      BY <3>1, <3>3 DEF FinishUp, FinishLookup, FinishAggregate
    <3> QED
      BY <1>6, <3>2, <3>3
  <2>2. /\ \A g \in Finishes : g # f => finish'[g] = finish[g]
        /\ finish[f] \in Finish
    BY <1>6 DEF FinishUp, FinishRead, FinishLookup, FinishAggregate, TypeOK
  <2>3. /\ Committed(f)' <=> Committed(f)
        /\ Reading(f)' => \/ Reading(f) /\ finish'[f].loaded = finish[f].loaded
                          \/ finish'[f].loaded = attempt
    <3>1. CASE FinishUp(f) \/ FinishAggregate(f)
      <4>1. \/ finish[f].pc = "unsent" /\ finish'[f] = [finish[f] EXCEPT !.pc = "sent"]
            \/ finish[f].pc = "committed" /\ finish'[f] = [finish[f] EXCEPT !.pc = "done"]
        BY <3>1 DEF FinishUp, FinishAggregate, TypeOK
      <4> QED
        BY <2>2, <4>1 DEF Committed, Reading, Finish
    <3>2. CASE FinishRead(f)
      <4>1. /\ finish[f].pc = "sent"
            /\ finish'[f] \in {[finish[f] EXCEPT !.pc = "read", !.loaded = attempt, !.rows = rows],
                               [finish[f] EXCEPT !.pc = "failed"]}
        BY <3>2 DEF FinishRead, TypeOK
      <4> QED
        BY <2>2, <4>1 DEF Committed, Reading, Finish
    <3>3. CASE FinishLookup(f)
      <4>1. /\ finish[f].pc = "read"
            /\ \E found : finish'[f] = [finish[f] EXCEPT !.pc = "looked", !.keys = found]
        BY <3>3 DEF FinishLookup, TypeOK
      <4> QED
        BY <2>2, <4>1 DEF Committed, Reading, Finish
    <3> QED
      BY <1>6, <3>1, <3>2, <3>3
  <2> QED
    BY <2>1, <2>2, <2>3, CSame DEF Committed, Reading
<1>7. ASSUME NEW f \in Finishes, FinishCommit(f)
      PROVE  CInv'
  BY <1>7, CCommitStep
<1>8. CASE Fail
  <2>1. UNCHANGED <<attempt, rows, straggler>>
    BY <1>8 DEF Fail
  <2>2. CASE UNCHANGED finish
    BY <2>1, <2>2, CSame DEF Reading, Committed
  <2>3. ASSUME NEW f \in Finishes, InFlight(finish[f].pc),
               finish' = [finish EXCEPT ![f] = IF Committed(f) THEN FinishEnds(@, "cut")
                            ELSE [FinishEnds(@, "failed") EXCEPT !.keys = Unset]]
        PROVE  CInv'
    <3>1. finish[f] \in Finish
      BY DEF TypeOK
    <3>2. ~Reading(f)' /\ (Committed(f)' <=> Committed(f))
      <4>1. finish'[f] = IF Committed(f) THEN FinishEnds(finish[f], "cut")
                         ELSE [FinishEnds(finish[f], "failed") EXCEPT !.keys = Unset]
        BY <2>3 DEF TypeOK
      <4>2. finish'[f].pc = IF Committed(f) THEN "cut" ELSE "failed"
        BY <3>1, <4>1, EndTypes
      <4> QED
        BY <4>2 DEF Reading, Committed
    <3>3. \A g \in Finishes : g # f => finish'[g] = finish[g]
      BY <2>3 DEF TypeOK
    <3> QED
      BY <2>1, <3>2, <3>3, CSame DEF Reading, Committed
  <2> QED
    BY <1>8, <2>2, <2>3 DEF Fail
<1>9. CASE Sweep
  <2>1. UNCHANGED <<finish, straggler>> /\ Counts(attempt') = Counts(attempt)
    BY <1>9 DEF Sweep, TypeOK, AttemptRow, Counts
  <2>2. Stored' = {}
    BY <1>9 DEF Sweep, Stored, NoRows, Absent
  <2> QED
    BY <2>1, <2>2, CSame DEF Reading, Committed
<1> QED
  BY <1>1, <1>2, <1>3, <1>4, <1>5, <1>6, <1>7, <1>8, <1>9 DEF Next

-----------------------------------------------------------------------------
(* Theorems                                                                *)

\* Where questions lock, no interleaving of start, the answers and any number of
\* hand-ins leaves a verdict beside an answer or a key it was not computed for
\* (start_attempt, record_answer, finish_attempt).
THEOREM VerdictSound == Spec => []VerdictFollowsAnswer
<1>1. LInv => VerdictFollowsAnswer
  BY DEF LInv, LRows, Shape, VerdictFollowsAnswer, VerdictsFollow
<1> QED
  BY <1>1, LInvInit, LInvStep, PTL DEF Spec

\* There the stored tally is that of the picks whenever all answers were recorded
\* before a hand-in looked, whatever start managed to do (finish_attempt).
THEOREM TallySound == Spec => []FinalTally
<1>1. LInv => FinalTally
  <2> SUFFICES ASSUME LInv, screen.show, attempt.status = "completed", ~straggler, AllRecorded
               PROVE  /\ attempt.correct_count =
                           Cardinality({q \in Questions : /\ screen.picked[q] # None
                                                         /\ screen.picked[q] = rows[q].snap})
                      /\ attempt.answered_count =
                           Cardinality({q \in Questions : screen.picked[q] # None})
    BY DEF FinalTally
  <2> USE DEF LInv, GInv
  <2>1. /\ attempt.answered_count = Cardinality(AnsweredRows)
        /\ attempt.correct_count = Cardinality(RightRows)
    BY DEF GPhase, GTally
  <2>2. ASSUME NEW q \in Questions, screen.picked[q] # None
        PROVE  rows[q].ans # None
    <3>1. PICK c \in Calls : calls[c].pc # "unsent" /\ calls[c].q = q
      BY <2>2 DEF LPicks
    <3>2. calls[c].pc = "done"
      BY <3>1 DEF AllRecorded
    <3> QED
      BY <3>1, <3>2 DEF LCalls
  <2>3. ASSUME NEW q \in Questions
        PROVE  /\ Answered(rows[q]) <=> screen.picked[q] # None
               /\ (Answered(rows[q]) /\ rows[q].correct = "yes")
                    <=> (screen.picked[q] # None /\ screen.picked[q] = rows[q].snap)
    <3>1. Shape(rows[q], q)
      BY DEF LRows
    <3>2. CASE screen.picked[q] = None
      BY <3>1, <3>2 DEF Shape, Answered
    <3>3. CASE screen.picked[q] # None
      <4>1. rows[q].ans = screen.picked[q] /\ Answered(rows[q])
        BY <2>2, <3>1, <3>3 DEF Shape, Answered
      <4> QED
        BY <3>1, <3>3, <4>1 DEF Shape, Grade
    <3> QED
      BY <3>2, <3>3
  <2>4. /\ AnsweredRows = {q \in Questions : screen.picked[q] # None}
        /\ RightRows = {q \in Questions : screen.picked[q] # None /\ screen.picked[q] = rows[q].snap}
    BY <2>3 DEF AnsweredRows, RightRows
  <2> QED
    BY <2>1, <2>4
<1> QED
  BY <1>1, LInvInit, LInvStep, PTL DEF Spec

\* An answer without a verdict in a finished attempt is one whose key no hand-in
\* could find: no option of it was marked, or it was deleted (record_answer, the
\* safety net of finish_attempt, get_correct_option_index).
THEOREM GradesComplete == Spec => []NothingUngraded
<1>1. GInv => NothingUngraded
  BY DEF GInv, GGraded, NothingUngraded
<1> QED
  BY <1>1, GInvInit, GInvStep, PTL DEF Spec

\* The aggregates hold an attempt once for every hand-in that has counted it, and
\* with one hand-in and answers that lock the verdicts on the user's picks
\* (upsert_question_performance, which has no look at completed attempts).
THEOREM AggregatesSound == Spec => []AggregatedPerHandIn
<1>1. LInv => AggregatedPerHandIn
  <2> SUFFICES ASSUME LInv, NEW q \in Questions
               PROVE  /\ perf[q].correct <= perf[q].total
                      /\ perf[q].total <= Cardinality(Counted)
                      /\ ~straggler /\ attempt.status # "purged" =>
                           /\ perf[q].total = IF Answered(rows[q]) THEN Cardinality(Counted) ELSE 0
                           /\ screen.show /\ HandedInOnce /\ Cardinality(Counted) = 1 =>
                                perf[q].correct = IF /\ screen.picked[q] # None /\ Answered(rows[q])
                                                     /\ screen.picked[q] = rows[q].snap
                                                  THEN 1 ELSE 0
    BY DEF AggregatedPerHandIn, Counted
  <2>1. screen.show => Shape(rows[q], q)
    BY DEF LInv, LRows
  <2>2. screen.show =>
          (q \in RightRows <=> screen.picked[q] # None /\ Answered(rows[q])
                               /\ screen.picked[q] = rows[q].snap)
    BY <2>1 DEF Shape, RightRows, Answered, Grade
  <2> QED
    BY <2>2 DEF LInv, GInv, GPerf
<1> QED
  BY <1>1, LInvInit, LInvStep, PTL DEF Spec

\* Whichever of start and finish wrote question_count last, a finished attempt has
\* no more right answers than answers and no more answers than questions, when it
\* was handed in once or no hand-in met a request under way (finish_attempt).
THEOREM TallyInPaper == Spec => []TallyWithinPaper
<1>1. GInv /\ CInv => TallyWithinPaper
  BY DEF GInv, GPhase, CInv, SomeCommitted, TallyWithinPaper
<1>2. GInv /\ CInv /\ [Next]_vars => CInv'
  <2> SUFFICES ASSUME GInv, CInv, [Next]_vars PROVE CInv'
    OBVIOUS
  <2>1. TypeOK'
    BY TypeStep DEF GInv
  <2> QED
    BY <2>1, CInvStep
<1> QED
  BY <1>1, <1>2, CInvInit, GInvInit, GInvStep, PTL DEF Spec
=============================================================================
