----------------------------- MODULE QuestionBank -----------------------------
(***************************************************************************)
(* The questions of one test (table questions) and the requests that       *)
(* change them: add, edit (PATCH) and delete of questions_service, called   *)
(* by the owner's routes and by the change-request worker.  A request is    *)
(* cut at its database statements, because every statement of a READ        *)
(* COMMITTED transaction sees what the others committed before it:          *)
(*                                                                          *)
(*   add      next id; look whether the id is taken; next order_index;      *)
(*            INSERT and commit;                                            *)
(*   edit     read the payload the PATCH is merged into; find the row       *)
(*            again, write the whole payload and commit;                    *)
(*   delete   find the row; DELETE, shift the rows behind it, commit.       *)
(*                                                                          *)
(* A question has two names: the primary key (uid here) and the integer id  *)
(* inside its payload, which is what the API takes.  Only (test,            *)
(* order_index) is unique in the database, checked row by row.  tid is the  *)
(* place of the row version in the heap: an UPDATE appends a new version.   *)
(***************************************************************************)
EXTENDS Integers, FiniteSets, FiniteSetsExt

CONSTANTS
  Writers,   \* the requests
  Seed,      \* number of questions imported with the test
  Fields,    \* top-level keys of a payload that a PATCH carries separately
  Ops        \* what a request may ask for

OpTypes == [kind: {"add", "edit", "delete"}, id: Nat, field: Fields]

ASSUME SeedAssumption == Seed \in Nat
ASSUME FieldsAssumption == Fields # {}
ASSUME OpsAssumption == Ops \subseteq OpTypes
ASSUME WritersAssumption == Writers \cap Int = {}

VARIABLES
  table,    \* the rows
  writer,   \* the requests: progress, and what they read
  named     \* history: which question has had which integer id

bank == <<table, writer, named>>

Uids == Writers \cup 1..Seed
Body == [Fields -> Writers \cup {0}]       \* who wrote the field last
Row == [uid: Uids, id: Nat, index: Nat, tid: Nat, body: Body]

\* The bank as the docx import leaves it: ids from 1, order_index from 0.
Imported(i) == [uid |-> i, id |-> i, index |-> i - 1, tid |-> i,
                body |-> [f \in Fields |-> 0]]

Idle == [pc |-> "idle", op |-> [kind |-> "add", id |-> 0, field |-> CHOOSE f \in Fields : TRUE],
         id |-> 0, index |-> 0, uid |-> 0, body |-> [f \in Fields |-> 0]]

BankTypeOK ==
  /\ table \subseteq Row
  /\ writer \in [Writers ->
       [pc: {"idle", "sent", "numbered", "checked", "placed", "loaded", "found",
             "done", "failed", "refused"},
        op: OpTypes, id: Nat, index: Nat, uid: Uids \cup {0}, body: Body]]
  /\ named \subseteq [id: Nat, uid: Uids]

BankInit ==
  /\ table = {Imported(i) : i \in 1..Seed}
  /\ writer = [w \in Writers |-> Idle]
  /\ named = {[id |-> i, uid |-> i] : i \in 1..Seed}

-----------------------------------------------------------------------------

Running(w) == writer[w].pc \notin {"idle", "done", "failed", "refused"}
Asks(w, kind) == writer[w].op.kind = kind

\* _find_question_row raises when two rows carry the id.
Found(id) == {r \in table : r.id = id}
NextId == 1 + Max({0} \cup {r.id : r \in table})
NextIndex == 1 + Max({-1} \cup {r.index : r \in table})
NextTid == 1 + Max({0} \cup {r.tid : r \in table})
Taken(index) == \E r \in table : r.index = index

Goes(w, pc) == writer' = [writer EXCEPT ![w].pc = pc]
Ends(w, pc) == Goes(w, pc) /\ UNCHANGED <<table, named>>

Submit(w, op) ==
  /\ writer[w].pc = "idle"
  /\ writer' = [writer EXCEPT ![w] = [@ EXCEPT !.pc = "sent", !.op = op]]
  /\ UNCHANGED <<table, named>>

AddNumber(w) ==
  /\ writer[w].pc = "sent" /\ Asks(w, "add")
  /\ writer' = [writer EXCEPT ![w] = [@ EXCEPT !.pc = "numbered", !.id = NextId]]
  /\ UNCHANGED <<table, named>>

CheckedId(w) == IF Found(writer[w].id) = {} THEN writer[w].id ELSE NextId

AddCheck(w) ==
  /\ writer[w].pc = "numbered"
  /\ IF Cardinality(Found(writer[w].id)) > 1
     THEN Goes(w, "failed")
     ELSE writer' = [writer EXCEPT ![w] = [@ EXCEPT !.pc = "checked", !.id = CheckedId(w)]]
  /\ UNCHANGED <<table, named>>

AddPlace(w) ==
  /\ writer[w].pc = "checked"
  /\ writer' = [writer EXCEPT ![w] = [@ EXCEPT !.pc = "placed", !.index = NextIndex]]
  /\ UNCHANGED <<table, named>>

AddCommit(w) ==
  /\ writer[w].pc = "placed" /\ ~Taken(writer[w].index)
  /\ Goes(w, "done")
  /\ table' = table \cup
       {[uid |-> w, id |-> writer[w].id, index |-> writer[w].index, tid |-> NextTid,
         body |-> [f \in Fields |-> w]]}
  /\ named' = named \cup {[id |-> writer[w].id, uid |-> w]}

AddRefused(w) ==
  /\ writer[w].pc = "placed" /\ Taken(writer[w].index)
  /\ Ends(w, "refused")

\* get_question, then the merge: untouched keys are carried over from here.
EditLoad(w) ==
  /\ writer[w].pc = "sent" /\ Asks(w, "edit")
  /\ \/ \E r \in Found(writer[w].op.id) :
          /\ Found(writer[w].op.id) = {r}
          /\ writer' = [writer EXCEPT ![w] = [@ EXCEPT !.pc = "loaded", !.body = r.body]]
     \/ Cardinality(Found(writer[w].op.id)) # 1 /\ Goes(w, "failed")
  /\ UNCHANGED <<table, named>>

\* Mutant: the payload replaced without the merge.
Unmerged(w) == [f \in Fields |-> IF f = writer[w].op.field THEN w ELSE 0]
Merged(w) == [writer[w].body EXCEPT ![writer[w].op.field] = w]

\* replace_question_payload looks the id up again.
EditCommit(w) ==
  /\ writer[w].pc = "loaded"
  /\ \E r \in Found(writer[w].op.id) :
       /\ Found(writer[w].op.id) = {r}
       /\ table' = (table \ {r}) \cup {[r EXCEPT !.body = Merged(w), !.tid = NextTid]}
  /\ Goes(w, "done")
  /\ UNCHANGED named

EditGone(w) ==
  /\ writer[w].pc = "loaded" /\ Cardinality(Found(writer[w].op.id)) # 1
  /\ Ends(w, "failed")

DeleteLoad(w) ==
  /\ writer[w].pc = "sent" /\ Asks(w, "delete")
  /\ \/ \E r \in Found(writer[w].op.id) :
          /\ Found(writer[w].op.id) = {r}
          /\ writer' = [writer EXCEPT ![w] =
               [@ EXCEPT !.pc = "found", !.uid = r.uid, !.index = r.index]]
     \/ Cardinality(Found(writer[w].op.id)) # 1 /\ Goes(w, "failed")
  /\ UNCHANGED <<table, named>>

\* What is left after the DELETE: it may match no row (another request was
\* first), which the ORM only warns about.
Left(w) == {r \in table : r.uid # writer[w].uid}

\* Mutant: rows at the deleted index and behind it are shifted.
BehindAndAt(w) == {r \in Left(w) : r.index >= writer[w].index}
Behind(w) == {r \in Left(w) : r.index > writer[w].index}

\* The bulk UPDATE collides with a row that it does not shift, or that it
\* shifts later.  It visits the rows by index or in heap order: the planner
\* chooses.
Collides(w, inHeapOrder) ==
  \E r \in Behind(w), s \in Left(w) :
    /\ s.index = r.index - 1
    /\ s \in Behind(w) => inHeapOrder /\ s.tid > r.tid

\* Mutant: the unique constraint is not there.
NeverCollides(w) == FALSE
MustCollide(w) == Collides(w, FALSE)

DeleteCommit(w) ==
  /\ writer[w].pc = "found" /\ ~MustCollide(w)
  /\ Goes(w, "done")
  /\ table' = (Left(w) \ Behind(w)) \cup
       {[r EXCEPT !.index = @ - 1, !.tid = @ + NextTid] : r \in Behind(w)}
  /\ UNCHANGED named

DeleteRefused(w) ==
  /\ writer[w].pc = "found"
  /\ Collides(w, TRUE)
  /\ Ends(w, "refused")

\* The request dies before its commit: rolled back.
Drop(w) ==
  /\ Running(w)
  /\ Ends(w, "failed")

Work(w) ==
  \/ AddNumber(w) \/ AddCheck(w) \/ AddPlace(w) \/ AddCommit(w) \/ AddRefused(w)
  \/ EditLoad(w) \/ EditCommit(w) \/ EditGone(w)
  \/ DeleteLoad(w) \/ DeleteCommit(w) \/ DeleteRefused(w)

-----------------------------------------------------------------------------
(* Properties                                                              *)

\* The integer id names one question: otherwise _find_question_row raises, and the
\* question can be neither read, edited nor deleted any more.  And order_index counts
\* from 0 without gaps ("delete + compact order").
LookupUnambiguous == \A r, s \in table : r.id = s.id => r = s
Compact == {r.index : r \in table} = 0..(Cardinality(table) - 1)
Numbered == LookupUnambiguous /\ Compact

\* A PATCH changes the keys it carries, of the question it was merged with, and
\* nothing else, whatever was committed between its read and its write.
PatchKeepsOtherKeys ==
  \A w \in Writers :
    writer[w].pc = "loaded" /\ writer'[w].pc = "done" =>
      \A r \in table, s \in table' :
        r.uid = s.uid =>
          \A f \in Fields : s.body[f] = r.body[f] \/ (f = writer[w].op.field /\ s.body[f] = w)

\* The surviving questions keep their order in the paper, also when deletes
\* shift by an order_index that is no longer that of their row.
OrderKept ==
  [][\A r1, r2 \in table, s1, s2 \in table' :
       s1.uid = r1.uid /\ s2.uid = r2.uid /\ r1.index < r2.index => s1.index < s2.index]_bank

\* A new question comes last in the paper, although its order_index was read
\* before other requests moved the rows.
AddedLast ==
  \A s \in table' : (\A r \in table : r.uid # s.uid) =>
    \A r \in table : r.index < s.index

\* What other requests wrote survives an edit, and a new question goes to the end
\* (update_question, add_question).
BankEdits == [][PatchKeepsOtherKeys /\ AddedLast]_bank

\* The shift of a delete does not trip over the unique constraint when nobody
\* has touched the row or moved another one in between.  It fails when an edit
\* has moved a row version and the UPDATE visits the heap in order.
LoneDeleteSucceeds ==
  [][\A w \in Writers :
       /\ writer[w].pc = "found"
       /\ \E r \in table : r.uid = writer[w].uid /\ r.index = writer[w].index
       /\ Compact
       => writer'[w].pc # "refused"]_bank

\* What an attempt, a flag or a statistic says of id n is about one question:
\* "Cross-references ... survive renumbering".  It fails when the last question
\* is deleted and another one added.
IdNamesOneQuestion == \A p, q \in named : p.id = q.id => p.uid = q.uid
=============================================================================
