----------------------------- MODULE AnswerSheet -----------------------------
(***************************************************************************)
(* What a taking screen promises about the answers of an attempt, without the  *)
(* rest: attempts come one after the other, each with an empty sheet of its own; *)
(* an answer is never taken back, and not changed either once answers are shown.  *)
(***************************************************************************)
EXTENDS Naturals

CONSTANTS Questions, Options

VARIABLES
  attempt,  \* the attempt whose sheet is in hand, 0 for none
  last,     \* the last attempt begun anywhere
  locked,   \* an answer stands once given
  sheet     \* question to answer, for the questions answered

Blank == [q \in {} |-> 0]

SheetInit ==
  /\ attempt = 0
  /\ last = 0
  /\ locked \in BOOLEAN
  /\ sheet = Blank

\* A new attempt, never one that was there before.
Begin ==
  /\ last' = last + 1
  /\ attempt' = last'
  /\ sheet' = Blank
  /\ locked' \in BOOLEAN

Mark(q, o) ==
  /\ attempt # 0
  /\ ~(locked /\ q \in DOMAIN sheet)
  /\ sheet' = [p \in DOMAIN sheet \cup {q} |-> IF p = q THEN o ELSE sheet[p]]
  /\ UNCHANGED <<attempt, last, locked>>

PutAway ==
  /\ attempt' = 0
  /\ sheet' = Blank
  /\ UNCHANGED last
  /\ locked' \in BOOLEAN

\* Another screen begins one.
BegunElsewhere ==
  /\ last' = last + 1
  /\ UNCHANGED <<attempt, locked, sheet>>

SheetNext ==
  \/ Begin
  \/ \E q \in Questions, o \in Options : Mark(q, o)
  \/ PutAway
  \/ BegunElsewhere

SheetSpec == SheetInit /\ [][SheetNext]_<<attempt, last, locked, sheet>>
=============================================================================
