-------------------------------- MODULE MCFlow --------------------------------
(* A small instance of Flow: two questions with three options, one without a right one. *)
EXTENDS Flow

CONSTANTS q1, q2

MCTestOrder == <<q1, q2>>
MCMarked == [q \in {q1, q2} |-> IF q = q1 THEN 1 ELSE 3]
\* Options that are shuffled come turned by one place, or with the last two exchanged.
MCDraws == {[o \in 0..2 |-> (o + 1) % 3], [o \in 0..2 |-> IF o = 0 THEN 0 ELSE 3 - o]}
MCPools == {[weak |-> {q1}, flagged |-> {q1, q2}, untaken |-> {}]}

\* What an earlier visit has left in the session storage.
Left(mode, count, reveal, shuffle, limit) ==
  <<[mode |-> mode, source |-> "all", count |-> count, random |-> mode = "exam",
     shuffle |-> shuffle, reveal |-> reveal, limit |-> limit, filter |-> {}, retake |-> FALSE]>>

Tour(pages, next, views, handed, attempts, loads) ==
  [pages |-> pages, next |-> next, views |-> views, handed |-> handed, attempts |-> attempts, loads |-> loads]

MCTours == {
  Tour({"take"}, {}, {FALSE}, Left("exam", 2, FALSE, TRUE, 1), 1, 2),
  Tour({"take"}, {}, {TRUE}, Left("exam", 2, FALSE, TRUE, 1), 1, 2),
  Tour({"take"}, {}, {FALSE}, <<>>, 1, 1),
  Tour({"take"}, {}, {TRUE}, <<>>, 1, 1),
  Tour({"take"}, {}, {TRUE}, Left("training", 2, TRUE, FALSE, 0), 2, 1),
  Tour({"take"}, {}, BOOLEAN, Left("exam", 1, FALSE, FALSE, 1), 1, 1),
  Tour({"take", "results"}, {}, {FALSE}, Left("training", 1, TRUE, FALSE, 0), 1, 1),
  Tour({"take"}, {"results"}, {TRUE}, Left("timed", 1, FALSE, FALSE, 1), 2, 1),
  Tour({"pretest"}, {}, {FALSE}, <<>>, 0, 1),
  Tour({"pretest"}, {}, {TRUE}, Left("training", 2, TRUE, TRUE, 40), 0, 1),
  Tour({"results"}, {}, BOOLEAN, <<>>, 0, 1),
  Tour({"perq"}, {}, {FALSE}, <<>>, 0, 1),
  Tour({"perq"}, {}, {TRUE}, <<>>, 0, 1)}

\* The pre-test alone, on the desktop.
MCExamTours == {Tour({"pretest"}, {}, {FALSE}, <<>>, 0, 1)}
=============================================================================
