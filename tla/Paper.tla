-------------------------------- MODULE Paper --------------------------------
(***************************************************************************)
(* What the screens around one test share: its questions and options, the     *)
(* orders in which they are asked, and the session storage of the browser tab. *)
(***************************************************************************)
EXTENDS Naturals, Sequences, FiniteSets, Functions

CONSTANTS
  TestOrder,    \* the questions in the order of the test
  NOptions,     \* options per question
  Marked,       \* per question, the option that is right in the test; NOptions if none is
  Draws,        \* bound: the orders in which shuffled options may come
  MaxAttempts,  \* bound: attempts begun
  MaxTime       \* bound: clock ticks of a time limit

Questions == {TestOrder[i] : i \in DOMAIN TestOrder}
Options == 0..(NOptions - 1)

\* The orders in which the options of a question may be shown: position to place in the test.
Layouts == Bijection(Options, Options)

Attempts == 1..MaxAttempts
Modes == {"training", "timed", "exam", "mistake_review"}

ASSUME PaperAssumption ==
  /\ TestOrder \in Seq(Questions) /\ IsInjective(TestOrder) /\ TestOrder # <<>>
  /\ NOptions \in Nat \ {0} /\ Marked \in [Questions -> 0..NOptions]
  /\ Draws \subseteq Layouts
  /\ MaxAttempts \in Nat /\ MaxTime \in Nat \ {0}

VARIABLES
  handoff,  \* pretest:<id> in the session storage: <<>>, or <<the settings chosen>>
  results,  \* att:<id>:result in the session storage, for the attempts that have one
  begun,    \* how many attempts were begun: the uuid of each is its number
  asked     \* the attempt in the address of the results screens

paperVars == <<handoff, results, begun, asked>>

NoAnswers == [q \in {} |-> 0]
Answer == [pos: Options, sent: Options, right: BOOLEAN]  \* pos: where the user clicked
AnswerSheets == UNION {[P -> Answer] : P \in SUBSET Questions}

Sources == {"all", "weak", "flagged", "untaken", "new", "flag", "mistakes", "mistake_review"}
\* retake: it names the attempt whose mistakes it is about (mistakeSourceAttemptId).
Handoffs == [mode: Modes, source: Sources, count: Nat, random: BOOLEAN, shuffle: BOOLEAN,
             reveal: BOOLEAN, limit: Nat, filter: SUBSET Questions, retake: BOOLEAN]

PaperTypeOK ==
  /\ Len(handoff) <= 1 /\ Range(handoff) \subseteq Handoffs
  /\ DOMAIN results \subseteq Attempts
  /\ \A a \in DOMAIN results : /\ Range(results[a].paper) \subseteq Questions
                               /\ results[a].answers \in AnswerSheets
  /\ begun \in 0..MaxAttempts
  /\ asked \in 0..MaxAttempts

\* The session storage may hold what an earlier visit handed over.
PaperInit(handed) ==
  /\ handoff = handed
  /\ results = [a \in {} |-> 0]
  /\ begun = 0
  /\ asked = 0

AsInTest == [o \in Options |-> o]
NoLayouts == [q \in {} |-> AsInTest]
LayoutMaps == UNION {[P -> Layouts] : P \in SUBSET Questions}

Noted(f, q, v) == [p \in DOMAIN f \cup {q} |-> IF p = q THEN v ELSE f[p]]

Smaller(a, b) == IF a <= b THEN a ELSE b
Larger(a, b) == IF a <= b THEN b ELSE a

\* The place of a question in the test.
Place(q) == CHOOSE i \in DOMAIN TestOrder : TestOrder[i] = q

\* Paper p goes through the pool in the order of the test and passes over nothing.
InTestOrder(p, pool) ==
  \A i \in DOMAIN p, q \in pool :
    Place(q) < Place(p[i]) => \E j \in DOMAIN p : j < i /\ p[j] = q

\* The papers with n questions of the pool: any order, or that of the test.
Papers(pool, n, random) ==
  {p \in [1..Smaller(n, Cardinality(pool)) -> pool] :
     IsInjective(p) /\ (random \/ InTestOrder(p, pool))}

\* The pool that a handoff leaves: a filter that finds nothing is no filter.
Filtered(h) == IF h.filter = {} THEN Questions ELSE h.filter
=============================================================================
