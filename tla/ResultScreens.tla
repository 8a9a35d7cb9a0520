---------------------------- MODULE ResultScreens ----------------------------
(***************************************************************************)
(* The result of an attempt and its questions one by one, desktop and phone.   *)
(* The result comes from the session storage or from the server; the question   *)
(* screens install key handlers that can outlive them.                          *)
(***************************************************************************)
EXTENDS Router, Paper

CONSTANT MaxKeys  \* bound: key handlers of the desktop question screen

ASSUME MaxKeysAssumption == MaxKeys \in Nat \ {0}

VARIABLES
  fetches,  \* renderings that wait for the server; fresh: none of its kind came after it
  wrong,    \* the questions that the result on screen counts as mistakes
  keys,     \* keydown handlers of desktop question screens
  phoneKey, \* the keydown handler of the phone's question screen is installed
  flags,    \* the questions that the server has flagged for the user
  marked,   \* the flags as the question screen knows them
  flagging  \* setFlag under way: <<>> or <<[question, flag]>>

resultVars == <<fetches, wrong, keys, phoneKey, flags, marked, flagging>>

ResultTypeOK ==
  /\ fetches \subseteq [page: {"results", "perq"}, narrow: BOOLEAN, fresh: BOOLEAN]
  /\ {wrong, flags, marked} \subseteq SUBSET Questions
  /\ keys \in 0..MaxKeys /\ phoneKey \in BOOLEAN
  /\ Len(flagging) <= 1 /\ Range(flagging) \subseteq [question: Questions, flag: BOOLEAN]

ResultInit ==
  /\ fetches = {} /\ wrong = {} /\ keys = 0 /\ phoneKey = FALSE
  /\ flags = {} /\ marked = {} /\ flagging = <<>>

Mistakes(a) == {q \in DOMAIN results[a].answers : ~results[a].answers[q].right}

Overtaken(p, narrow) ==
  {f \in fetches : f.page # p \/ f.narrow # narrow}
    \cup {[f EXCEPT !.fresh = FALSE] : f \in {g \in fetches : g.page = p /\ g.narrow = narrow}}

\* A result in the session storage is shown at once.
ResultsRender(narrow) ==
  /\ IF asked \in DOMAIN results
       THEN wrong' = Mistakes(asked) /\ fetches' = Overtaken("results", narrow)
       ELSE /\ wrong' = {}
            /\ fetches' = Overtaken("results", narrow)
                            \cup {[page |-> "results", narrow |-> narrow, fresh |-> TRUE]}
  /\ UNCHANGED <<keys, phoneKey, flags, marked, flagging>>

\* The server's result: the desktop paints it wherever the user is; the phone unless a later
\* rendering of the same screen came.  (Bound: all of its answers are mistakes, or none.)  A missing one is an error or the 404 page.
ResultArrives ==
  \E f \in fetches :
    /\ f.page = "results"
    /\ fetches' = fetches \ {f}
    /\ \/ /\ ~f.narrow \/ f.fresh
          /\ Paint("results", f.narrow)
          /\ wrong' \in {{}, Questions}
          /\ Stay
       \/ /\ ~f.narrow
          /\ Paint("error", FALSE)
          /\ UNCHANGED wrong /\ Stay
       \/ /\ f.narrow /\ ~f.fresh
          /\ UNCHANGED <<wrong, shown>> /\ Stay
       \/ /\ f.narrow
          /\ Navigate("404")
          /\ UNCHANGED <<wrong, shown>>
    /\ UNCHANGED <<keys, phoneKey, flags, marked, flagging, paperVars,
                   mounted, page, imports, mobile, signedIn>>

Moves == UNCHANGED <<resultVars, paperVars, placeVars>>

LeaveResults ==
  /\ \E narrow \in BOOLEAN : On("results", narrow)
  /\ \E p \in {"home", "pretest", "perq"} : Navigate(p)
  /\ Moves

\* A mutant: the mistakes of the desktop are not handed over as a filter.
NoFilter == {}

\* The ids of the mistakes that the desktop hands over.
MistakeFilter == wrong

\* The desktop goes straight to an attempt on the mistakes.
RetakeMistakes ==
  /\ On("results", FALSE) /\ wrong # {}
  /\ handoff' = <<[mode |-> "mistake_review", source |-> "mistake_review",
                   count |-> Cardinality(wrong), random |-> FALSE, shuffle |-> FALSE,
                   reveal |-> TRUE, limit |-> 0, filter |-> MistakeFilter,
                   retake |-> TRUE]>>
  /\ Navigate("take")
  /\ UNCHANGED <<resultVars, results, begun, asked, placeVars>>

\* The phone goes to the pre-test with a list of positions that nobody reads.
PhoneRetakeMistakes ==
  /\ On("results", TRUE) /\ wrong # {}
  /\ handoff' = <<[mode |-> "training", source |-> "mistakes",
                   count |-> Cardinality(wrong), random |-> FALSE, shuffle |-> FALSE,
                   reveal |-> TRUE, limit |-> 0, filter |-> {},
                   retake |-> FALSE]>>
  /\ Navigate("pretest")
  /\ UNCHANGED <<resultVars, results, begun, asked, placeVars>>

(***************************************************************************)
(* One question after the other.                                           *)
(***************************************************************************)
\* The phone takes its last key handler down first.
QuestionRender(narrow) ==
  /\ fetches' = Overtaken("perq", narrow) \cup {[page |-> "perq", narrow |-> narrow, fresh |-> TRUE]}
  /\ phoneKey' = (phoneKey /\ ~narrow)
  /\ UNCHANGED <<wrong, keys, flags, marked, flagging>>

\* Flags as the server gives them, or none when that request fails.
QuestionArrives ==
  \E f \in fetches :
    /\ f.page = "perq" /\ ~f.narrow
    /\ fetches' = fetches \ {f}
    /\ \/ /\ keys < MaxKeys
          /\ keys' = keys + 1
          /\ marked' \in {flags, {}}
       \/ UNCHANGED <<keys, marked>>
    /\ UNCHANGED <<wrong, phoneKey, flags, flagging, paperVars, routerVars>>

PhoneQuestionArrives ==
  \E f \in fetches :
    /\ f.page = "perq" /\ f.narrow
    /\ fetches' = fetches \ {f}
    /\ \/ /\ f.fresh
          /\ phoneKey' = TRUE
          /\ marked' \in {flags, {}}
          /\ Paint("perq", TRUE) /\ Stay
       \/ /\ f.fresh
          /\ \E p \in {"404", "results"} : Navigate(p)
          /\ UNCHANGED <<phoneKey, marked, shown>>
       \/ /\ ~f.fresh
          /\ UNCHANGED <<phoneKey, marked, shown>> /\ Stay
    /\ UNCHANGED <<wrong, keys, flags, flagging, paperVars,
                   mounted, page, imports, mobile, signedIn>>

\* The desktop steps without an event: the address is replaced.
Replace(p) == hash' = p /\ rewritten' = TRUE /\ UNCHANGED queued

StepQuestion ==
  /\ keys > 0
  /\ \/ Replace("perq")
     \/ Navigate("results")
  /\ Moves

PhoneStepQuestion ==
  /\ phoneKey
  /\ Go("perq", TRUE)
  /\ Moves

LeaveQuestion ==
  /\ \E narrow \in BOOLEAN : On("perq", narrow)
  /\ Navigate("results")
  /\ Moves

\* A hash event outside the results takes the desktop's handlers down.
KeysAfter(h) == IF h \in {"results", "perq"} THEN keys ELSE 0

\* The button is dead until the server has answered.
FlagClicked ==
  /\ \E narrow \in BOOLEAN : On("perq", narrow)
  /\ flagging = <<>>
  /\ \E q \in Questions : flagging' = <<[question |-> q, flag |-> q \notin marked]>>
  /\ UNCHANGED <<fetches, wrong, keys, phoneKey, flags, marked, paperVars, routerVars>>

\* Set on the server, and then on the screen; a failure changes neither (or only the server).
FlagAnswered ==
  /\ flagging # <<>>
  /\ LET q == flagging[1].question
         set(S) == IF flagging[1].flag THEN S \cup {q} ELSE S \ {q} IN
     \/ flags' = set(flags) /\ marked' = set(marked)
     \/ flags' \in {flags, set(flags)} /\ UNCHANGED marked
  /\ flagging' = <<>>
  /\ UNCHANGED <<fetches, wrong, keys, phoneKey, paperVars, routerVars>>

ResultStep ==
  \/ ResultArrives \/ LeaveResults \/ RetakeMistakes \/ PhoneRetakeMistakes
  \/ QuestionArrives \/ PhoneQuestionArrives \/ StepQuestion \/ PhoneStepQuestion
  \/ LeaveQuestion \/ FlagClicked \/ FlagAnswered

(***************************************************************************)
(* Properties                                                              *)
(***************************************************************************)

\* An attempt handed over as the retake of another one asks nothing but its mistakes, also
\* when the phone's pre-test is filled from what the desktop's result has stored.
AsksMistakes(h) == h.retake => h.filter # {} /\ Cardinality(h.filter) = h.count

MistakesOnly == \A h \in Range(handoff) : AsksMistakes(h)
=============================================================================
