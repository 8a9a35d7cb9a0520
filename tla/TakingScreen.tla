----------------------------- MODULE TakingScreen -----------------------------
(***************************************************************************)
(* The desktop screen on which a test is taken: its modal of settings, the     *)
(* attempt with its clock and its automatic advance, the hand-in and the        *)
(* review.  The state of the module outlives the screen: a clock or a load      *)
(* that is still under way when the user leaves goes on, and paints.            *)
(***************************************************************************)
EXTENDS Router, Paper

CONSTANT MaxLoads  \* bound: renderings that wait for the test at one time

VARIABLE s  \* _s of the module, with the continuations that will use it

untouched == <<mounted, page, imports, mobile, signedIn>>

NoTime == MaxTime + 1

\* The settings that a later attempt finds again; count, order and limit are chosen each time.
Settings == [mode: Modes, show: BOOLEAN, shuffle: BOOLEAN]

TakingInit ==
  s = [phase   |-> "none",     \* "none" until the first rendering
       set     |-> [mode |-> "training", show |-> TRUE, shuffle |-> FALSE],
       paper   |-> <<>>,       \* the questions asked, in order
       order   |-> NoLayouts,  \* _shuffleCache: the order of a question's options, once drawn
       idx     |-> 0,          \* the question on screen, from 0
       answers |-> NoAnswers,
       attempt |-> 0,          \* 0: none
       left    |-> NoTime,     \* the time left
       clock   |-> FALSE,      \* the interval that timerHandle names is running
       leaked  |-> 0,          \* intervals running that no handle names
       advance |-> FALSE,      \* the timer of the automatic advance is running
       loads   |-> {},         \* renderings that wait for the test; review: of an attempt
       saving  |-> {},         \* attempts whose hand-in is under way
       torn    |-> FALSE]      \* history: a rendering began while another one waited

TakingTypeOK ==
  /\ s.phase \in {"none", "loading", "pretest", "taking", "finishing", "review"}
  /\ s.set \in Settings
  /\ Range(s.paper) \subseteq Questions /\ s.order \in LayoutMaps
  /\ s.idx \in 0..(Len(s.paper) + 1)
  /\ s.answers \in AnswerSheets
  /\ s.attempt \in 0..MaxAttempts
  /\ s.left \in 0..NoTime
  /\ {s.clock, s.advance, s.torn} \subseteq BOOLEAN
  /\ s.loads \subseteq [n: 1..MaxLoads, review: 0..MaxAttempts]
  /\ s.saving \subseteq Attempts

Current == s.paper[s.idx + 1]
Last == s.idx + 1 >= Len(s.paper)
Exam == s.set.mode = "exam"

\* A mutant: the order of the options is drawn whenever they are painted.
DrawnAgain(r) == r.set.shuffle

\* The options that buildQuestionArea shuffles: those of a question it has not painted yet.
Unordered(r) == r.set.shuffle /\ r.paper[r.idx + 1] \notin DOMAIN r.order

\* _mount fills the root that the module was last rendered into.
Mount(r) ==
  /\ Paint("take", FALSE)
  /\ IF r.phase = "taking" /\ r.idx < Len(r.paper) /\ Unordered(r)
       THEN \E f \in Draws : s' = [r EXCEPT !.order = Noted(@, r.paper[r.idx + 1], f)]
       ELSE s' = r

(***************************************************************************)
(* render: both timers are cleared and everything but the settings is reset.  *)
(***************************************************************************)
\* A mutant: the timers of the attempt before go on.
TimersKept(r) == [r EXCEPT !.phase = "loading"]

Reset(r) ==
  [r EXCEPT !.phase = "loading", !.paper = <<>>, !.order = NoLayouts, !.idx = 0,
            !.answers = NoAnswers, !.attempt = 0, !.left = NoTime,
            !.clock = FALSE, !.advance = FALSE]

Render(review) ==
  \E n \in 1..MaxLoads :
    /\ \A l \in s.loads : l.n # n
    /\ s' = [Reset(s) EXCEPT !.loads = @ \cup {[n |-> n, review |-> review]},
                             !.torn = @ \/ s.loads # {}]

(***************************************************************************)
(* beginAttempt: the start request is not waited for, the clock starts if      *)
(* there is a limit.  An interval that is still running loses its handle; the    *)
(* orders that an attempt before has drawn stay.                                *)
(***************************************************************************)
Begun(base, paper, timed) ==
  [base EXCEPT !.phase = "taking", !.paper = paper, !.idx = 0,
               !.answers = NoAnswers, !.attempt = begun + 1,
               !.left = IF timed THEN MaxTime ELSE NoTime,
               !.clock = base.clock \/ timed,
               !.leaked = IF base.clock /\ timed THEN 1 ELSE @]

BeginAttempt(base, pool, count, random, timed) ==
  /\ begun < MaxAttempts
  /\ begun' = begun + 1
  /\ \E paper \in Papers(pool, count, random) : Mount(Begun(base, paper, timed))

\* What the handoff of the pre-test sets; an exam never shows answers.
Applied(h) == [mode |-> h.mode, show |-> h.reveal /\ h.mode # "exam", shuffle |-> h.shuffle]

\* The test arrives: a review of a kept result, the attempt that was handed over (once), or
\* the modal.  Whichever rendering waited, and whatever is on screen by now.
Loaded(l) ==
  LET rest == [s EXCEPT !.loads = @ \ {l}] IN
  /\ l \in s.loads
  /\ \/ /\ l.review \in DOMAIN results
        /\ Mount([rest EXCEPT !.phase = "review", !.attempt = l.review, !.idx = 0,
                              !.paper = results[l.review].paper,
                              !.answers = results[l.review].answers])
        /\ UNCHANGED <<handoff, begun>>
     \/ /\ l.review \notin DOMAIN results
        /\ handoff # <<>>
        /\ handoff' = <<>>
        /\ LET h == handoff[1] IN
           BeginAttempt([rest EXCEPT !.set = Applied(h)], Filtered(h), h.count, h.random,
                        h.limit > 0)
     \/ /\ l.review \notin DOMAIN results
        /\ handoff = <<>>
        /\ Mount([rest EXCEPT !.phase = "pretest"])
        /\ UNCHANGED <<handoff, begun>>
  /\ UNCHANGED <<results, asked, hash, queued, rewritten, untouched>>

\* The test cannot be loaded: an error is painted.
LoadFailed(l) ==
  /\ l \in s.loads
  /\ s' = [s EXCEPT !.loads = @ \ {l}]
  /\ Paint("error", FALSE)
  /\ UNCHANGED <<paperVars, hash, queued, rewritten, untouched>>

\* The modal: any settings but the mode, then the start; the settings stay for the next time.
ModalStarts ==
  /\ On("take", FALSE) /\ s.phase = "pretest"
  /\ \E show, shuffle, random, timed \in BOOLEAN, count \in 1..Len(TestOrder) :
       BeginAttempt([s EXCEPT !.set = [@ EXCEPT !.show = show, !.shuffle = shuffle]],
                    Questions, count, random, timed)
  /\ UNCHANGED <<handoff, results, asked, hash, queued, rewritten, untouched>>

ModalCancelled ==
  /\ On("take", FALSE) /\ s.phase = "pretest"
  /\ Navigate("home")
  /\ UNCHANGED <<s, paperVars, placeVars>>

(***************************************************************************)
(* The attempt.                                                            *)
(***************************************************************************)
Taking == On("take", FALSE) /\ s.phase = "taking"

Here == UNCHANGED <<paperVars, hash, queued, rewritten, untouched>>

\* A mutant: the lock of shown answers is forgotten.
AlwaysOpen(q) == TRUE

\* Once answers are shown an answer stands.
MayAnswer(q) == ~(q \in DOMAIN s.answers /\ s.set.show)

\* A mutant: the position is sent.
PositionSent(q, pos) == pos

\* What the screen shows: position to option.
Layout(q) == IF s.set.shuffle THEN s.order[q] ELSE AsInTest

\* The index that is kept and sent: the option's place in the test, not on the screen.
SentIndex(q, pos) == Layout(q)[pos]

OnOptionClick(pos) ==
  /\ Taking /\ s.idx < Len(s.paper)
  /\ MayAnswer(Current)
  /\ LET q == Current
         i == SentIndex(q, pos) IN
     Mount([s EXCEPT !.answers = Noted(@, q, [pos |-> pos, sent |-> i, right |-> i = Marked[q]]),
                     !.advance = @ \/ (s.set.show /\ ~Last)])
  /\ Here

\* A mutant: the advance goes on by itself.
StaysArmed == s.advance

\* Whether the advance is still armed after it has fired.
Rearmed == FALSE

\* 700 ms after the click; Next and the rail do not stop it.
Advance ==
  /\ s.advance
  /\ Mount([s EXCEPT !.advance = Rearmed, !.idx = @ + 1])
  /\ Here

Next_ ==
  /\ Taking /\ ~Last
  /\ Mount([s EXCEPT !.idx = @ + 1])
  /\ Here

\* A mutant: Previous is offered in an exam too.
BackOffered == s.idx > 0

MayGoBack == s.idx > 0 /\ ~Exam

Previous ==
  /\ Taking /\ MayGoBack
  /\ Mount([s EXCEPT !.idx = @ - 1])
  /\ Here

\* A cell of the rail, dead in an exam.
Jump ==
  /\ Taking /\ ~Exam
  /\ \E i \in 0..(Len(s.paper) - 1) : i # s.idx /\ Mount([s EXCEPT !.idx = i])
  /\ Here

\* Confirmed: the timers stop and an abandon request goes out.
Close ==
  /\ Taking
  /\ s' = [s EXCEPT !.clock = FALSE, !.advance = FALSE]
  /\ Navigate("home")
  /\ UNCHANGED <<paperVars, placeVars>>

(***************************************************************************)
(* finishUp, and what happens when the answer of the hand-in has come: the     *)
(* result kept is made of what the module holds by then.                        *)
(***************************************************************************)
FinishUp(base) ==
  Mount([base EXCEPT !.clock = FALSE, !.advance = FALSE, !.phase = "finishing",
                     !.saving = @ \cup {s.attempt}])

Finish ==
  /\ Taking /\ Last
  /\ FinishUp(s)
  /\ Here

\* A second of a running interval.  At zero the handle is cleared and an exam handed in, now
\* and whenever a leaked interval finds it at zero.
Tick ==
  /\ s.clock \/ s.leaked > 0
  /\ s.left # NoTime
  /\ LET left == IF s.left = 0 THEN 0 ELSE s.left - 1
         ticked == [s EXCEPT !.left = left, !.clock = @ /\ left > 0] IN
     IF left = 0 /\ Exam THEN FinishUp(ticked) ELSE s' = ticked /\ UNCHANGED shown
  /\ s' # s
  /\ Here

\* A mutant: a failed hand-in keeps nothing.
KeptIfAnswered(a, answered) ==
  IF answered THEN [b \in DOMAIN results \cup {a} |->
                      IF b = a THEN [paper |-> s.paper, answers |-> s.answers] ELSE results[b]]
              ELSE results

\* The result in the session storage: with or without the answer of the server.
Kept(a, answered) ==
  [b \in DOMAIN results \cup {a} |->
     IF b = a THEN [paper |-> s.paper, answers |-> s.answers] ELSE results[b]]

FinishReturned(a, answered) ==
  /\ a \in s.saving
  /\ s' = [s EXCEPT !.saving = @ \ {a}]
  /\ results' = Kept(a, answered)
  /\ asked' = a
  /\ Go("results", asked # a)
  /\ UNCHANGED <<handoff, begun, placeVars>>

(***************************************************************************)
(* The review, reached by an address only.                                   *)
(***************************************************************************)
Reviewing == On("take", FALSE) /\ s.phase = "review"

ReviewMoves ==
  /\ Reviewing
  /\ \E i \in 0..(Len(s.paper) - 1) : i # s.idx /\ Mount([s EXCEPT !.idx = i])
  /\ Here

ReviewLeft ==
  /\ Reviewing
  /\ asked' = s.attempt
  /\ Go("results", asked # s.attempt)
  /\ UNCHANGED <<s, handoff, results, begun, placeVars>>

TakingStep ==
  \/ \E l \in s.loads : Loaded(l) \/ LoadFailed(l)
  \/ ModalStarts \/ ModalCancelled
  \/ \E pos \in Options : OnOptionClick(pos)
  \/ Advance \/ Next_ \/ Previous \/ Jump \/ Close \/ Finish \/ Tick
  \/ \E a \in s.saving, answered \in BOOLEAN : FinishReturned(a, answered)
  \/ ReviewMoves \/ ReviewLeft

(***************************************************************************)
(* Properties                                                              *)
(***************************************************************************)

\* The server grades what the user sees picked.  startAttempt sends the options as in the test:
\* there, the index sent names the option that is on the screen where the user clicked, at every
\* painting of the question until the end; and the verdict shown is that of the index sent.
GradedAsPicked ==
  s.phase = "taking" =>
    \A q \in DOMAIN s.answers :
      /\ s.answers[q].sent = Layout(q)[s.answers[q].pos]
      /\ s.answers[q].right <=> s.answers[q].sent = Marked[q]

\* One clock per attempt: unless a rendering overtook another one, no interval is running
\* without a handle, and none outlives its attempt (render, finishUp and the close button).
OneClock == ~s.torn => s.leaked = 0 /\ (s.clock => s.phase = "taking")

\* The advance and the user together go at most one question too far.
NearPaper == s.phase = "taking" => s.idx <= Len(s.paper)

\* In an exam there is no way back within an attempt: not by buttons, rail or timers.
ExamForward ==
  [][(s.phase = "taking" /\ Exam /\ s'.phase = "taking" /\ s'.attempt = s.attempt)
       => s'.idx >= s.idx]_s

\* Whoever sees the end of an attempt has its hand-in under way or its result kept, whatever the
\* server said and however often the clock ran out.
NeverStranded == s.phase = "finishing" => s.attempt \in s.saving \cup DOMAIN results
=============================================================================
