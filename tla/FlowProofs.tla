------------------------------- MODULE FlowProofs -------------------------------
(***************************************************************************)
(* Proofs about taking a test, for any test, any tour and any number of          *)
(* attempts and of renderings that wait: the place of the user, and what the      *)
(* two taking screens, the pre-tests and the results keep.                        *)
(***************************************************************************)
EXTENDS Flow, RouterProofs, FiniteSetTheorems, SequenceTheorems, WellFoundedInduction

-----------------------------------------------------------------------------
(* The place of the user                                                    *)

\* Pages that the screens name.
LEMMA FlowNamed ==
  /\ {"home", "take", "pretest", "results", "perq", "403", "404"} \subseteq Addresses \ {""}
  /\ {"take", "pretest", "results", "perq", "error"} \subseteq Screens \cup {"error"}
  BY DEF Addresses, Screens, Private, Public

LEMMA DesktopPlaced == Desktop!TakingStep => Placed
  <1> SUFFICES ASSUME Desktop!TakingStep PROVE Placed
    OBVIOUS
  <1> USE DEF Desktop!Mount, Desktop!Paint, Desktop!Here, Desktop!untouched, Desktop!placeVars,
          Desktop!Navigate, Desktop!Go
  <1>1. ASSUME NEW r, Desktop!Mount(r), UNCHANGED <<hash, queued, rewritten, Desktop!untouched>>
        PROVE  Placed
    BY <1>1, Paints, FlowNamed DEF Paint
  <1>2. ASSUME NEW p \in Addresses \ {""}, NEW other \in BOOLEAN, Desktop!Go(p, other),
               UNCHANGED placeVars
        PROVE  Placed
    BY <1>2, Goes DEF Go
  <1>3. ASSUME NEW l, Desktop!Loaded(l) PROVE Placed
    BY <1>1, <1>3 DEF Desktop!Loaded, Desktop!BeginAttempt
  <1>4. ASSUME NEW l, Desktop!LoadFailed(l) PROVE Placed
    BY <1>4, Paints, FlowNamed DEF Desktop!LoadFailed, Paint
  <1>5. CASE Desktop!ModalStarts
    BY <1>1, <1>5 DEF Desktop!ModalStarts, Desktop!BeginAttempt
  <1>6. CASE Desktop!ModalCancelled \/ Desktop!Close
    BY <1>2, <1>6, FlowNamed DEF Desktop!ModalCancelled, Desktop!Close, placeVars
  <1>7. ASSUME NEW pos, Desktop!OnOptionClick(pos) PROVE Placed
    BY <1>1, <1>7 DEF Desktop!OnOptionClick
  <1>8. CASE Desktop!Advance \/ Desktop!Next_ \/ Desktop!Previous \/ Desktop!Jump
    BY <1>1, <1>8 DEF Desktop!Advance, Desktop!Next_, Desktop!Previous, Desktop!Jump
  <1>9. CASE Desktop!Finish
    BY <1>1, <1>9 DEF Desktop!Finish, Desktop!FinishUp
  <1>10. CASE Desktop!Tick
    <2>1. (\E r : Desktop!Mount(r)) \/ UNCHANGED shown
      BY <1>10 DEF Desktop!Tick, Desktop!FinishUp
    <2> QED BY <1>1, <1>10, <2>1 DEF Desktop!Tick, Placed, routerVars
  <1>11. ASSUME NEW a, NEW answered, Desktop!FinishReturned(a, answered) PROVE Placed
    BY <1>2, <1>11, FlowNamed DEF Desktop!FinishReturned, placeVars
  <1>12. CASE Desktop!ReviewMoves
    BY <1>1, <1>12 DEF Desktop!ReviewMoves
  <1>13. CASE Desktop!ReviewLeft
    BY <1>2, <1>13, FlowNamed DEF Desktop!ReviewLeft, placeVars
  <1> QED BY <1>3, <1>4, <1>5, <1>6, <1>7, <1>8, <1>9, <1>10, <1>11, <1>12, <1>13
          DEF Desktop!TakingStep

LEMMA PhonePlaced == Phone!PhoneStep => Placed
  <1> SUFFICES ASSUME Phone!PhoneStep PROVE Placed
    OBVIOUS
  <1> USE DEF Phone!PhoneMount, Phone!Paint, Phone!PhoneHere, Phone!untouched, Phone!placeVars,
          Phone!Navigate, Phone!Go
  <1>1. ASSUME Phone!PhoneMount, UNCHANGED <<hash, queued, rewritten, Phone!untouched>>
        PROVE  Placed
    BY <1>1, Paints, FlowNamed DEF Paint
  <1>2. ASSUME NEW p \in Addresses \ {""}, NEW other \in BOOLEAN, Phone!Go(p, other),
               UNCHANGED placeVars
        PROVE  Placed
    BY <1>2, Goes DEF Go
  <1>3. ASSUME NEW l, Phone!PhoneLoaded(l) PROVE Placed
    BY <1>1, <1>3 DEF Phone!PhoneLoaded, Phone!PhoneBegin
  <1>4. ASSUME NEW l, Phone!PhoneLoadFailed(l) PROVE Placed
    BY <1>4, Paints, FlowNamed DEF Phone!PhoneLoadFailed, Paint
  <1>5. CASE Phone!PhoneModalStarts
    BY <1>1, <1>5 DEF Phone!PhoneModalStarts, Phone!PhoneBegin
  <1>6. CASE Phone!PhoneModalBack \/ Phone!PhoneClose
    BY <1>2, <1>6, FlowNamed, LinksAssumption
       DEF Phone!PhoneModalBack, Phone!PhoneClose, placeVars
  <1>7. ASSUME NEW pos, Phone!PhoneOptionClick(pos) PROVE Placed
    BY <1>1, <1>7 DEF Phone!PhoneOptionClick
  <1>8. CASE Phone!PhoneAdvance \/ Phone!PhoneNext \/ Phone!PhonePrevious
    BY <1>1, <1>8 DEF Phone!PhoneAdvance, Phone!PhoneNext, Phone!PhonePrevious
  <1>9. CASE Phone!Drawer \/ Phone!PhoneJump
    BY <1>1, <1>9 DEF Phone!Drawer, Phone!PhoneJump
  <1>10. CASE Phone!PhoneFinish
    BY <1>1, <1>10 DEF Phone!PhoneFinish, Phone!PhoneFinishUp
  <1>11. CASE Phone!PhoneTick
    <2>1. Phone!PhoneMount \/ UNCHANGED shown
      BY <1>11 DEF Phone!PhoneTick, Phone!PhoneFinishUp
    <2> QED BY <1>1, <1>11, <2>1 DEF Phone!PhoneTick, Placed, routerVars
  <1>12. ASSUME NEW a, NEW answered, Phone!PhoneFinishReturned(a, answered) PROVE Placed
    BY <1>2, <1>12, FlowNamed DEF Phone!PhoneFinishReturned, placeVars
  <1> QED BY <1>3, <1>4, <1>5, <1>6, <1>7, <1>8, <1>9, <1>10, <1>11, <1>12
          DEF Phone!PhoneStep

LEMMA PretestPlaced == PretestStep => Placed
  <1> SUFFICES ASSUME PretestStep PROVE Placed
    OBVIOUS
  <1>1. CASE \/ TestArrives \/ ChooseMode \/ ChooseCount \/ ChooseSource \/ ChooseTime \/ Toggle
    BY <1>1 DEF TestArrives, ChooseMode, ChooseCount, ChooseSource, ChooseTime, Toggle, Chosen,
       Placed
  <1>2. CASE \/ PhoneChooseMode \/ PhoneChooseCount \/ PhoneChooseSource \/ PhoneChooseTime
             \/ PhoneToggle
    BY <1>2 DEF PhoneChooseMode, PhoneChooseCount, PhoneChooseSource, PhoneChooseTime,
       PhoneToggle, Chosen, Placed
  <1>3. CASE TestRefused \/ PhoneTestMissing
    <2>1. (Navigate("403") \/ Navigate("404") \/ Stay) /\ UNCHANGED placeVars
      BY <1>3 DEF TestRefused, PhoneTestMissing
    <2> QED BY <2>1, Navigates, Stays, FlowNamed
  <1>4. CASE Start \/ PhoneStart
    <2>1. (Navigate("take") \/ Stay) /\ UNCHANGED placeVars
      BY <1>4 DEF Start, PhoneStart, Stay
    <2> QED BY <2>1, Navigates, Stays, FlowNamed
  <1>5. CASE Cancel
    BY <1>5, Navigates, FlowNamed DEF Cancel
  <1>6. CASE PhoneTestArrives
    <2>1. /\ Paint("pretest", TRUE) \/ UNCHANGED shown
          /\ UNCHANGED <<hash, queued, rewritten, page, imports, mounted, mobile, signedIn>>
      BY <1>6 DEF PhoneTestArrives
    <2> QED BY <2>1, Paints, FlowNamed DEF Placed, routerVars
  <1> QED BY <1>1, <1>2, <1>3, <1>4, <1>5, <1>6 DEF PretestStep

LEMMA ResultPlaced ==
  ASSUME \A f \in fetches : f.narrow \in BOOLEAN, ResultStep
  PROVE  Placed
  <1>1. CASE LeaveResults \/ LeaveQuestion
    <2>1. PICK p \in {"home", "pretest", "perq", "results"} : Navigate(p)
      BY <1>1 DEF LeaveResults, LeaveQuestion
    <2> QED BY <1>1, <2>1, Navigates, FlowNamed DEF LeaveResults, LeaveQuestion, Moves
  <1>2. CASE RetakeMistakes \/ PhoneRetakeMistakes
    <2>1. (Navigate("take") \/ Navigate("pretest")) /\ UNCHANGED placeVars
      BY <1>2 DEF RetakeMistakes, PhoneRetakeMistakes
    <2> QED BY <2>1, Navigates, FlowNamed
  <1>3. CASE QuestionArrives \/ FlagClicked \/ FlagAnswered
    BY <1>3 DEF QuestionArrives, FlagClicked, FlagAnswered, Placed
  <1>4. CASE StepQuestion
    <2>1. UNCHANGED placeVars
      BY <1>4 DEF StepQuestion, Moves
    <2>2. CASE Navigate("results")
      BY <2>1, <2>2, Navigates, FlowNamed
    <2>3. CASE Replace("perq")
      <3>1. Wander("perq")
        BY <2>1, <2>3 DEF Replace, Wander, placeVars
      <3> QED BY <3>1, FlowNamed DEF Placed
    <2> QED BY <1>4, <2>2, <2>3 DEF StepQuestion
  <1>5. CASE PhoneStepQuestion
    BY <1>5, Goes, FlowNamed DEF PhoneStepQuestion, Moves
  <1>6. CASE ResultArrives \/ PhoneQuestionArrives
    <2>1. UNCHANGED <<page, imports, mounted, mobile, signedIn>>
      BY <1>6 DEF ResultArrives, PhoneQuestionArrives
    <2>2. \/ Stay /\ UNCHANGED shown
          \/ Stay /\ \E p \in {"results", "perq", "error"}, n \in BOOLEAN : Paint(p, n)
          \/ UNCHANGED shown /\ \E p \in {"404", "results"} : Navigate(p)
      <3>1. CASE ResultArrives
        <4>1. PICK f \in fetches :
                \/ (~f.narrow \/ f.fresh) /\ Paint("results", f.narrow) /\ Stay
                \/ ~f.narrow /\ Paint("error", FALSE) /\ Stay
                \/ UNCHANGED shown /\ Stay
                \/ Navigate("404") /\ UNCHANGED shown
          BY <3>1 DEF ResultArrives
        <4> QED BY <4>1
      <3>2. CASE PhoneQuestionArrives
        <4>1. PICK f \in fetches :
                \/ Paint("perq", TRUE) /\ Stay
                \/ (\E p \in {"404", "results"} : Navigate(p)) /\ UNCHANGED shown
                \/ UNCHANGED shown /\ Stay
          BY <3>2 DEF PhoneQuestionArrives
        <4> QED BY <4>1
      <3> QED BY <1>6, <3>1, <3>2
    <2> QED BY <2>1, <2>2, Paints, Navigates, Stays, FlowNamed DEF Stay, placeVars
  <1> QED BY <1>1, <1>2, <1>3, <1>4, <1>5, <1>6 DEF ResultStep

-----------------------------------------------------------------------------
(* The state of a taking screen                                              *)

Loads == [n: 1..MaxLoads, review: Nat]
ScreenSettings == [mode: Modes, show: BOOLEAN, shuffle: BOOLEAN]

ScreenStates ==
  [phase: {"none", "loading", "pretest", "taking", "finishing", "review"},
   set: ScreenSettings, paper: Seq(Questions), order: LayoutMaps, idx: Nat,
   answers: AnswerSheets, attempt: Nat, left: Nat, clock: BOOLEAN, leaked: Nat,
   advance: BOOLEAN, loads: SUBSET Loads, saving: SUBSET Nat, torn: BOOLEAN]

\* The order in which an attempt shows the options of a question.
Laid(r, q) == IF r.set.shuffle THEN r.order[q] ELSE AsInTest

\* An answer names the option that is where the user clicked.
Fits(r, q, v) ==
  /\ r.set.shuffle => q \in DOMAIN r.order
  /\ v.sent = Laid(r, q)[v.pos]
  /\ v.right <=> v.sent = Marked[q]

Graded(r) ==
  r.phase = "taking" => \A q \in DOMAIN r.answers : Fits(r, q, r.answers[q])

\* A result that is kept is one that a screen could make.
KeptSound(k) ==
  \A a \in DOMAIN k :
    a \in Nat /\ k[a].paper \in Seq(Questions) /\ k[a].answers \in AnswerSheets

\* One timer per attempt, while no rendering overtakes another one: then one load at most is
\* under way, and the screen waits for it.
Unhurried(r) ==
  ~r.torn => /\ r.leaked = 0
             /\ r.clock => r.phase = "taking"
             /\ r.loads # {} => r.phase = "loading"
             /\ \A l, m \in r.loads : l = m

\* The user stands on a question, or one place further when no advance is armed.
OnPaper(r) ==
  r.phase = "taking" => r.idx <= Len(r.paper) /\ (r.advance => r.idx < Len(r.paper))

\* The number of the attempt in hand is one that was given out; n were.
Numbered(r, n) ==
  /\ r.phase = "taking" => r.attempt \in 1..n
  /\ (r.phase = "finishing" /\ ~r.torn) => r.attempt \in 1..n

\* A user who handed in will have a result, or has one among k.
Settled(r, k) == r.phase = "finishing" => r.attempt \in r.saving \cup DOMAIN k

ScreenInv(r, n, k) ==
  /\ r \in ScreenStates
  /\ Graded(r)
  /\ Unhurried(r)
  /\ OnPaper(r)
  /\ Numbered(r, n)
  /\ Settled(r, k)

-----------------------------------------------------------------------------
(* What either screen does to its state                                     *)

\* An order of options that is drawn stays; none is drawn unless they are shuffled.
Grown(r, order) ==
  /\ \A q \in DOMAIN r.order : q \in DOMAIN order /\ order[q] = r.order[q]
  /\ ~r.set.shuffle => order = r.order

\* The paper, the orders, the settings and the timers without a handle stay.
SameAttempt(r, r2) ==
  /\ r2.paper = r.paper /\ r2.set = r.set /\ Grown(r, r2.order)
  /\ r2.attempt = r.attempt /\ r2.leaked = r.leaked /\ r2.torn = r.torn

\* The answers and the requests under way stay too.
SameSheet(r, r2) ==
  /\ SameAttempt(r, r2)
  /\ r2.answers = r.answers /\ r2.loads = r.loads

Opened(r, r2) ==
  /\ r2.phase = "loading" /\ r2.answers = NoAnswers
  /\ ~r2.clock /\ r2.leaked = r.leaked
  /\ r2.torn = (r.torn \/ r.loads # {})
  /\ \E l : r2.loads = r.loads \cup {l}

\* The rendering that waited for l goes on.
Arrives(r, r2) ==
  /\ \E l \in r.loads : r2.loads = r.loads \ {l}
  /\ r2.leaked = r.leaked /\ r2.torn = r.torn /\ r2.clock = r.clock

Began(r, r2, n) ==
  /\ r2.phase = "taking" /\ r2.attempt = n + 1
  /\ r2.idx = 0 /\ r2.paper # <<>> /\ r2.answers = NoAnswers
  /\ r2.torn = r.torn
  /\ \E timed \in BOOLEAN : /\ r2.clock = (r.clock \/ timed)
                            /\ r2.leaked = IF r.clock /\ timed THEN 1 ELSE r.leaked
  /\ \/ \E l \in r.loads : r2.loads = r.loads \ {l}
     \/ r.phase = "pretest" /\ r2.loads = r.loads

Turned(r, r2) ==
  /\ Arrives(r, r2)
  /\ r2.phase \in {"pretest", "review"}

Failed(r, r2) ==
  /\ Arrives(r, r2)
  /\ SameAttempt(r, r2)
  /\ r2.answers = r.answers /\ r2.phase = r.phase /\ r2.idx = r.idx
  /\ r2.saving = r.saving /\ r2.advance = r.advance

\* Question q is answered with v.
Picked(r, r2, q, v) ==
  /\ SameAttempt(r, r2)
  /\ r.phase = "taking" /\ r2.phase = "taking" /\ r2.clock = r.clock
  /\ r2.loads = r.loads
  /\ ~(q \in DOMAIN r.answers /\ r.set.show)
  /\ Fits(r, q, v) /\ r2.answers = Noted(r.answers, q, v)
  /\ r2.idx = r.idx /\ r.idx < Len(r.paper)
  /\ r2.advance => r.advance \/ r.idx + 1 < Len(r.paper)

Walked(r, r2) ==
  /\ SameSheet(r, r2)
  /\ r2.phase = r.phase /\ r2.clock = r.clock /\ r2.saving = r.saving
  /\ \/ r.advance /\ ~r2.advance /\ r2.idx = r.idx + 1
     \/ r2.advance = r.advance /\ r2.idx < Len(r.paper)
        /\ (r.set.mode = "exam" => r2.idx >= r.idx)
     \/ r.phase = "review"

\* The clock stops or goes on; an advance is never armed by it.
Ticked(r, r2) ==
  /\ SameSheet(r, r2)
  /\ r2.phase = r.phase /\ r2.saving = r.saving /\ r2.idx = r.idx
  /\ r2.clock => r.clock
  /\ r2.advance => r.advance

HandedIn(r, r2) ==
  /\ SameSheet(r, r2)
  /\ r.phase = "taking" \/ r.clock \/ r.leaked > 0
  /\ r2.phase = "finishing" /\ r2.saving = r.saving \cup {r.attempt} /\ ~r2.clock

Returned(r, r2, k, k2) ==
  /\ SameSheet(r, r2)
  /\ r2.phase = r.phase /\ r2.idx = r.idx /\ r2.clock = r.clock /\ r2.advance = r.advance
  /\ \E a : r2.saving = r.saving \ {a} /\ DOMAIN k2 = DOMAIN k \cup {a}

\* n: the attempts begun, k: the results kept, before; n2 and k2: afterwards.
Moved(r, r2, n, n2, k, k2) ==
  /\ r2 \in ScreenStates
  /\ \/ Opened(r, r2) /\ n2 = n /\ k2 = k
     \/ Began(r, r2, n) /\ n2 = n + 1 /\ k2 = k
     \/ (Turned(r, r2) \/ Failed(r, r2)) /\ n2 = n /\ k2 = k
     \/ (\E q \in Questions, v \in Answer : Picked(r, r2, q, v)) /\ n2 = n /\ k2 = k
     \/ (Walked(r, r2) \/ Ticked(r, r2) \/ HandedIn(r, r2)) /\ n2 = n /\ k2 = k
     \/ Returned(r, r2, k, k2) /\ n2 = n
     \/ r2 = r /\ n2 \in {n, n + 1} /\ DOMAIN k \subseteq DOMAIN k2

LEMMA GradedKept ==
  ASSUME NEW r, NEW r2, Graded(r), SameAttempt(r, r2), r2.answers = r.answers,
         r2.phase = "taking" => r.phase = "taking"
  PROVE  Graded(r2)
  BY DEF Graded, Fits, Laid, SameAttempt, Grown

LEMMA MoveKeeps ==
  ASSUME NEW r, NEW r2, NEW n \in Nat, NEW n2, NEW k, NEW k2,
         ScreenInv(r, n, k), Moved(r, r2, n, n2, k, k2)
  PROVE  ScreenInv(r2, n2, k2)
  <1> USE DEF ScreenInv, Unhurried, OnPaper, Numbered, Settled
  <1>0. /\ r \in ScreenStates /\ r2 \in ScreenStates
        /\ r.attempt \in Nat /\ r2.attempt \in Nat /\ r.idx \in Nat /\ r2.idx \in Nat
        /\ Len(r.paper) \in Nat /\ Len(r2.paper) \in Nat
        /\ r.leaked \in Nat /\ n2 \in Nat
        /\ {r.clock, r.torn, r.advance, r2.clock, r2.torn, r2.advance} \subseteq BOOLEAN
    BY DEF Moved, ScreenStates
  <1>1. CASE Opened(r, r2) /\ n2 = n /\ k2 = k
    BY <1>0, <1>1 DEF Opened, Graded
  <1>2. CASE Began(r, r2, n) /\ n2 = n + 1 /\ k2 = k
    <2>1. Len(r2.paper) >= 1
      BY <1>0, <1>2, EmptySeq DEF Began, ScreenStates
    <2>2. Graded(r2)
      BY <1>2 DEF Began, Graded, NoAnswers
    <2>3. Unhurried(r2)
      BY <1>0, <1>2 DEF Began
    <2> QED BY <1>0, <1>2, <2>1, <2>2, <2>3 DEF Began
  <1>3. CASE (Turned(r, r2) \/ Failed(r, r2)) /\ n2 = n /\ k2 = k
    <2>1. CASE Turned(r, r2)
      BY <1>0, <1>3, <2>1 DEF Turned, Arrives, Graded
    <2>2. CASE Failed(r, r2)
      BY <1>0, <1>3, <2>2, GradedKept DEF Failed, Arrives, SameAttempt
    <2> QED BY <1>3, <2>1, <2>2
  <1>4. CASE (\E q \in Questions, v \in Answer : Picked(r, r2, q, v)) /\ n2 = n /\ k2 = k
    <2>1. Graded(r2)
      BY <1>4 DEF Picked, Graded, Fits, Laid, SameAttempt, Grown, Noted
    <2> QED BY <1>0, <1>4, <2>1 DEF Picked, SameAttempt
  <1>5. CASE (Walked(r, r2) \/ Ticked(r, r2) \/ HandedIn(r, r2)) /\ n2 = n /\ k2 = k
    <2>1. CASE Walked(r, r2)
      BY <1>0, <1>5, <2>1, GradedKept DEF Walked, SameSheet, SameAttempt
    <2>2. CASE Ticked(r, r2)
      BY <1>0, <1>5, <2>2, GradedKept DEF Ticked, SameSheet, SameAttempt
    <2>3. CASE HandedIn(r, r2)
      BY <1>0, <1>5, <2>3, GradedKept DEF HandedIn, SameSheet, SameAttempt
    <2> QED BY <1>5, <2>1, <2>2, <2>3
  <1>6. CASE Returned(r, r2, k, k2) /\ n2 = n
    BY <1>0, <1>6, GradedKept DEF Returned, SameSheet, SameAttempt
  <1>7. CASE r2 = r /\ n2 \in {n, n + 1} /\ DOMAIN k \subseteq DOMAIN k2
    BY <1>0, <1>7
  <1> QED BY <1>1, <1>2, <1>3, <1>4, <1>5, <1>6, <1>7 DEF Moved

-----------------------------------------------------------------------------
(* Papers and orders                                                         *)

LEMMA FiniteQuestions ==
  /\ IsFiniteSet(Questions) /\ Total \in Nat \ {0}
  /\ \A S \in SUBSET Questions : /\ IsFiniteSet(S) /\ Cardinality(S) \in 0..Total
                                 /\ S # {} => Cardinality(S) > 0
  <1>1. Len(TestOrder) \in Nat /\ DOMAIN TestOrder = 1..Len(TestOrder)
    BY PaperAssumption
  <1>2. TestOrder \in Surjection(1..Len(TestOrder), Questions)
    BY <1>1, PaperAssumption DEF Surjection, Questions
  <1>3. IsFiniteSet(1..Len(TestOrder))
    BY <1>1, FS_Interval
  <1>4. IsFiniteSet(Questions)
    BY <1>2, <1>3, FS_Surjection
  <1>5. \A S \in SUBSET Questions : IsFiniteSet(S) /\ Cardinality(S) \in Nat /\ Cardinality(S) <= Total
    BY <1>4, FS_Subset, FS_CardinalityType DEF Total
  <1>6. \A S \in SUBSET Questions : S # {} => Cardinality(S) # 0
    BY <1>5, FS_EmptySet
  <1>7. Questions # {}
    <2>1. TestOrder[1] \in Questions
      BY <1>1, PaperAssumption, EmptySeq
    <2> QED BY <2>1
  <1> QED BY <1>4, <1>5, <1>6, <1>7 DEF Total

\* An attempt begins with a question.
LEMMA PapersSound ==
  ASSUME NEW pool \in SUBSET Questions, pool # {}, NEW count \in Nat \ {0},
         NEW random \in BOOLEAN, NEW paper \in Papers(pool, count, random)
  PROVE  paper \in Seq(Questions) /\ paper # <<>>
  <1> DEFINE size == Smaller(count, Cardinality(pool))
  <1>1. size \in Nat \ {0}
    BY FiniteQuestions DEF Smaller
  <1>2. paper \in [1..size -> Questions]
    BY DEF Papers
  <1> HIDE DEF size
  <1>3. paper \in Seq(Questions) /\ Len(paper) = size
    BY <1>1, <1>2, LenProperties
  <1> QED BY <1>1, <1>3, EmptySeq

\* The orders of options that are known.
LEMMA OrdersKnown ==
  /\ AsInTest \in Layouts /\ NoLayouts \in LayoutMaps
  /\ \A S \in SUBSET Questions : [S -> Draws] \subseteq LayoutMaps
  /\ \A m \in LayoutMaps : \A q \in DOMAIN m : m[q] \in Layouts
  /\ \A m \in LayoutMaps, q \in Questions, f \in Draws :
       /\ Noted(m, q, f) \in LayoutMaps
       /\ q \in DOMAIN Noted(m, q, f)
       /\ \A p \in DOMAIN m : p # q => Noted(m, q, f)[p] = m[p]
       /\ \A p \in DOMAIN m : p \in DOMAIN Noted(m, q, f)
  <1>1. AsInTest \in Layouts
    <2>1. AsInTest \in [Options -> Options] /\ \A o \in Options : AsInTest[o] = o
      BY DEF AsInTest
    <2> QED BY <2>1 DEF Layouts, Bijection, Injection, Surjection, IsInjective
  <1>2. NoLayouts \in LayoutMaps
    <2>1. NoLayouts \in [{} -> Layouts]
      BY DEF NoLayouts
    <2> QED BY <2>1 DEF LayoutMaps
  <1>3. ASSUME NEW S \in SUBSET Questions PROVE [S -> Draws] \subseteq LayoutMaps
    <2>1. [S -> Draws] \subseteq [S -> Layouts]
      BY PaperAssumption
    <2> QED BY <2>1 DEF LayoutMaps
  <1>4. ASSUME NEW m \in LayoutMaps, NEW q \in Questions, NEW f \in Draws
        PROVE  /\ Noted(m, q, f) \in LayoutMaps
               /\ q \in DOMAIN Noted(m, q, f)
               /\ \A p \in DOMAIN m : p # q => Noted(m, q, f)[p] = m[p]
               /\ \A p \in DOMAIN m : p \in DOMAIN Noted(m, q, f)
    <2>1. PICK P \in SUBSET Questions : m \in [P -> Layouts]
      BY DEF LayoutMaps
    <2>2. f \in Layouts
      BY PaperAssumption
    <2>3. Noted(m, q, f) \in [P \cup {q} -> Layouts]
      BY <2>1, <2>2 DEF Noted
    <2> QED BY <2>1, <2>3 DEF LayoutMaps, Noted
  <1>5. \A m \in LayoutMaps : \A q \in DOMAIN m : m[q] \in Layouts
    BY DEF LayoutMaps
  <1> QED BY <1>1, <1>2, <1>3, <1>4, <1>5

\* The screens' instances of Paper are the Paper of the whole.
LEMMA SameTerms ==
  /\ Desktop!Questions = Questions /\ Phone!Questions = Questions
  /\ Desktop!Options = Options /\ Phone!Options = Options
  /\ Desktop!NoAnswers = NoAnswers /\ Phone!NoAnswers = NoAnswers
  /\ Desktop!AsInTest = AsInTest /\ Phone!AsInTest = AsInTest
  /\ Desktop!NoLayouts = NoLayouts /\ Phone!NoLayouts = NoLayouts
  /\ Phone!Layouts = Layouts
  /\ \A f, q, v : Desktop!Noted(f, q, v) = Noted(f, q, v) /\ Phone!Noted(f, q, v) = Noted(f, q, v)
  /\ \A h : Desktop!Filtered(h) = Filtered(h) /\ Phone!Filtered(h) = Filtered(h)
  /\ \A p, c, r : Desktop!Papers(p, c, r) = Papers(p, c, r) /\ Phone!Papers(p, c, r) = Papers(p, c, r)
  <1>1. Desktop!Questions = Questions /\ Phone!Questions = Questions
    BY DEF Desktop!Questions, Phone!Questions, Questions
  <1>2. Desktop!Options = Options /\ Phone!Options = Options
    BY DEF Desktop!Options, Phone!Options, Options
  <1>3. Desktop!AsInTest = AsInTest /\ Phone!AsInTest = AsInTest
    BY <1>2 DEF Desktop!AsInTest, Phone!AsInTest, AsInTest
  <1>4. Desktop!NoLayouts = NoLayouts /\ Phone!NoLayouts = NoLayouts
    BY <1>3 DEF Desktop!NoLayouts, Phone!NoLayouts, NoLayouts
  <1>5. Phone!Layouts = Layouts
    BY <1>2 DEF Phone!Layouts, Layouts, Phone!Bijection, Bijection, Phone!Injection, Injection,
                Phone!Surjection, Surjection, Phone!IsInjective, IsInjective
  <1>6. \A S : Desktop!Cardinality(S) = Cardinality(S) /\ Phone!Cardinality(S) = Cardinality(S)
    BY Zenon DEF Desktop!Cardinality, Phone!Cardinality, Cardinality
  <1>7. \A p, c, r : Desktop!Papers(p, c, r) = Papers(p, c, r) /\ Phone!Papers(p, c, r) = Papers(p, c, r)
    BY <1>6, Zenon DEF Desktop!Papers, Phone!Papers, Papers, Desktop!Smaller, Phone!Smaller, Smaller,
           Desktop!InTestOrder, Phone!InTestOrder, InTestOrder,
           Desktop!Place, Phone!Place, Place,
           Desktop!IsInjective, Phone!IsInjective, IsInjective
  <1>8. \A f, q, v : Desktop!Noted(f, q, v) = Noted(f, q, v) /\ Phone!Noted(f, q, v) = Noted(f, q, v)
    BY DEF Desktop!Noted, Phone!Noted, Noted
  <1> QED BY <1>1, <1>2, <1>3, <1>4, <1>5, <1>7, <1>8
          DEF Desktop!Filtered, Phone!Filtered, Filtered, Desktop!NoAnswers, Phone!NoAnswers, NoAnswers

-----------------------------------------------------------------------------
(* What the screens share                                                    *)

\* The storage has nothing, or what a screen of this client may hand over.
HandoffSound(h) == h \in Handoffs /\ KeepsMode(h) /\ AsksMistakes(h)
StorageSound == handoff = <<>> \/ \E h \in Handoffs : handoff = <<h>> /\ HandoffSound(h)

FormSound(f) ==
  /\ f \in Forms
  /\ ~f.narrow => /\ f.mode = "exam" => ~f.reveal /\ f.random
                  /\ Strict(f.mode) => f.limit > 0
                  /\ f.count <= f.top

\* A question on the desktop's screen has an order of its options, if they are shuffled.
Painted(r) ==
  r.phase = "taking" /\ r.set.shuffle /\ r.idx < Len(r.paper)
    => r.paper[r.idx + 1] \in DOMAIN r.order

\* On the phone all questions of a paper have one, or none has.
Stamped(r) ==
  r.phase = "taking" => IF r.set.shuffle THEN Range(r.paper) \subseteq DOMAIN r.order
                                         ELSE r.order = NoLayouts

Waits == [narrow: BOOLEAN, fresh: BOOLEAN]
Fetches == [page: {"results", "perq"}, narrow: BOOLEAN, fresh: BOOLEAN]

FlowInv ==
  /\ RouterInv
  /\ begun \in Nat /\ asked \in Nat
  /\ KeptSound(results)
  /\ StorageSound
  /\ form = <<>> \/ \E f \in Forms : form = <<f>> /\ FormSound(f)
  /\ waits \subseteq Waits
  /\ fetches \subseteq Fetches
  /\ wrong \in SUBSET Questions
  /\ ScreenInv(desk, begun, results) /\ Painted(desk)
  /\ ScreenInv(phone, begun, results) /\ Stamped(phone)

\* What is stored stays, or is used up.
Storage == handoff' \in {handoff, <<>>} /\ asked' \in Nat /\ KeptSound(results)'

LEMMA Sheets ==
  ASSUME NEW a \in AnswerSheets, NEW q \in Questions, NEW v \in Answer
  PROVE  Noted(a, q, v) \in AnswerSheets
  <1>1. PICK P \in SUBSET Questions : a \in [P -> Answer]
    BY DEF AnswerSheets
  <1>2. Noted(a, q, v) \in [P \cup {q} -> Answer]
    BY <1>1 DEF Noted
  <1> QED BY <1>1, <1>2 DEF AnswerSheets

LEMMA NoSheet == NoAnswers \in AnswerSheets
  BY DEF NoAnswers, AnswerSheets

\* A result made of a screen's paper and answers is sound.
LEMMA KeptMore ==
  ASSUME NEW r \in ScreenStates, KeptSound(results), NEW a \in Nat,
         results' = [b \in DOMAIN results \cup {a} |->
                       IF b = a THEN [paper |-> r.paper, answers |-> r.answers] ELSE results[b]]
  PROVE  KeptSound(results)' /\ DOMAIN results' = DOMAIN results \cup {a}
  <1>1. r.paper \in Seq(Questions) /\ r.answers \in AnswerSheets
    BY DEF ScreenStates
  <1> QED BY <1>1 DEF KeptSound

LEMMA PaintedKept ==
  ASSUME NEW r, NEW r2, Painted(r), SameAttempt(r, r2), r2.phase = r.phase, r2.idx = r.idx
  PROVE  Painted(r2)
  BY DEF Painted, SameAttempt, Grown

\* The record of an attempt that begins.
LEMMA BegunState ==
  ASSUME NEW base \in ScreenStates, NEW paper \in Seq(Questions),
         NEW attempt \in Nat, NEW left \in Nat, NEW clock \in BOOLEAN, NEW leaked \in Nat
  PROVE  [base EXCEPT !.phase = "taking", !.paper = paper, !.idx = 0,
                      !.answers = NoAnswers, !.attempt = attempt, !.left = left,
                      !.clock = clock, !.leaked = leaked] \in ScreenStates
  BY NoSheet DEF ScreenStates

-----------------------------------------------------------------------------
(* The desktop's screen                                                      *)

LEMMA DeskOpens ==
  ASSUME FlowInv, NEW review \in {0} \cup DOMAIN results, Desktop!Render(review)
  PROVE  desk' \in ScreenStates /\ Opened(desk, desk') /\ Painted(desk')
  <1>1. desk \in ScreenStates /\ review \in Nat
    BY DEF FlowInv, ScreenInv, KeptSound
  <1>2. PICK n \in 1..MaxLoads :
          desk' = [Desktop!Reset(desk) EXCEPT
                     !.loads = desk.loads \cup {[n |-> n, review |-> review]},
                     !.torn = desk.torn \/ desk.loads # {}]
    BY <1>1 DEF Desktop!Render, Desktop!Reset, ScreenStates
  <1>3. [n |-> n, review |-> review] \in Loads
    BY <1>1 DEF Loads
  <1>4. NoLayouts \in LayoutMaps /\ Desktop!NoTime \in Nat /\ <<>> \in Seq(Questions)
    BY OrdersKnown, PaperAssumption, EmptySeq DEF Desktop!NoTime
  <1> QED BY <1>1, <1>2, <1>3, <1>4, NoSheet, SameTerms DEF Desktop!Reset, Opened, Painted, ScreenStates

\* What is known of a record in which an attempt is put.
BeginsFrom(r, base) ==
  /\ base.attempt = r.attempt /\ base.clock = r.clock /\ base.leaked = r.leaked
  /\ base.torn = r.torn
  /\ \/ \E l \in r.loads : base.loads = r.loads \ {l}
     \/ r.phase = "pretest" /\ base.loads = r.loads

\* Painting may draw the order of the options of one question.
LEMMA Mounted ==
  ASSUME NEW r \in ScreenStates, Desktop!Mount(r)
  PROVE  /\ \E order \in LayoutMaps : desk' = [r EXCEPT !.order = order] /\ Grown(r, order)
         /\ Painted(desk')
  <1> DEFINE q == r.paper[r.idx + 1]
             draws == r.phase = "taking" /\ r.idx < Len(r.paper) /\ Desktop!Unordered(r)
  <1>1. r.order \in LayoutMaps /\ r.paper \in Seq(Questions) /\ r.idx \in Nat
    BY DEF ScreenStates
  <1>2. CASE draws
    <2>1. PICK f \in Draws : desk' = [r EXCEPT !.order = Noted(r.order, q, f)]
      BY <1>2, SameTerms DEF Desktop!Mount, ScreenStates
    <2>2. q \in Questions /\ q \notin DOMAIN r.order /\ r.set.shuffle
      BY <1>1, <1>2 DEF Desktop!Unordered
    <2> DEFINE order == Noted(r.order, q, f)
    <2>3. order \in LayoutMaps /\ q \in DOMAIN order /\ Grown(r, order)
      BY <1>1, <2>2, OrdersKnown DEF Grown
    <2>4. desk' = [r EXCEPT !.order = order]
      BY <2>1
    <2> HIDE DEF order
    <2>5. desk'.order = order /\ desk'.paper = r.paper /\ desk'.idx = r.idx
      BY <2>4 DEF ScreenStates
    <2> QED BY <2>3, <2>4, <2>5 DEF Painted
  <1>3. CASE ~draws
    <2>1. desk' = r
      BY <1>3 DEF Desktop!Mount
    <2>2. desk' = [r EXCEPT !.order = r.order] /\ Grown(r, r.order)
      BY <2>1 DEF ScreenStates, Grown
    <2>3. Painted(desk')
      BY <1>3, <2>1 DEF Painted, Desktop!Unordered
    <2> QED BY <1>1, <2>2, <2>3
  <1> QED BY <1>2, <1>3

\* What an action did to the rest of the state, it did with that order too.
LEMMA MountMoves ==
  ASSUME NEW r \in ScreenStates, NEW r2 \in ScreenStates, Desktop!Mount(r2)
  PROVE  /\ desk' \in ScreenStates /\ Painted(desk')
         /\ \A n : Began(r, r2, n) => Began(r, desk', n)
         /\ Turned(r, r2) => Turned(r, desk')
         /\ \A q, v : Picked(r, r2, q, v) => Picked(r, desk', q, v)
         /\ Walked(r, r2) => Walked(r, desk')
         /\ HandedIn(r, r2) => HandedIn(r, desk')
  <1>1. PICK order \in LayoutMaps : desk' = [r2 EXCEPT !.order = order] /\ Grown(r2, order)
    BY Mounted
  <1>2. desk' \in ScreenStates
    BY <1>1 DEF ScreenStates
  <1>3. /\ desk'.phase = r2.phase /\ desk'.set = r2.set /\ desk'.paper = r2.paper
        /\ desk'.order = order /\ desk'.idx = r2.idx /\ desk'.answers = r2.answers
        /\ desk'.attempt = r2.attempt /\ desk'.clock = r2.clock /\ desk'.leaked = r2.leaked
        /\ desk'.advance = r2.advance /\ desk'.loads = r2.loads /\ desk'.saving = r2.saving
        /\ desk'.torn = r2.torn
    BY <1>1 DEF ScreenStates
  <1>4. SameAttempt(r, r2) => SameAttempt(r, desk')
    BY <1>1, <1>3 DEF SameAttempt, Grown
  <1>5. \A n : Began(r, r2, n) => Began(r, desk', n)
    BY <1>3 DEF Began
  <1>6. Turned(r, r2) => Turned(r, desk')
    BY <1>3 DEF Turned, Arrives
  <1>7. \A q, v : Picked(r, r2, q, v) => Picked(r, desk', q, v)
    BY <1>3, <1>4 DEF Picked
  <1>8. Walked(r, r2) => Walked(r, desk')
    BY <1>3, <1>4 DEF Walked, SameSheet
  <1>9. HandedIn(r, r2) => HandedIn(r, desk')
    BY <1>3, <1>4 DEF HandedIn, SameSheet
  <1> QED BY <1>2, <1>5, <1>6, <1>7, <1>8, <1>9, Mounted

LEMMA DeskBegins ==
  ASSUME begun \in Nat, desk \in ScreenStates,
         NEW base \in ScreenStates, NEW pool \in SUBSET Questions, pool # {},
         NEW count \in Nat \ {0}, NEW random \in BOOLEAN, NEW timed \in BOOLEAN,
         Desktop!BeginAttempt(base, pool, count, random, timed), BeginsFrom(desk, base)
  PROVE  desk' \in ScreenStates /\ Began(desk, desk', begun) /\ begun' = begun + 1 /\ Painted(desk')
  <1>1. PICK paper \in Papers(pool, count, random) :
          Desktop!Mount(Desktop!Begun(base, paper, timed))
    BY SameTerms DEF Desktop!BeginAttempt
  <1>2. paper \in Seq(Questions) /\ paper # <<>>
    BY <1>1, PapersSound
  <1>3. MaxTime \in Nat /\ Desktop!NoTime \in Nat
    BY PaperAssumption DEF Desktop!NoTime
  <1> DEFINE left == IF timed THEN MaxTime ELSE Desktop!NoTime
             clock == base.clock \/ timed
             leaked == IF base.clock /\ timed THEN 1 ELSE base.leaked
             r == Desktop!Begun(base, paper, timed)
  <1>4. r = [base EXCEPT
          !.phase = "taking", !.paper = paper, !.idx = 0,
          !.answers = NoAnswers, !.attempt = begun + 1, !.left = left, !.clock = clock,
          !.leaked = leaked]
    BY SameTerms DEF Desktop!Begun, ScreenStates
  <1>5. left \in Nat /\ clock \in BOOLEAN /\ leaked \in Nat
    BY <1>3 DEF ScreenStates
  <1>6. clock = (desk.clock \/ timed) /\ leaked = IF desk.clock /\ timed THEN 1 ELSE desk.leaked
    BY DEF BeginsFrom
  <1>7. Desktop!Mount(r)
    BY <1>1
  <1> HIDE DEF left, clock, leaked, r
  <1>8. r \in ScreenStates
    <2>1. begun + 1 \in Nat
      OBVIOUS
    <2> QED BY <1>2, <1>4, <1>5, <2>1, BegunState, Zenon
  <1>9. /\ r.phase = "taking" /\ r.attempt = begun + 1 /\ r.idx = 0
        /\ r.paper = paper /\ r.answers = NoAnswers /\ r.torn = base.torn
        /\ r.clock = clock /\ r.leaked = leaked /\ r.loads = base.loads
    BY <1>4 DEF ScreenStates
  <1>10. Began(desk, r, begun)
    BY <1>2, <1>6, <1>9 DEF Began, BeginsFrom
  <1>11. begun' = begun + 1
    BY DEF Desktop!BeginAttempt
  <1> QED BY <1>7, <1>8, <1>10, <1>11, MountMoves

-----------------------------------------------------------------------------
(* The records that the actions of either screen make                        *)

WithAnswer(r, q, v, armed) == [r EXCEPT !.answers = Noted(r.answers, q, v), !.advance = armed]

LEMMA PickedState ==
  ASSUME NEW r \in ScreenStates, r.phase = "taking", r.idx < Len(r.paper),
         NEW q \in Questions, ~(q \in DOMAIN r.answers /\ r.set.show),
         NEW v \in Answer, Fits(r, q, v),
         NEW armed \in BOOLEAN, armed => r.advance \/ r.idx + 1 < Len(r.paper),
         NEW r2, r2 = WithAnswer(r, q, v, armed)
  PROVE  r2 \in ScreenStates /\ Picked(r, r2, q, v)
  <1> DEFINE answers == Noted(r.answers, q, v)
  <1>1. answers \in AnswerSheets
    BY Sheets DEF ScreenStates
  <1>2. r2 = [r EXCEPT !.answers = answers, !.advance = armed]
    BY DEF WithAnswer
  <1>3. answers = Noted(r.answers, q, v)
    OBVIOUS
  <1> HIDE DEF answers
  <1>4. r2 \in ScreenStates
    BY <1>1, <1>2 DEF ScreenStates
  <1>5. /\ r2.phase = r.phase /\ r2.clock = r.clock /\ r2.loads = r.loads /\ r2.idx = r.idx
        /\ r2.answers = answers /\ r2.advance = armed
    BY <1>2 DEF ScreenStates
  <1>6. SameAttempt(r, r2)
    BY <1>2 DEF ScreenStates, SameAttempt, Grown
  <1> QED BY <1>3, <1>4, <1>5, <1>6 DEF Picked

\* A step from question to question, or one place past the last.
Steps(r, r2, i, armed) ==
  /\ \/ r.advance /\ ~armed /\ i = r.idx + 1
     \/ armed = r.advance /\ i < Len(r.paper) /\ (r.set.mode = "exam" => i >= r.idx)
     \/ r.phase = "review"
  /\ r2 = [r EXCEPT !.idx = i, !.advance = armed]

LEMMA WalkedState ==
  ASSUME NEW r \in ScreenStates, NEW i \in Nat, NEW armed \in BOOLEAN,
         NEW r2, Steps(r, r2, i, armed)
  PROVE  r2 \in ScreenStates /\ Walked(r, r2)
  <1>1. r2 \in ScreenStates
    BY DEF ScreenStates, Steps
  <1>2. SameSheet(r, r2)
    BY DEF ScreenStates, Steps, SameSheet, SameAttempt, Grown
  <1>3. /\ r2.phase = r.phase /\ r2.clock = r.clock /\ r2.saving = r.saving
        /\ r2.idx = i /\ r2.advance = armed
    BY DEF ScreenStates, Steps
  <1> QED BY <1>1, <1>2, <1>3 DEF Walked, Steps

LEMMA TickedState ==
  ASSUME NEW r \in ScreenStates, NEW left \in Nat, NEW clock \in BOOLEAN, clock => r.clock,
         NEW armed \in BOOLEAN, armed => r.advance,
         NEW r2, r2 = [r EXCEPT !.left = left, !.clock = clock, !.advance = armed]
  PROVE  r2 \in ScreenStates /\ Ticked(r, r2)
  <1>1. r2 \in ScreenStates
    BY DEF ScreenStates
  <1>2. SameSheet(r, r2)
    BY DEF ScreenStates, SameSheet, SameAttempt, Grown
  <1>3. /\ r2.phase = r.phase /\ r2.clock = clock /\ r2.saving = r.saving
        /\ r2.idx = r.idx /\ r2.advance = armed
    BY DEF ScreenStates
  <1> QED BY <1>1, <1>2, <1>3 DEF Ticked

LEMMA HandedInState ==
  ASSUME NEW r \in ScreenStates, NEW left \in Nat, r.phase = "taking" \/ r.clock \/ r.leaked > 0,
         NEW r2, r2 = [r EXCEPT !.left = left, !.clock = FALSE, !.advance = FALSE,
                                !.phase = "finishing", !.saving = r.saving \cup {r.attempt}]
  PROVE  r2 \in ScreenStates /\ HandedIn(r, r2)
  <1>1. r2 \in ScreenStates
    <2>1. r.saving \cup {r.attempt} \in SUBSET Nat
      BY DEF ScreenStates
    <2> QED BY <2>1 DEF ScreenStates
  <1>2. SameSheet(r, r2)
    BY DEF ScreenStates, SameSheet, SameAttempt, Grown
  <1>3. r2.phase = "finishing" /\ ~r2.clock /\ r2.saving = r.saving \cup {r.attempt}
    BY DEF ScreenStates
  <1> QED BY <1>1, <1>2, <1>3 DEF HandedIn

LEMMA FailedState ==
  ASSUME NEW r \in ScreenStates, NEW l \in r.loads,
         NEW r2, r2 = [r EXCEPT !.loads = r.loads \ {l}]
  PROVE  r2 \in ScreenStates /\ Failed(r, r2)
  <1>1. r2 \in ScreenStates
    BY DEF ScreenStates
  <1>2. SameAttempt(r, r2)
    BY DEF ScreenStates, SameAttempt, Grown
  <1>3. /\ r2.loads = r.loads \ {l} /\ r2.answers = r.answers /\ r2.phase = r.phase
        /\ r2.idx = r.idx /\ r2.saving = r.saving /\ r2.advance = r.advance /\ r2.clock = r.clock
    BY DEF ScreenStates
  <1> QED BY <1>1, <1>2, <1>3 DEF Failed, Arrives, SameAttempt

LEMMA ReturnedState ==
  ASSUME NEW r \in ScreenStates, NEW a, NEW k, NEW k2, DOMAIN k2 = DOMAIN k \cup {a},
         NEW r2, r2 = [r EXCEPT !.saving = r.saving \ {a}]
  PROVE  r2 \in ScreenStates /\ Returned(r, r2, k, k2)
  <1>1. r2 \in ScreenStates
    BY DEF ScreenStates
  <1>2. SameSheet(r, r2)
    BY DEF ScreenStates, SameSheet, SameAttempt, Grown
  <1>3. /\ r2.phase = r.phase /\ r2.idx = r.idx /\ r2.clock = r.clock
        /\ r2.advance = r.advance /\ r2.saving = r.saving \ {a}
    BY DEF ScreenStates
  <1> QED BY <1>1, <1>2, <1>3 DEF Returned

\* What the desktop moved, with the attempts and the results.
DeskMoved == Moved(desk, desk', begun, begun', results, results') /\ Painted(desk')

LEMMA DeskPainted == FlowInv => Painted(desk)
  BY DEF FlowInv

LEMMA DeskLoaded ==
  ASSUME FlowInv, NEW l, Desktop!Loaded(l)
  PROVE  DeskMoved /\ Storage
  <1> DEFINE rest == [desk EXCEPT !.loads = @ \ {l}]
  <1>1. /\ desk \in ScreenStates /\ KeptSound(results)
        /\ results' = results /\ asked' = asked /\ asked \in Nat
    BY DEF FlowInv, ScreenInv, Desktop!Loaded
  <1>2. l \in desk.loads /\ l.review \in Nat
    BY <1>1 DEF Desktop!Loaded, ScreenStates, Loads
  <1>3. /\ rest \in ScreenStates /\ rest.loads = desk.loads \ {l}
        /\ rest.leaked = desk.leaked /\ rest.torn = desk.torn /\ rest.clock = desk.clock
        /\ rest.attempt = desk.attempt /\ rest.answers = desk.answers
    BY <1>1 DEF ScreenStates
  <1> HIDE DEF rest
  <1>4. CASE /\ l.review \in DOMAIN results
             /\ Desktop!Mount([rest EXCEPT !.phase = "review", !.attempt = l.review, !.idx = 0,
                                           !.paper = results[l.review].paper,
                                           !.answers = results[l.review].answers])
             /\ UNCHANGED <<handoff, begun>>
    <2> DEFINE paper == results[l.review].paper
               answers == results[l.review].answers
               attempt == l.review
               r == [rest EXCEPT !.phase = "review", !.attempt = attempt, !.idx = 0,
                                 !.paper = paper, !.answers = answers]
    <2>1. paper \in Seq(Questions) /\ answers \in AnswerSheets /\ attempt \in Nat
      BY <1>1, <1>2, <1>4 DEF KeptSound
    <2>2. Desktop!Mount(r)
      BY <1>4
    <2> HIDE DEF paper, answers, attempt
    <2>3. r \in ScreenStates
      BY <1>3, <2>1 DEF ScreenStates
    <2>4. /\ r.phase = "review" /\ r.loads = rest.loads
          /\ r.leaked = rest.leaked /\ r.torn = rest.torn /\ r.clock = rest.clock
      BY <1>3 DEF ScreenStates
    <2> HIDE DEF r
    <2>5. Turned(desk, r)
      BY <1>2, <1>3, <2>4 DEF Turned, Arrives
    <2>6. desk' \in ScreenStates /\ Turned(desk, desk') /\ Painted(desk')
      BY <1>1, <2>2, <2>3, <2>5, MountMoves
    <2> QED BY <1>1, <1>4, <2>6 DEF DeskMoved, Moved, Storage, KeptSound
  <1>5. CASE /\ handoff = <<>>
             /\ Desktop!Mount([rest EXCEPT !.phase = "pretest"])
             /\ UNCHANGED <<handoff, begun>>
    <2> DEFINE r == [rest EXCEPT !.phase = "pretest"]
    <2>1. Desktop!Mount(r) /\ r \in ScreenStates
      BY <1>3, <1>5 DEF ScreenStates
    <2>2. /\ r.phase = "pretest" /\ r.loads = rest.loads
          /\ r.leaked = rest.leaked /\ r.torn = rest.torn /\ r.clock = rest.clock
      BY <1>3 DEF ScreenStates
    <2> HIDE DEF r
    <2>3. Turned(desk, r)
      BY <1>2, <1>3, <2>2 DEF Turned, Arrives
    <2>4. desk' \in ScreenStates /\ Turned(desk, desk') /\ Painted(desk')
      BY <1>1, <2>1, <2>3, MountMoves
    <2> QED BY <1>1, <1>5, <2>4 DEF DeskMoved, Moved, Storage, KeptSound
  <1>6. CASE /\ handoff # <<>> /\ handoff' = <<>>
             /\ LET h == handoff[1] IN
                Desktop!BeginAttempt([rest EXCEPT !.set = Desktop!Applied(h)],
                                     Desktop!Filtered(h), h.count, h.random, h.limit > 0)
    <2>1. PICK h \in Handoffs : handoff = <<h>> /\ KeepsMode(h)
      BY <1>6 DEF FlowInv, StorageSound, HandoffSound
    <2>2. /\ h.mode \in Modes /\ h.reveal \in BOOLEAN /\ h.shuffle \in BOOLEAN
          /\ h.random \in BOOLEAN /\ h.limit \in Nat /\ h.filter \in SUBSET Questions
          /\ h.count \in Nat \ {0}
      BY <2>1, FiniteQuestions DEF Handoffs, KeepsMode
    <2> DEFINE set == Desktop!Applied(h)
               base == [rest EXCEPT !.set = set]
               pool == Filtered(h)
               timed == h.limit > 0
    <2>3. set \in ScreenSettings
      BY <2>2 DEF Desktop!Applied, ScreenSettings
    <2>4. Desktop!BeginAttempt(base, pool, h.count, h.random, timed)
      BY <1>6, <2>1, SameTerms
    <2>5. pool \in SUBSET Questions /\ pool # {} /\ timed \in BOOLEAN
      BY <2>2, FiniteQuestions, FS_EmptySet DEF Filtered, Total
    <2> HIDE DEF set
    <2>6. base \in ScreenStates
      BY <1>3, <2>3 DEF ScreenStates
    <2>7. BeginsFrom(desk, base)
      BY <1>2, <1>3 DEF ScreenStates, BeginsFrom
    <2> DEFINE count == h.count
               random == h.random
    <2>10. /\ count \in Nat \ {0} /\ random \in BOOLEAN /\ begun \in Nat
           /\ Desktop!BeginAttempt(base, pool, count, random, timed)
      BY <2>2, <2>4 DEF FlowInv
    <2> HIDE DEF base, pool, timed, count, random
    <2>8. desk' \in ScreenStates /\ Began(desk, desk', begun) /\ begun' = begun + 1 /\ Painted(desk')
      BY <1>1, <2>5, <2>6, <2>7, <2>10, DeskBegins
    <2> QED BY <1>1, <1>6, <2>8 DEF DeskMoved, Moved, Storage, KeptSound
  <1> QED BY <1>4, <1>5, <1>6 DEF Desktop!Loaded, rest

LEMMA DeskModal ==
  ASSUME FlowInv, Desktop!ModalStarts
  PROVE  DeskMoved /\ Storage
  <1>1. desk \in ScreenStates /\ desk.phase = "pretest" /\ UNCHANGED <<handoff, results, asked>>
    BY DEF FlowInv, ScreenInv, Desktop!ModalStarts
  <1>2. PICK show \in BOOLEAN, shuffle \in BOOLEAN, random \in BOOLEAN, timed \in BOOLEAN,
             count \in 1..Len(TestOrder) :
          Desktop!BeginAttempt([desk EXCEPT !.set = [desk.set EXCEPT !.show = show,
                                                                     !.shuffle = shuffle]],
                               Questions, count, random, timed)
    BY <1>1, SameTerms DEF Desktop!ModalStarts, ScreenStates
  <1> DEFINE set == [desk.set EXCEPT !.show = show, !.shuffle = shuffle]
             base == [desk EXCEPT !.set = set]
  <1>3. set \in ScreenSettings
    BY <1>1 DEF ScreenStates, ScreenSettings
  <1>4. Desktop!BeginAttempt(base, Questions, count, random, timed)
    BY <1>2
  <1> HIDE DEF set
  <1>5. base \in ScreenStates
    BY <1>1, <1>3 DEF ScreenStates
  <1>6. BeginsFrom(desk, base) /\ begun \in Nat
    BY <1>1 DEF ScreenStates, BeginsFrom, FlowInv
  <1>7. count \in Nat \ {0} /\ Questions # {} /\ Questions \in SUBSET Questions
    BY PaperAssumption, FiniteQuestions, FS_EmptySet DEF Total
  <1> HIDE DEF base
  <1>8. desk' \in ScreenStates /\ Began(desk, desk', begun) /\ begun' = begun + 1 /\ Painted(desk')
    BY <1>1, <1>4, <1>5, <1>6, <1>7, DeskBegins
  <1> QED BY <1>1, <1>8 DEF DeskMoved, Moved, Storage, KeptSound, FlowInv

LEMMA DeskLoadFailed ==
  ASSUME FlowInv, NEW l, Desktop!LoadFailed(l)
  PROVE  DeskMoved /\ Storage
  <1>1. /\ desk \in ScreenStates /\ l \in desk.loads /\ desk' = [desk EXCEPT !.loads = desk.loads \ {l}]
        /\ UNCHANGED <<handoff, results, begun, asked>>
    BY DEF FlowInv, ScreenInv, Desktop!LoadFailed, Desktop!paperVars, ScreenStates
  <1>2. desk' \in ScreenStates /\ Failed(desk, desk') /\ Painted(desk')
    BY <1>1, FailedState, PaintedKept DEF FlowInv, Failed
  <1> QED BY <1>1, <1>2 DEF FlowInv, DeskMoved, Moved, Storage, KeptSound

LEMMA DeskClick ==
  ASSUME FlowInv, NEW pos \in Options, Desktop!OnOptionClick(pos)
  PROVE  DeskMoved /\ Storage
  <1>1. /\ desk \in ScreenStates /\ desk.phase = "taking" /\ desk.idx < Len(desk.paper)
        /\ UNCHANGED <<handoff, results, begun, asked>>
    BY DEF FlowInv, ScreenInv, Desktop!OnOptionClick, Desktop!Taking, Desktop!Here, Desktop!paperVars
  <1> DEFINE q == Desktop!Current
             i == Desktop!SentIndex(q, pos)
             v == [pos |-> pos, sent |-> i, right |-> i = Marked[q]]
             armed == desk.advance \/ (desk.set.show /\ ~Desktop!Last)
             r == WithAnswer(desk, q, v, armed)
  <1>2. q \in Questions /\ (desk.set.shuffle => q \in DOMAIN desk.order)
    <2>1. desk.paper \in Seq(Questions) /\ desk.idx \in Nat
      BY <1>1 DEF ScreenStates
    <2>2. desk.set.shuffle => desk.paper[desk.idx + 1] \in DOMAIN desk.order
      BY <1>1 DEF FlowInv, Painted
    <2> QED BY <1>1, <2>1, <2>2 DEF Desktop!Current
  <1>3. i = Laid(desk, q)[pos]
    BY SameTerms DEF Desktop!SentIndex, Desktop!Layout, Laid
  <1>4. i \in Options
    <2>1. Laid(desk, q) \in Layouts
      BY <1>1, <1>2, OrdersKnown DEF ScreenStates, Laid
    <2> QED BY <1>3, <2>1 DEF Layouts, Bijection, Injection
  <1>5. v \in Answer /\ Fits(desk, q, v)
    BY <1>2, <1>3, <1>4 DEF Answer, Fits
  <1>6. armed \in BOOLEAN
    BY <1>1 DEF ScreenStates, ScreenSettings
  <1>7. armed => desk.advance \/ desk.idx + 1 < Len(desk.paper)
    <2>1. Len(desk.paper) \in Nat /\ desk.idx \in Nat
      BY <1>1 DEF ScreenStates
    <2> QED BY <1>1, <2>1 DEF Desktop!Last
  <1>8. ~(q \in DOMAIN desk.answers /\ desk.set.show)
    BY DEF Desktop!OnOptionClick, Desktop!MayAnswer
  <1>9. Desktop!Mount(r)
    <2>1. Desktop!Mount([desk EXCEPT !.answers = Desktop!Noted(@, q, v),
                                     !.advance = @ \/ (desk.set.show /\ ~Desktop!Last)])
      BY DEF Desktop!OnOptionClick
    <2>2. [desk EXCEPT !.answers = Desktop!Noted(@, q, v),
                       !.advance = @ \/ (desk.set.show /\ ~Desktop!Last)] = r
      BY <1>1, SameTerms DEF ScreenStates, WithAnswer
    <2> QED BY <2>1, <2>2
  <1>10. r = WithAnswer(desk, q, v, armed)
    OBVIOUS
  <1> HIDE DEF q, v, armed, r
  <1>11. r \in ScreenStates /\ Picked(desk, r, q, v)
    BY <1>1, <1>2, <1>5, <1>6, <1>7, <1>8, <1>10, PickedState
  <1>12. desk' \in ScreenStates /\ Picked(desk, desk', q, v) /\ Painted(desk')
    BY <1>1, <1>9, <1>11, MountMoves
  <1> QED BY <1>1, <1>2, <1>5, <1>12 DEF FlowInv, DeskMoved, Moved, Storage, KeptSound

\* The advance, the buttons, the rail and the steps of a review.
LEMMA DeskWalks ==
  ASSUME FlowInv,
         \/ Desktop!Advance \/ Desktop!Next_ \/ Desktop!Previous \/ Desktop!Jump
         \/ Desktop!ReviewMoves
  PROVE  DeskMoved /\ Storage
  <1>1. /\ desk \in ScreenStates
        /\ UNCHANGED <<handoff, results, begun, asked>>
    BY DEF FlowInv, ScreenInv, Desktop!Here, Desktop!paperVars,
       Desktop!Advance, Desktop!Next_, Desktop!Previous, Desktop!Jump, Desktop!ReviewMoves
  <1>2. /\ desk.idx \in Nat /\ Len(desk.paper) \in Nat /\ desk.advance \in BOOLEAN
        /\ desk.phase = "taking" => desk.idx <= Len(desk.paper)
    BY <1>1 DEF FlowInv, ScreenInv, OnPaper, ScreenStates
  <1>3. \E r : \E i \in Nat, armed \in BOOLEAN : Desktop!Mount(r) /\ Steps(desk, r, i, armed)
    <2>1. CASE Desktop!Advance
      <3> DEFINE r == [desk EXCEPT !.idx = desk.idx + 1, !.advance = FALSE]
      <3>1. Desktop!Mount([desk EXCEPT !.advance = FALSE, !.idx = @ + 1])
        BY <2>1 DEF Desktop!Advance, Desktop!Rearmed
      <3>2. [desk EXCEPT !.advance = FALSE, !.idx = @ + 1] = r
        BY <1>1 DEF ScreenStates
      <3>3. Steps(desk, r, desk.idx + 1, FALSE)
        BY <2>1 DEF Desktop!Advance, Steps
      <3>4. Desktop!Mount(r) /\ desk.idx + 1 \in Nat
        BY <1>2, <3>1, <3>2
      <3> HIDE DEF r
      <3> QED BY <3>3, <3>4
    <2>2. CASE Desktop!Next_
      <3>1. desk.idx + 1 < Len(desk.paper) /\ desk.idx + 1 >= desk.idx
        BY <1>2, <2>2 DEF Desktop!Next_, Desktop!Last
      <3> DEFINE r == [desk EXCEPT !.idx = desk.idx + 1, !.advance = desk.advance]
      <3>2. Desktop!Mount(r)
        <4>1. Desktop!Mount([desk EXCEPT !.idx = @ + 1])
          BY <2>2 DEF Desktop!Next_
        <4>2. [desk EXCEPT !.idx = @ + 1] = r
          BY <1>1 DEF ScreenStates
        <4> QED BY <4>1, <4>2
      <3>3. Steps(desk, r, desk.idx + 1, desk.advance)
        BY <3>1 DEF Steps
      <3> HIDE DEF r
      <3> QED BY <1>2, <3>2, <3>3
    <2>3. CASE Desktop!Previous
      <3>1. desk.idx - 1 \in Nat /\ desk.idx - 1 < Len(desk.paper) /\ desk.set.mode # "exam"
        BY <1>2, <2>3 DEF Desktop!Previous, Desktop!MayGoBack, Desktop!Exam, Desktop!Taking
      <3> DEFINE r == [desk EXCEPT !.idx = desk.idx - 1, !.advance = desk.advance]
      <3>2. Desktop!Mount(r)
        <4>1. Desktop!Mount([desk EXCEPT !.idx = @ - 1])
          BY <2>3 DEF Desktop!Previous
        <4>2. [desk EXCEPT !.idx = @ - 1] = r
          BY <1>1 DEF ScreenStates
        <4> QED BY <4>1, <4>2
      <3>3. Steps(desk, r, desk.idx - 1, desk.advance)
        BY <3>1 DEF Steps
      <3> HIDE DEF r
      <3> QED BY <1>2, <3>1, <3>2, <3>3
    <2>4. CASE Desktop!Jump \/ Desktop!ReviewMoves
      <3>1. PICK i \in 0..(Len(desk.paper) - 1) : Desktop!Mount([desk EXCEPT !.idx = i])
        BY <2>4 DEF Desktop!Jump, Desktop!ReviewMoves
      <3> DEFINE r == [desk EXCEPT !.idx = i, !.advance = desk.advance]
      <3>2. [desk EXCEPT !.idx = i] = r
        BY <1>1 DEF ScreenStates
      <3>3. desk.set.mode # "exam" \/ desk.phase = "review"
        BY <2>4 DEF Desktop!Jump, Desktop!Exam, Desktop!ReviewMoves, Desktop!Reviewing
      <3>4. i \in Nat /\ i < Len(desk.paper)
        BY <1>2
      <3>5. Steps(desk, r, i, desk.advance)
        BY <3>3, <3>4 DEF Steps
      <3>6. Desktop!Mount(r)
        BY <3>1, <3>2
      <3> HIDE DEF r
      <3> QED BY <1>2, <3>4, <3>5, <3>6
    <2> QED BY <2>1, <2>2, <2>3, <2>4
  <1>4. desk' \in ScreenStates /\ Walked(desk, desk') /\ Painted(desk')
    BY <1>1, <1>3, WalkedState, MountMoves
  <1> QED BY <1>1, <1>4 DEF FlowInv, DeskMoved, Moved, Storage, KeptSound

\* The timers stop when the user leaves, and the clock when it is used up.
LEMMA DeskStops ==
  ASSUME FlowInv, Desktop!Close \/ Desktop!Finish \/ Desktop!Tick
  PROVE  DeskMoved /\ Storage
  <1>1. /\ desk \in ScreenStates
        /\ UNCHANGED <<handoff, results, begun, asked>>
    BY DEF FlowInv, ScreenInv, Desktop!Here, Desktop!paperVars, Desktop!Close, Desktop!Finish,
       Desktop!Tick
  <1>2. /\ desk.left \in Nat /\ desk.clock \in BOOLEAN /\ desk.advance \in BOOLEAN
        /\ desk.leaked \in Nat
    BY <1>1 DEF ScreenStates
  <1>3. CASE Desktop!Close
    <2>1. desk' = [desk EXCEPT !.left = desk.left, !.clock = FALSE, !.advance = FALSE]
      BY <1>1, <1>3 DEF Desktop!Close, ScreenStates
    <2>10. desk' \in ScreenStates /\ Ticked(desk, desk')
      BY <1>1, <1>2, <2>1, TickedState
    <2>2. desk' \in ScreenStates /\ Ticked(desk, desk') /\ Painted(desk')
      BY <2>10, DeskPainted, PaintedKept DEF Ticked, SameSheet
    <2> QED BY <1>1, <2>2 DEF FlowInv, DeskMoved, Moved, Storage, KeptSound
  <1>4. CASE Desktop!Finish
    <2>1. /\ desk.phase = "taking"
          /\ Desktop!Mount([desk EXCEPT !.clock = FALSE, !.advance = FALSE, !.phase = "finishing",
                                        !.saving = @ \cup {desk.attempt}])
      BY <1>4 DEF Desktop!Finish, Desktop!FinishUp, Desktop!Taking
    <2> DEFINE r == [desk EXCEPT !.left = desk.left, !.clock = FALSE, !.advance = FALSE,
                        !.phase = "finishing", !.saving = desk.saving \cup {desk.attempt}]
    <2>3. r = [desk EXCEPT !.clock = FALSE, !.advance = FALSE, !.phase = "finishing",
                           !.saving = @ \cup {desk.attempt}]
      BY <1>1 DEF ScreenStates
    <2>4. r \in ScreenStates /\ HandedIn(desk, r)
      BY <1>1, <1>2, <2>1, HandedInState
    <2>2. desk' \in ScreenStates /\ HandedIn(desk, desk') /\ Painted(desk')
      BY <1>1, <2>1, <2>3, <2>4, MountMoves
    <2> QED BY <1>1, <2>2 DEF FlowInv, DeskMoved, Moved, Storage, KeptSound
  <1>5. CASE Desktop!Tick
    <2> DEFINE left == IF desk.left = 0 THEN 0 ELSE desk.left - 1
               clock == desk.clock /\ left > 0
               ticked == [desk EXCEPT !.left = left, !.clock = clock]
    <2>1. left \in Nat /\ clock \in BOOLEAN /\ (clock => desk.clock)
      BY <1>2
    <2>2. /\ desk.clock \/ desk.leaked > 0
          /\ Desktop!FinishUp(ticked) \/ desk' = ticked
      BY <1>1, <1>5 DEF Desktop!Tick
    <2> HIDE DEF left, clock
    <2>3. CASE desk' = ticked
      <3>1. desk' = [desk EXCEPT !.left = left, !.clock = clock, !.advance = desk.advance]
        BY <1>1, <2>3 DEF ScreenStates
      <3>10. desk' \in ScreenStates /\ Ticked(desk, desk')
        BY <1>1, <1>2, <2>1, <3>1, TickedState
      <3>2. desk' \in ScreenStates /\ Ticked(desk, desk') /\ Painted(desk')
        BY <3>10, DeskPainted, PaintedKept DEF Ticked, SameSheet
      <3> QED BY <1>1, <3>2 DEF FlowInv, DeskMoved, Moved, Storage, KeptSound
    <2>4. CASE Desktop!FinishUp(ticked)
      <3> DEFINE r == [desk EXCEPT !.left = left, !.clock = FALSE, !.advance = FALSE,
                       !.phase = "finishing", !.saving = desk.saving \cup {desk.attempt}]
      <3>1. Desktop!Mount(r)
        <4>1. r = [ticked EXCEPT !.clock = FALSE, !.advance = FALSE, !.phase = "finishing",
                                 !.saving = @ \cup {desk.attempt}]
          BY <1>1 DEF ScreenStates
        <4> QED BY <2>4, <4>1 DEF Desktop!FinishUp
      <3>3. r \in ScreenStates /\ HandedIn(desk, r)
        BY <1>1, <2>1, <2>2, HandedInState
      <3>2. desk' \in ScreenStates /\ HandedIn(desk, desk') /\ Painted(desk')
        BY <1>1, <3>1, <3>3, MountMoves
      <3> QED BY <1>1, <3>2 DEF FlowInv, DeskMoved, Moved, Storage, KeptSound
    <2> QED BY <2>2, <2>3, <2>4
  <1> QED BY <1>3, <1>4, <1>5

LEMMA DeskReturned ==
  ASSUME FlowInv, NEW a, NEW answered, Desktop!FinishReturned(a, answered)
  PROVE  DeskMoved /\ Storage
  <1>1. /\ desk \in ScreenStates /\ KeptSound(results)
        /\ a \in desk.saving /\ asked' = a /\ UNCHANGED <<handoff, begun>>
        /\ desk' = [desk EXCEPT !.saving = desk.saving \ {a}]
    BY DEF FlowInv, ScreenInv, Desktop!FinishReturned, ScreenStates
  <1>2. a \in Nat
    BY <1>1 DEF ScreenStates
  <1>3. KeptSound(results)' /\ DOMAIN results' = DOMAIN results \cup {a}
    BY <1>1, <1>2, KeptMore DEF Desktop!FinishReturned, Desktop!Kept
  <1>10. desk' \in ScreenStates /\ Returned(desk, desk', results, results')
    BY <1>1, <1>3, ReturnedState
  <1>4. desk' \in ScreenStates /\ Returned(desk, desk', results, results') /\ Painted(desk')
    BY <1>10, DeskPainted, PaintedKept DEF Returned, SameSheet
  <1> QED BY <1>1, <1>2, <1>3, <1>4 DEF DeskMoved, Moved, Storage

LEMMA DeskLeft ==
  ASSUME FlowInv, Desktop!ModalCancelled \/ Desktop!ReviewLeft
  PROVE  DeskMoved /\ Storage
  <1>1. /\ desk \in ScreenStates /\ KeptSound(results) /\ begun \in Nat
        /\ UNCHANGED <<desk, handoff, results, begun>> /\ asked' \in {asked, desk.attempt}
    BY DEF FlowInv, ScreenInv, Desktop!ModalCancelled, Desktop!ReviewLeft, Desktop!paperVars
  <1>2. desk.attempt \in Nat /\ asked \in Nat
    BY <1>1 DEF ScreenStates, FlowInv
  <1>3. Painted(desk')
    BY <1>1 DEF FlowInv
  <1> QED BY <1>1, <1>2, <1>3 DEF DeskMoved, Moved, Storage, KeptSound

LEMMA DeskMoves ==
  ASSUME FlowInv, Desktop!TakingStep
  PROVE  DeskMoved /\ Storage
  BY DeskLoaded, DeskLoadFailed, DeskModal, DeskClick, DeskWalks, DeskStops, DeskReturned, DeskLeft,
     SameTerms DEF Desktop!TakingStep

-----------------------------------------------------------------------------
(* The phone's screen                                                        *)

LEMMA PhoneOpens ==
  ASSUME FlowInv, Phone!PhoneRender
  PROVE  phone' \in ScreenStates /\ Opened(phone, phone') /\ Stamped(phone')
  <1>1. phone \in ScreenStates
    BY DEF FlowInv, ScreenInv
  <1>2. PICK n \in 1..MaxLoads :
          phone' = [Phone!Reset(phone) EXCEPT
                     !.loads = phone.loads \cup {[n |-> n, review |-> 0]},
                     !.torn = phone.torn \/ phone.loads # {}]
    BY <1>1 DEF Phone!PhoneRender, Phone!Render, Phone!Reset, ScreenStates
  <1>3. [n |-> n, review |-> 0] \in Loads
    BY <1>1 DEF Loads
  <1>4. NoLayouts \in LayoutMaps /\ Phone!NoTime \in Nat /\ <<>> \in Seq(Questions)
    BY OrdersKnown, PaperAssumption, EmptySeq DEF Phone!NoTime
  <1> QED BY <1>1, <1>2, <1>3, <1>4, NoSheet, SameTerms DEF Phone!Reset, Opened, Stamped, ScreenStates

LEMMA PhoneBegins ==
  ASSUME begun \in Nat, NEW base \in ScreenStates, NEW pool \in SUBSET Questions, pool # {},
         NEW count \in Nat \ {0}, NEW random \in BOOLEAN, NEW timed \in BOOLEAN,
         Phone!PhoneBegin(base, pool, count, random, timed), BeginsFrom(phone, base)
  PROVE  /\ phone' \in ScreenStates /\ Began(phone, phone', begun) /\ begun' = begun + 1
         /\ Stamped(phone')
  <1>0. base.set.shuffle \in BOOLEAN
    BY DEF ScreenStates, ScreenSettings
  <1>a. PICK paper \in Papers(pool, count, random) :
          \E order \in IF base.set.shuffle THEN [Range(paper) -> Draws] ELSE {NoLayouts} :
            phone' = [Phone!Begun(base, paper, timed) EXCEPT !.order = order]
    BY SameTerms DEF Phone!PhoneBegin, Phone!Range, Range
  <1>1. PICK order \in IF base.set.shuffle THEN [Range(paper) -> Draws] ELSE {NoLayouts} :
          phone' = [Phone!Begun(base, paper, timed) EXCEPT !.order = order]
    BY <1>a
  <1>2. paper \in Seq(Questions) /\ paper # <<>>
    BY PapersSound
  <1>3. MaxTime \in Nat /\ Phone!NoTime \in Nat
    BY PaperAssumption DEF Phone!NoTime
  <1>4. /\ order \in LayoutMaps
        /\ IF base.set.shuffle THEN Range(paper) \subseteq DOMAIN order ELSE order = NoLayouts
    <2>1. Range(paper) \in SUBSET Questions
      BY <1>2 DEF Range
    <2> QED BY <1>1, <2>1, OrdersKnown
  <1> DEFINE left == IF timed THEN MaxTime ELSE Phone!NoTime
             clock == base.clock \/ timed
             leaked == IF base.clock /\ timed THEN 1 ELSE base.leaked
             r == Phone!Begun(base, paper, timed)
  <1>5. r = [base EXCEPT
          !.phase = "taking", !.paper = paper, !.idx = 0,
          !.answers = NoAnswers, !.attempt = begun + 1, !.left = left, !.clock = clock,
          !.leaked = leaked]
    BY SameTerms DEF Phone!Begun, ScreenStates
  <1>6. left \in Nat /\ clock \in BOOLEAN /\ leaked \in Nat
    BY <1>3 DEF ScreenStates
  <1>7. clock = (phone.clock \/ timed) /\ leaked = IF phone.clock /\ timed THEN 1 ELSE phone.leaked
    BY DEF BeginsFrom
  <1>8. phone' = [r EXCEPT !.order = order]
    BY <1>1
  <1> HIDE DEF left, clock, leaked, r
  <1>9. r \in ScreenStates
    <2>1. begun + 1 \in Nat
      OBVIOUS
    <2> QED BY <1>2, <1>5, <1>6, <2>1, BegunState, Zenon
  <1>10. phone' \in ScreenStates
    BY <1>4, <1>8, <1>9 DEF ScreenStates
  <1>11. /\ r.phase = "taking" /\ r.attempt = begun + 1 /\ r.idx = 0 /\ r.set = base.set
         /\ r.paper = paper /\ r.answers = NoAnswers /\ r.torn = base.torn
         /\ r.clock = clock /\ r.leaked = leaked /\ r.loads = base.loads
    BY <1>5 DEF ScreenStates
  <1>12. /\ phone'.phase = r.phase /\ phone'.attempt = r.attempt /\ phone'.idx = r.idx
         /\ phone'.set = r.set /\ phone'.paper = r.paper /\ phone'.answers = r.answers
         /\ phone'.torn = r.torn /\ phone'.clock = r.clock /\ phone'.leaked = r.leaked
         /\ phone'.loads = r.loads /\ phone'.order = order
    BY <1>8, <1>9 DEF ScreenStates
  <1>13. Began(phone, phone', begun)
    BY <1>2, <1>7, <1>11, <1>12 DEF Began, BeginsFrom
  <1>14. Stamped(phone')
    BY <1>4, <1>11, <1>12 DEF Stamped
  <1>15. begun' = begun + 1
    BY DEF Phone!PhoneBegin
  <1> QED BY <1>10, <1>13, <1>14, <1>15

LEMMA StampedKept ==
  ASSUME NEW r, NEW r2, Stamped(r), SameAttempt(r, r2), r2.phase = "taking" => r.phase = "taking"
  PROVE  Stamped(r2)
  <1> SUFFICES ASSUME r2.phase = "taking" PROVE Stamped(r2)
    BY DEF Stamped
  <1>1. CASE r.set.shuffle
    BY <1>1 DEF Stamped, SameAttempt, Grown
  <1>2. CASE ~r.set.shuffle
    BY <1>2 DEF Stamped, SameAttempt, Grown
  <1> QED BY <1>1, <1>2

\* What the phone moved, with the attempts and the results.
PhoneMoved == Moved(phone, phone', begun, begun', results, results') /\ Stamped(phone')

LEMMA PhoneStamped == FlowInv => Stamped(phone)
  BY DEF FlowInv

LEMMA PhoneLoaded ==
  ASSUME FlowInv, NEW l, Phone!PhoneLoaded(l)
  PROVE  PhoneMoved /\ Storage
  <1> DEFINE rest == [phone EXCEPT !.loads = @ \ {l}]
  <1>1. /\ phone \in ScreenStates /\ KeptSound(results)
        /\ UNCHANGED <<handoff, results, asked>> /\ asked \in Nat
    BY DEF FlowInv, ScreenInv, Phone!PhoneLoaded
  <1>2. l \in phone.loads
    BY <1>1 DEF Phone!PhoneLoaded
  <1>3. /\ rest \in ScreenStates /\ rest.loads = phone.loads \ {l}
        /\ rest.leaked = phone.leaked /\ rest.torn = phone.torn /\ rest.clock = phone.clock
        /\ rest.attempt = phone.attempt /\ rest.answers = phone.answers
    BY <1>1 DEF ScreenStates
  <1> HIDE DEF rest
  <1>5. CASE /\ handoff = <<>>
             /\ phone' = [rest EXCEPT !.phase = "pretest"]
             /\ UNCHANGED begun
    <2>1. phone' \in ScreenStates
      BY <1>3, <1>5 DEF ScreenStates
    <2>2. /\ phone'.phase = "pretest" /\ phone'.answers = rest.answers /\ phone'.loads = rest.loads
          /\ phone'.leaked = rest.leaked /\ phone'.torn = rest.torn /\ phone'.clock = rest.clock
      BY <1>3, <1>5 DEF ScreenStates
    <2>3. Turned(phone, phone') /\ Stamped(phone')
      BY <1>1, <1>2, <1>3, <2>2 DEF Turned, Arrives, Stamped
    <2> QED BY <1>1, <1>5, <2>1, <2>3 DEF PhoneMoved, Moved, Storage, KeptSound
  <1>6. CASE /\ handoff # <<>>
             /\ LET h == handoff[1] IN
                Phone!PhoneBegin([rest EXCEPT !.set = Phone!Applied(h)],
                                     Phone!Filtered(h), h.count, h.random, h.limit > 0)
    <2>1. PICK h \in Handoffs : handoff = <<h>> /\ KeepsMode(h)
      BY <1>6 DEF FlowInv, StorageSound, HandoffSound
    <2>2. /\ h.mode \in Modes /\ h.reveal \in BOOLEAN /\ h.shuffle \in BOOLEAN
          /\ h.random \in BOOLEAN /\ h.limit \in Nat /\ h.filter \in SUBSET Questions
          /\ h.count \in Nat \ {0}
      BY <2>1, FiniteQuestions DEF Handoffs, KeepsMode
    <2> DEFINE set == Phone!Applied(h)
               base == [rest EXCEPT !.set = set]
               pool == Filtered(h)
               timed == h.limit > 0
    <2>3. set \in ScreenSettings
      BY <2>2 DEF Phone!Applied, ScreenSettings
    <2>4. Phone!PhoneBegin(base, pool, h.count, h.random, timed)
      BY <1>6, <2>1, SameTerms
    <2>5. pool \in SUBSET Questions /\ pool # {} /\ timed \in BOOLEAN
      BY <2>2, FiniteQuestions, FS_EmptySet DEF Filtered, Total
    <2> HIDE DEF set
    <2>6. base \in ScreenStates
      BY <1>3, <2>3 DEF ScreenStates
    <2>7. BeginsFrom(phone, base)
      BY <1>2, <1>3 DEF ScreenStates, BeginsFrom
    <2> DEFINE count == h.count
               random == h.random
    <2>10. /\ count \in Nat \ {0} /\ random \in BOOLEAN /\ begun \in Nat
           /\ Phone!PhoneBegin(base, pool, count, random, timed)
      BY <2>2, <2>4 DEF FlowInv
    <2> HIDE DEF base, pool, timed, count, random
    <2>8. phone' \in ScreenStates /\ Began(phone, phone', begun) /\ begun' = begun + 1 /\ Stamped(phone')
      BY <2>5, <2>6, <2>7, <2>10, PhoneBegins
    <2> QED BY <1>1, <1>6, <2>8 DEF PhoneMoved, Moved, Storage, KeptSound
  <1> QED BY <1>5, <1>6 DEF Phone!PhoneLoaded, rest

LEMMA PhoneModal ==
  ASSUME FlowInv, Phone!PhoneModalStarts
  PROVE  PhoneMoved /\ Storage
  <1>1. phone \in ScreenStates /\ phone.phase = "pretest" /\ UNCHANGED <<handoff, results, asked>>
    BY DEF FlowInv, ScreenInv, Phone!PhoneModalStarts
  <1>2. PICK show \in BOOLEAN, random \in BOOLEAN, timed \in BOOLEAN, count \in 1..Len(TestOrder) :
          Phone!PhoneBegin([phone EXCEPT !.set = [phone.set EXCEPT !.show = show]],
                           Questions, count, random, timed)
    BY <1>1, SameTerms DEF Phone!PhoneModalStarts, ScreenStates
  <1> DEFINE set == [phone.set EXCEPT !.show = show]
             base == [phone EXCEPT !.set = set]
  <1>3. set \in ScreenSettings
    BY <1>1 DEF ScreenStates, ScreenSettings
  <1>4. Phone!PhoneBegin(base, Questions, count, random, timed)
    BY <1>2
  <1> HIDE DEF set
  <1>5. base \in ScreenStates
    BY <1>1, <1>3 DEF ScreenStates
  <1>6. BeginsFrom(phone, base) /\ begun \in Nat
    BY <1>1 DEF ScreenStates, BeginsFrom, FlowInv
  <1>7. count \in Nat \ {0} /\ Questions # {} /\ Questions \in SUBSET Questions
    BY PaperAssumption, FiniteQuestions, FS_EmptySet DEF Total
  <1> HIDE DEF base
  <1>8. phone' \in ScreenStates /\ Began(phone, phone', begun) /\ begun' = begun + 1 /\ Stamped(phone')
    BY <1>1, <1>4, <1>5, <1>6, <1>7, PhoneBegins
  <1> QED BY <1>1, <1>8 DEF PhoneMoved, Moved, Storage, KeptSound, FlowInv

LEMMA PhoneLoadFailed ==
  ASSUME FlowInv, NEW l, Phone!PhoneLoadFailed(l)
  PROVE  PhoneMoved /\ Storage
  <1>1. /\ phone \in ScreenStates /\ l \in phone.loads /\ phone' = [phone EXCEPT !.loads = phone.loads \ {l}]
        /\ UNCHANGED <<handoff, results, begun, asked>>
    BY DEF FlowInv, ScreenInv, Phone!PhoneLoadFailed, Phone!paperVars, ScreenStates
  <1>10. phone' \in ScreenStates /\ Failed(phone, phone')
    BY <1>1, FailedState
  <1>2. phone' \in ScreenStates /\ Failed(phone, phone') /\ Stamped(phone')
    BY <1>10, PhoneStamped, StampedKept DEF Failed
  <1> QED BY <1>1, <1>2 DEF FlowInv, PhoneMoved, Moved, Storage, KeptSound

\* The stamps of the options are their order in the test.
LEMMA StampsLaid ==
  ASSUME FlowInv, phone.phase = "taking", NEW q \in Questions,
         phone.set.shuffle => q \in DOMAIN phone.order
  PROVE  Phone!Stamps(q) = Laid(phone, q) /\ Phone!Stamps(q) \in Layouts
  <1>1. phone.order \in LayoutMaps /\ Stamped(phone)
    BY DEF FlowInv, ScreenInv, ScreenStates
  <1>2. CASE phone.set.shuffle
    BY <1>1, <1>2, OrdersKnown DEF Phone!Stamps, Laid
  <1>3. CASE ~phone.set.shuffle
    <2>1. phone.order = NoLayouts
      BY <1>1, <1>3 DEF Stamped
    <2>2. q \notin DOMAIN phone.order
      BY <2>1 DEF NoLayouts
    <2> QED BY <1>3, <2>2, OrdersKnown, SameTerms DEF Phone!Stamps, Laid
  <1> QED BY <1>2, <1>3

LEMMA PhoneClick ==
  ASSUME FlowInv, NEW pos \in Options, Phone!PhoneOptionClick(pos)
  PROVE  PhoneMoved /\ Storage
  <1>1. /\ phone \in ScreenStates /\ phone.phase = "taking" /\ phone.idx < Len(phone.paper)
        /\ UNCHANGED <<handoff, results, begun, asked>>
    BY DEF FlowInv, ScreenInv, Phone!PhoneOptionClick, Phone!PhoneTaking, Phone!PhoneHere, Phone!paperVars
  <1> DEFINE q == Phone!Current
             i == Phone!PhoneIndex(q, pos)
             v == [pos |-> pos, sent |-> i, right |-> Phone!Stamps(q)[pos] = Marked[q]]
             armed == phone.advance \/ (phone.set.show /\ ~Phone!Last)
  <1>2. q \in Questions /\ (phone.set.shuffle => q \in DOMAIN phone.order)
    <2>1. phone.paper \in Seq(Questions) /\ phone.idx \in Nat
      BY <1>1 DEF ScreenStates
    <2>2. phone.idx + 1 \in DOMAIN phone.paper
      BY <1>1, <2>1
    <2>3. phone.set.shuffle => phone.paper[phone.idx + 1] \in DOMAIN phone.order
      BY <1>1, <2>2 DEF FlowInv, Stamped, Range
    <2> QED BY <2>1, <2>2, <2>3 DEF Phone!Current
  <1>3. Phone!Stamps(q) = Laid(phone, q) /\ Phone!Stamps(q) \in Layouts
    BY <1>1, <1>2, StampsLaid
  <1>4. i = Phone!Stamps(q)[pos] /\ i \in Options
    BY <1>3 DEF Phone!PhoneIndex, Layouts, Bijection, Injection
  <1>5. v \in Answer /\ Fits(phone, q, v)
    BY <1>2, <1>3, <1>4 DEF Answer, Fits
  <1>6. armed \in BOOLEAN
    BY <1>1 DEF ScreenStates, ScreenSettings
  <1>7. armed => phone.advance \/ phone.idx + 1 < Len(phone.paper)
    <2>1. Len(phone.paper) \in Nat /\ phone.idx \in Nat
      BY <1>1 DEF ScreenStates
    <2> QED BY <1>1, <2>1 DEF Phone!Last
  <1>8. ~(q \in DOMAIN phone.answers /\ phone.set.show)
    BY DEF Phone!PhoneOptionClick, Phone!MayAnswer
  <1>9. phone' = WithAnswer(phone, q, v, armed)
    BY <1>1, SameTerms DEF Phone!PhoneOptionClick, ScreenStates, WithAnswer
  <1> HIDE DEF q, v, armed
  <1>10. phone' \in ScreenStates /\ Picked(phone, phone', q, v)
    BY <1>1, <1>2, <1>5, <1>6, <1>7, <1>8, <1>9, PickedState
  <1>11. Stamped(phone')
    BY <1>10, PhoneStamped, StampedKept DEF Picked
  <1> QED BY <1>1, <1>2, <1>5, <1>10, <1>11 DEF FlowInv, PhoneMoved, Moved, Storage, KeptSound

\* The advance, the buttons and the drawer.
LEMMA PhoneWalks ==
  ASSUME FlowInv,
         \/ Phone!PhoneAdvance \/ Phone!PhoneNext \/ Phone!PhonePrevious \/ Phone!PhoneJump
  PROVE  PhoneMoved /\ Storage
  <1>1. /\ phone \in ScreenStates
        /\ UNCHANGED <<handoff, results, begun, asked>>
    BY DEF FlowInv, ScreenInv, Phone!PhoneHere, Phone!paperVars,
       Phone!PhoneAdvance, Phone!PhoneNext, Phone!PhonePrevious, Phone!PhoneJump
  <1>2. /\ phone.idx \in Nat /\ Len(phone.paper) \in Nat /\ phone.advance \in BOOLEAN
        /\ phone.phase = "taking" => phone.idx <= Len(phone.paper)
    BY <1>1 DEF FlowInv, ScreenInv, OnPaper, ScreenStates
  <1>3. \E i \in Nat, armed \in BOOLEAN : Steps(phone, phone', i, armed)
    <2>1. CASE Phone!PhoneAdvance
      <3>1. phone.idx + 1 \in Nat /\ phone'.advance \in BOOLEAN
        BY <1>1, <1>2, <2>1 DEF Phone!PhoneAdvance, ScreenStates
      <3>2. Steps(phone, phone', phone.idx + 1, phone'.advance)
        BY <1>1, <2>1 DEF Phone!PhoneAdvance, ScreenStates, Steps
      <3> QED BY <3>1, <3>2
    <2>2. CASE Phone!PhoneNext
      <3>1. phone.idx + 1 < Len(phone.paper) /\ phone.idx + 1 >= phone.idx
        BY <1>2, <2>2 DEF Phone!PhoneNext, Phone!Last
      <3>2. phone' = [phone EXCEPT !.idx = phone.idx + 1, !.advance = phone.advance]
        BY <1>1, <2>2 DEF Phone!PhoneNext, ScreenStates
      <3>3. Steps(phone, phone', phone.idx + 1, phone.advance)
        BY <3>1, <3>2 DEF Steps
      <3> QED BY <1>2, <3>3
    <2>3. CASE Phone!PhonePrevious
      <3>1. phone.idx - 1 \in Nat /\ phone.idx - 1 < Len(phone.paper) /\ phone.set.mode # "exam"
        BY <1>2, <2>3 DEF Phone!PhonePrevious, Phone!MayGoBack, Phone!Exam, Phone!PhoneTaking
      <3>2. phone' = [phone EXCEPT !.idx = phone.idx - 1, !.advance = phone.advance]
        BY <1>1, <2>3 DEF Phone!PhonePrevious, ScreenStates
      <3>3. Steps(phone, phone', phone.idx - 1, phone.advance)
        BY <3>1, <3>2 DEF Steps
      <3> QED BY <1>2, <3>1, <3>3
    <2>4. CASE Phone!PhoneJump
      <3>1. PICK i \in 0..(Len(phone.paper) - 1) :
              Phone!MayJump(i) /\ phone' = [phone EXCEPT !.idx = i]
        BY <2>4 DEF Phone!PhoneJump
      <3>2. phone' = [phone EXCEPT !.idx = i, !.advance = phone.advance]
        BY <1>1, <3>1 DEF ScreenStates
      <3>3. /\ i \in Nat /\ i < Len(phone.paper)
            /\ phone.set.mode = "exam" => i >= phone.idx
        BY <1>2, <3>1 DEF Phone!MayJump, Phone!Exam
      <3>4. Steps(phone, phone', i, phone.advance)
        BY <3>2, <3>3 DEF Steps
      <3> QED BY <1>2, <3>3, <3>4
    <2> QED BY <2>1, <2>2, <2>3, <2>4
  <1>10. phone' \in ScreenStates /\ Walked(phone, phone')
    BY <1>1, <1>3, WalkedState
  <1>4. phone' \in ScreenStates /\ Walked(phone, phone') /\ Stamped(phone')
    BY <1>10, PhoneStamped, StampedKept DEF Walked, SameSheet
  <1> QED BY <1>1, <1>4 DEF FlowInv, PhoneMoved, Moved, Storage, KeptSound

\* The timers stop when the user leaves, and the clock when it is used up.
LEMMA PhoneStops ==
  ASSUME FlowInv, Phone!PhoneClose \/ Phone!PhoneFinish \/ Phone!PhoneTick
  PROVE  PhoneMoved /\ Storage
  <1>1. /\ phone \in ScreenStates
        /\ UNCHANGED <<handoff, results, begun, asked>>
    BY DEF FlowInv, ScreenInv, Phone!PhoneHere, Phone!paperVars, Phone!PhoneClose, Phone!PhoneFinish,
       Phone!PhoneTick
  <1>2. /\ phone.left \in Nat /\ phone.clock \in BOOLEAN /\ phone.advance \in BOOLEAN
        /\ phone.leaked \in Nat
    BY <1>1 DEF ScreenStates
  <1>3. CASE Phone!PhoneClose
    <2>1. phone' = [phone EXCEPT !.left = phone.left, !.clock = FALSE, !.advance = FALSE]
      BY <1>1, <1>3 DEF Phone!PhoneClose, ScreenStates
    <2>10. phone' \in ScreenStates /\ Ticked(phone, phone')
      BY <1>1, <1>2, <2>1, TickedState
    <2>2. phone' \in ScreenStates /\ Ticked(phone, phone') /\ Stamped(phone')
      BY <2>10, PhoneStamped, StampedKept DEF Ticked, SameSheet
    <2> QED BY <1>1, <2>2 DEF FlowInv, PhoneMoved, Moved, Storage, KeptSound
  <1>4. CASE Phone!PhoneFinish
    <2>1. /\ phone.phase = "taking"
          /\ phone' = [phone EXCEPT !.left = phone.left, !.clock = FALSE, !.advance = FALSE,
                        !.phase = "finishing", !.saving = phone.saving \cup {phone.attempt}]
      BY <1>1, <1>4 DEF Phone!PhoneFinish, Phone!PhoneFinishUp, Phone!PhoneTaking, ScreenStates
    <2>2. phone' \in ScreenStates /\ HandedIn(phone, phone') /\ Stamped(phone')
      BY <1>1, <1>2, <2>1, HandedInState DEF HandedIn, Stamped
    <2> QED BY <1>1, <2>2 DEF FlowInv, PhoneMoved, Moved, Storage, KeptSound
  <1>5. CASE Phone!PhoneTick
    <2> DEFINE left == IF phone.left = 0 THEN 0 ELSE phone.left - 1
               ticked == [phone EXCEPT !.left = left]
    <2>1. left \in Nat
      BY <1>2
    <2>2. /\ phone.clock \/ phone.leaked > 0
          /\ Phone!PhoneFinishUp(ticked) \/ phone' = ticked
      BY <1>1, <1>5 DEF Phone!PhoneTick
    <2> HIDE DEF left
    <2>3. CASE phone' = ticked
      <3>1. phone' = [phone EXCEPT !.left = left, !.clock = phone.clock, !.advance = phone.advance]
        BY <1>1, <2>3 DEF ScreenStates
      <3>10. phone' \in ScreenStates /\ Ticked(phone, phone')
        BY <1>1, <1>2, <2>1, <3>1, TickedState
      <3>2. phone' \in ScreenStates /\ Ticked(phone, phone') /\ Stamped(phone')
        BY <3>10, PhoneStamped, StampedKept DEF Ticked, SameSheet
      <3> QED BY <1>1, <3>2 DEF FlowInv, PhoneMoved, Moved, Storage, KeptSound
    <2>4. CASE Phone!PhoneFinishUp(ticked)
      <3>1. phone' = [phone EXCEPT !.left = left, !.clock = FALSE, !.advance = FALSE,
                       !.phase = "finishing", !.saving = phone.saving \cup {phone.attempt}]
        BY <1>1, <2>4 DEF Phone!PhoneFinishUp, ScreenStates
      <3>2. phone' \in ScreenStates /\ HandedIn(phone, phone') /\ Stamped(phone')
        BY <1>1, <2>1, <2>2, <3>1, HandedInState DEF HandedIn, Stamped
      <3> QED BY <1>1, <3>2 DEF FlowInv, PhoneMoved, Moved, Storage, KeptSound
    <2> QED BY <2>2, <2>3, <2>4
  <1> QED BY <1>3, <1>4, <1>5

LEMMA PhoneReturned ==
  ASSUME FlowInv, NEW a, NEW answered, Phone!PhoneFinishReturned(a, answered)
  PROVE  PhoneMoved /\ Storage
  <1>1. /\ phone \in ScreenStates /\ KeptSound(results)
        /\ a \in phone.saving /\ asked' = a /\ UNCHANGED <<handoff, begun>>
        /\ phone' = [phone EXCEPT !.saving = phone.saving \ {a}]
    BY DEF FlowInv, ScreenInv, Phone!PhoneFinishReturned, ScreenStates
  <1>2. a \in Nat
    BY <1>1 DEF ScreenStates
  <1>3. KeptSound(results)' /\ DOMAIN results' = DOMAIN results \cup {a}
    BY <1>1, <1>2, KeptMore DEF Phone!PhoneFinishReturned, Phone!Kept
  <1>10. phone' \in ScreenStates /\ Returned(phone, phone', results, results')
    BY <1>1, <1>3, ReturnedState
  <1>4. phone' \in ScreenStates /\ Returned(phone, phone', results, results') /\ Stamped(phone')
    BY <1>10, PhoneStamped, StampedKept DEF Returned, SameSheet
  <1> QED BY <1>1, <1>2, <1>3, <1>4 DEF PhoneMoved, Moved, Storage

\* Only the drawer moves, or the address.
LEMMA PhoneLeft ==
  ASSUME FlowInv, Phone!PhoneModalBack \/ Phone!Drawer
  PROVE  PhoneMoved /\ Storage
  <1>1. /\ phone \in ScreenStates /\ KeptSound(results) /\ begun \in Nat /\ asked \in Nat
        /\ UNCHANGED <<phone, handoff, results, begun, asked>>
    BY DEF FlowInv, ScreenInv, Phone!PhoneModalBack, Phone!Drawer, Phone!PhoneHere, Phone!paperVars
  <1>2. Stamped(phone')
    BY <1>1 DEF FlowInv
  <1> QED BY <1>1, <1>2 DEF PhoneMoved, Moved, Storage, KeptSound

LEMMA PhoneMoves ==
  ASSUME FlowInv, Phone!PhoneStep
  PROVE  PhoneMoved /\ Storage
  BY PhoneLoaded, PhoneLoadFailed, PhoneModal, PhoneClick, PhoneWalks, PhoneStops, PhoneReturned,
     PhoneLeft, SameTerms DEF Phone!PhoneStep

-----------------------------------------------------------------------------
(* The pre-tests                                                             *)

\* Some preset is the nearest one, whatever the presets are.
LEMMA NearestPreset ==
  ASSUME NEW target \in Nat
  PROVE  LET near == {p \in Presets \ {0} :
                        \A r \in Presets \ {0} : Distance(p, target) <= Distance(r, target)} IN
         (CHOOSE p \in near : \A r \in near : p <= r) \in Nat \ {0}
  <1> DEFINE away == {Distance(p, target) : p \in Presets \ {0}}
             near == {p \in Presets \ {0} :
                        \A r \in Presets \ {0} : Distance(p, target) <= Distance(r, target)}
  <1>1. Presets \subseteq Nat /\ Presets \ {0} # {}
    BY PretestAssumption
  <1>2. \A p \in Nat : Distance(p, target) \in Nat
    BY DEF Distance, Larger, Smaller
  <1>3. away \in SUBSET Nat /\ away # {}
    BY <1>1, <1>2
  <1>4. PICK m \in away : \A n \in away : m <= n
    <2> HIDE DEF away
    <2> QED BY <1>3, LeastNumber
  <1>5. near \in SUBSET Nat /\ near # {}
    <2>1. PICK p \in Presets \ {0} : m = Distance(p, target)
      BY <1>4
    <2>2. p \in near
      BY <1>4, <2>1
    <2> QED BY <1>1, <2>2
  <1>6. \E p \in near : \A r \in near : p <= r
    <2> HIDE DEF near
    <2> QED BY <1>5, LeastNumber
  <1>7. (CHOOSE p \in near : \A r \in near : p <= r) \in near
    BY <1>6
  <1> QED BY <1>1, <1>7

LEMMA Sizes ==
  /\ Smaller(20, Total) \in 1..Total
  /\ \A n \in Nat : Larger(1, Smaller(Total, n)) \in 1..Total
  /\ \A p \in Pools : p \in [{"weak", "flagged", "untaken"} -> SUBSET Questions]
  BY FiniteQuestions, PretestAssumption DEF Smaller, Larger

LEMMA PromotedSound ==
  ASSUME NEW f \in Forms
  PROVE  /\ \E limit \in Nat : Promoted(f) = [f EXCEPT !.limit = limit]
         /\ Strict(f.mode) => Promoted(f).limit > 0
  <1>1. f.limit \in Nat /\ f.count \in Nat
    BY FiniteQuestions DEF Forms
  <1> DEFINE target == Larger(5, (7 * f.count + 5) \div 10)
  <1>2. target \in Nat
    BY <1>1 DEF Larger
  <1> DEFINE near == {p \in Presets \ {0} :
                        \A r \in Presets \ {0} : Distance(p, target) <= Distance(r, target)}
             chosen == CHOOSE p \in near : \A r \in near : p <= r
  <1>3. chosen \in Nat \ {0}
    <2> HIDE DEF target
    <2> QED BY <1>2, NearestPreset
  <1>4. Promoted(f) = IF Strict(f.mode) /\ f.limit = 0 THEN [f EXCEPT !.limit = chosen] ELSE f
    BY DEF Promoted
  <1> HIDE DEF chosen
  <1>5. CASE Strict(f.mode) /\ f.limit = 0
    BY <1>3, <1>4, <1>5 DEF Forms
  <1>6. CASE ~(Strict(f.mode) /\ f.limit = 0)
    <2>1. Promoted(f) = f /\ f = [f EXCEPT !.limit = f.limit]
      BY <1>4, <1>6 DEF Forms
    <2> QED BY <1>1, <1>6, <2>1
  <1> QED BY <1>5, <1>6

LEMMA CappedSound ==
  ASSUME NEW f \in Forms
  PROVE  /\ \E limit, cap \in Nat : Capped(f) = [f EXCEPT !.cap = cap, !.limit = limit]
         /\ f.limit > 0 => Capped(f).limit > 0
  <1> DEFINE cap == CASE f.mode = "exam"  -> Larger(5, Smaller(180, f.count))
                      [] f.mode = "timed" -> Larger(10, Smaller(300, 2 * f.count))
                      [] OTHER            -> 600
             limit == Smaller(f.limit, cap)
  <1>1. f.limit \in Nat /\ f.count \in Nat
    BY FiniteQuestions DEF Forms
  <1>2. cap \in Nat /\ cap >= 5
    <2>1. CASE f.mode = "exam"
      BY <1>1, <2>1 DEF Larger, Smaller
    <2>2. CASE f.mode = "timed"
      BY <1>1, <2>2 DEF Larger, Smaller
    <2>3. CASE f.mode \notin {"exam", "timed"}
      BY <2>3
    <2> QED BY <2>1, <2>2, <2>3
  <1>3. Capped(f) = [f EXCEPT !.cap = cap, !.limit = limit]
    BY DEF Capped, Forms
  <1> HIDE DEF cap
  <1>4. limit \in Nat /\ (f.limit > 0 => limit > 0)
    BY <1>1, <1>2 DEF Smaller
  <1> HIDE DEF limit
  <1>5. Capped(f).limit = limit
    BY <1>3 DEF Forms
  <1> QED BY <1>2, <1>3, <1>4, <1>5

LEMMA RefreshedSound ==
  ASSUME NEW f \in Forms, ~f.narrow, f.count <= f.top
  PROVE  Refreshed(f) \in Forms /\ FormSound(Refreshed(f))
  <1> DEFINE p == Promoted(f)
             c == Capped(p)
             e == ExamLocked(c)
  <1>1. /\ p \in Forms /\ ~p.narrow /\ p.count <= p.top /\ p.mode = f.mode
        /\ Strict(p.mode) => p.limit > 0
    BY PromotedSound DEF Forms
  <1> HIDE DEF p
  <1>2. /\ c \in Forms /\ ~c.narrow /\ c.count <= c.top /\ c.mode = p.mode
        /\ Strict(c.mode) => c.limit > 0
    <2>1. PICK limit \in Nat, cap \in Nat : c = [p EXCEPT !.cap = cap, !.limit = limit]
      BY <1>1, CappedSound
    <2>2. p.limit > 0 => c.limit > 0
      BY <1>1, CappedSound
    <2> HIDE DEF c
    <2> QED BY <1>1, <2>1, <2>2 DEF Forms
  <1> HIDE DEF c
  <1>3. e \in Forms /\ FormSound(e)
    BY <1>2 DEF ExamLocked, Forms, FormSound, Strict
  <1> QED BY <1>3 DEF Refreshed, p, c

\* The form of a component of the state, and what it leaves.
FormsKept == form' = <<>> \/ form' = form \/ \E f \in Forms : form' = <<f>> /\ FormSound(f)
WaitsKept == waits' \subseteq Waits
HandsOver == handoff' = handoff \/ \E h \in Handoffs : handoff' = <<h>> /\ HandoffSound(h)
PretestKept == FormsKept /\ WaitsKept /\ HandsOver /\ UNCHANGED <<results, begun, asked>>

LEMMA FormOnScreen ==
  ASSUME FlowInv, NEW n \in BOOLEAN, OnForm(n)
  PROVE  /\ form[1] \in Forms /\ FormSound(form[1]) /\ form[1].narrow = n
         /\ form = <<form[1]>>
  <1>1. PICK f \in Forms : form = <<f>> /\ FormSound(f)
    BY DEF FlowInv, OnForm
  <1>2. form[1] = f
    BY <1>1
  <1> QED BY <1>1, <1>2 DEF OnForm

LEMMA WaitsType ==
  ASSUME FlowInv, NEW w, waits' \in {waits, waits \ {w}}
  PROVE  WaitsKept
  BY DEF FlowInv, WaitsKept

\* Choices on the desktop's form keep it sound.
LEMMA DeskForm ==
  ASSUME FlowInv, ChooseMode \/ ChooseCount \/ ChooseSource \/ ChooseTime \/ Toggle
  PROVE  FormsKept
  <1> DEFINE f == form[1]
  <1>1. /\ f \in Forms /\ FormSound(f) /\ ~f.narrow
    BY FormOnScreen DEF ChooseMode, ChooseCount, ChooseSource, ChooseTime, Toggle
  <1>2. /\ f.mode \in Modes /\ f.count \in 1..Total /\ f.top \in 1..Total /\ f.limit \in Nat
        /\ f.count <= f.top /\ f.pools \in Pools /\ f.cap \in Nat
        /\ f.random \in BOOLEAN /\ f.reveal \in BOOLEAN /\ f.shuffle \in BOOLEAN
        /\ Total \in Nat
    BY <1>1, FiniteQuestions DEF Forms, FormSound
  <1>3. CASE ChooseMode
    <2>1. PICK m \in {"training", "timed", "exam"} : form' = <<Refreshed([f EXCEPT !.mode = m])>>
      BY <1>3 DEF ChooseMode
    <2> DEFINE g == [f EXCEPT !.mode = m]
    <2> HIDE DEF f
    <2>2. g \in Forms /\ ~g.narrow /\ g.count <= g.top
      BY <1>1, <1>2 DEF Forms, Modes
    <2> HIDE DEF g
    <2>3. Refreshed(g) \in Forms /\ FormSound(Refreshed(g))
      BY <2>2, RefreshedSound
    <2> QED BY <2>1, <2>3 DEF FormsKept, g
  <1>4. CASE ChooseCount
    <2>1. PICK n \in 1..f.top : form' = <<[f EXCEPT !.count = n]>>
      BY <1>4 DEF ChooseCount
    <2> DEFINE g == [f EXCEPT !.count = n]
    <2> HIDE DEF f
    <2>2. g \in Forms /\ FormSound(g)
      BY <1>1, <1>2 DEF Forms, FormSound
    <2> HIDE DEF g
    <2> QED BY <2>1, <2>2 DEF FormsKept, g
  <1>5. CASE ChooseSource
    <2>1. PICK source \in {"all", "weak", "flagged", "untaken"} :
            LET top == SourceSize(f, source) IN
            /\ top > 0
            /\ form' = <<[f EXCEPT !.source = source, !.top = top, !.count = CountWithin(@, top)]>>
      BY <1>5 DEF ChooseSource
    <2> DEFINE top == SourceSize(f, source)
               count == CountWithin(f.count, top)
               g == [f EXCEPT !.source = source, !.top = top, !.count = count]
    <2>2. top \in 1..Total
      <3>1. \A p \in {"weak", "flagged", "untaken"} : f.pools[p] \in SUBSET Questions
        BY <1>2, Sizes
      <3>2. top \in 0..Total
        BY <3>1, FiniteQuestions DEF SourceSize
      <3> QED BY <1>2, <2>1, <3>2
    <2>3. form' = <<g>>
      BY <1>1, <2>1 DEF Forms
    <2> HIDE DEF top, f
    <2>4. count \in 1..Total /\ count <= top
      BY <1>2, <2>2 DEF CountWithin, Smaller
    <2> HIDE DEF count
    <2>5. g \in Forms /\ FormSound(g)
      BY <1>1, <1>2, <2>2, <2>4 DEF Forms, FormSound, Sources
    <2> HIDE DEF g
    <2> QED BY <2>3, <2>5 DEF FormsKept
  <1>6. CASE ChooseTime
    <2>1. PICK v \in Presets \cup (Customs \cap (1..f.cap)) :
            (v = 0 => ~Strict(f.mode)) /\ form' = <<[f EXCEPT !.limit = v]>>
      BY <1>6 DEF ChooseTime
    <2> DEFINE g == [f EXCEPT !.limit = v]
    <2> HIDE DEF f
    <2>2. v \in Nat
      BY <2>1, <1>2, PretestAssumption
    <2>3. g \in Forms /\ FormSound(g)
      BY <1>1, <1>2, <2>1, <2>2 DEF Forms, FormSound
    <2> HIDE DEF g
    <2> QED BY <2>1, <2>3 DEF FormsKept, g
  <1>7. CASE Toggle
    <2> DEFINE g == [f EXCEPT !.random = ~f.random]
               h == [f EXCEPT !.reveal = ~f.reveal]
               k == [f EXCEPT !.shuffle = ~f.shuffle]
    <2>1. (f.mode # "exam" /\ form' = <<g>>) \/ (f.mode # "exam" /\ form' = <<h>>) \/ form' = <<k>>
      BY <1>1, <1>7 DEF Toggle, Forms
    <2> HIDE DEF f
    <2>2. f.mode # "exam" => g \in Forms /\ FormSound(g)
      BY <1>1, <1>2 DEF Forms, FormSound
    <2>3. k \in Forms /\ FormSound(k)
      BY <1>1, <1>2 DEF Forms, FormSound
    <2>4. f.mode # "exam" => h \in Forms /\ FormSound(h)
      BY <1>1, <1>2 DEF Forms, FormSound
    <2> HIDE DEF g, h, k
    <2> QED BY <2>1, <2>2, <2>3, <2>4 DEF FormsKept
  <1> QED BY <1>3, <1>4, <1>5, <1>6, <1>7

\* The phone's form is held to its mode only when it is started: Pinned does it.
LEMMA PinnedSound ==
  ASSUME NEW f \in Forms, f.narrow
  PROVE  /\ Pinned(f) \in Forms /\ Pinned(f).narrow
         /\ Pinned(f).mode = f.mode /\ Pinned(f).source = f.source
         /\ Pinned(f).mode = "exam" => ~Pinned(f).reveal /\ Pinned(f).random
         /\ Strict(Pinned(f).mode) => Pinned(f).limit > 0
  <1> DEFINE g == IF Strict(f.mode) /\ f.limit = 0 THEN [f EXCEPT !.limit = 20] ELSE f
  <1>1. /\ g \in Forms /\ g.narrow /\ g.mode = f.mode /\ g.source = f.source
        /\ Strict(g.mode) => g.limit > 0
    BY DEF Forms
  <1>2. Pinned(f) = IF f.mode = "exam" THEN [g EXCEPT !.random = TRUE, !.reveal = FALSE] ELSE g
    BY DEF Pinned
  <1> HIDE DEF g
  <1> QED BY <1>1, <1>2 DEF Forms

LEMMA NarrowSound == \A f : f \in Forms /\ f.narrow => FormSound(f)
  BY DEF FormSound

LEMMA PhoneForm ==
  ASSUME FlowInv,
         \/ PhoneChooseMode \/ PhoneChooseCount \/ PhoneChooseSource \/ PhoneChooseTime
         \/ PhoneToggle
  PROVE  FormsKept
  <1> DEFINE f == form[1]
  <1>1. f \in Forms /\ f.narrow
    BY FormOnScreen DEF PhoneChooseMode, PhoneChooseCount, PhoneChooseSource, PhoneChooseTime,
       PhoneToggle
  <1>2. f.random \in BOOLEAN /\ f.reveal \in BOOLEAN /\ f.shuffle \in BOOLEAN
    BY <1>1 DEF Forms
  <1>3. CASE PhoneChooseMode
    <2>1. PICK m \in {"training", "timed", "exam"} : form' = <<Pinned([f EXCEPT !.mode = m])>>
      BY <1>3 DEF PhoneChooseMode
    <2> DEFINE g == [f EXCEPT !.mode = m]
    <2> HIDE DEF f
    <2>2. g \in Forms /\ g.narrow
      BY <1>1 DEF Forms, Modes
    <2> HIDE DEF g
    <2>3. Pinned(g) \in Forms /\ Pinned(g).narrow
      BY <2>2, PinnedSound
    <2> QED BY <2>1, <2>3, NarrowSound DEF FormsKept, g
  <1>4. ASSUME NEW g \in Forms, g.narrow, form' = <<g>> PROVE FormsKept
    BY <1>4, NarrowSound DEF FormsKept
  <1>5. CASE PhoneChooseCount
    <2>1. PICK n \in 1..Total : form' = <<[f EXCEPT !.count = n]>>
      BY <1>5 DEF PhoneChooseCount
    <2> HIDE DEF f
    <2>2. [f EXCEPT !.count = n] \in Forms /\ [f EXCEPT !.count = n].narrow
      BY <1>1 DEF Forms
    <2> QED BY <1>4, <2>1, <2>2
  <1>6. CASE PhoneChooseSource
    <2>1. PICK source \in {"all", "weak", "new", "flag"} :
            form' = <<[f EXCEPT !.source = source, !.random = @ /\ source # "weak"]>>
      BY <1>6 DEF PhoneChooseSource
    <2> DEFINE random == f.random /\ source # "weak"
               g == [f EXCEPT !.source = source, !.random = random]
    <2>2. form' = <<g>> /\ random \in BOOLEAN
      BY <1>1, <1>2, <2>1 DEF Forms
    <2> HIDE DEF f, random
    <2>3. g \in Forms /\ g.narrow
      BY <1>1, <2>2 DEF Forms, Sources
    <2> HIDE DEF g
    <2> QED BY <1>4, <2>2, <2>3
  <1>7. CASE PhoneChooseTime
    <2>1. PICK v \in (IF f.mode = "training" THEN Presets ELSE Presets \ {0})
                       \cup {Larger(1, Smaller(PhoneCap(f.mode), c)) : c \in Customs}
                       \cup {IF f.mode = "training" THEN 0 ELSE 5} :
            form' = <<[f EXCEPT !.limit = v]>>
      BY <1>7 DEF PhoneChooseTime
    <2>2. PhoneCap(f.mode) \in Nat
      <3>1. CASE f.mode = "exam"
        BY <3>1 DEF PhoneCap
      <3>2. CASE f.mode = "timed"
        BY <3>2 DEF PhoneCap
      <3>3. CASE f.mode \notin {"exam", "timed"}
        BY <3>3 DEF PhoneCap
      <3> QED BY <3>1, <3>2, <3>3
    <2>3. v \in Nat
      <3>1. \A c \in Customs : Larger(1, Smaller(PhoneCap(f.mode), c)) \in Nat
        BY <2>2, PretestAssumption DEF Larger, Smaller
      <3> QED BY <2>1, <3>1, PretestAssumption
    <2> HIDE DEF f
    <2>4. [f EXCEPT !.limit = v] \in Forms /\ [f EXCEPT !.limit = v].narrow
      BY <1>1, <2>3 DEF Forms
    <2> QED BY <1>4, <2>1, <2>4
  <1>8. CASE PhoneToggle
    <2> DEFINE g == [f EXCEPT !.random = ~f.random]
               h == [f EXCEPT !.reveal = ~f.reveal]
               k == [f EXCEPT !.shuffle = ~f.shuffle]
    <2>1. form' = <<g>> \/ form' = <<h>> \/ form' = <<k>>
      BY <1>1, <1>8 DEF PhoneToggle, Forms
    <2> HIDE DEF f
    <2>2. g \in Forms /\ g.narrow /\ h \in Forms /\ h.narrow /\ k \in Forms /\ k.narrow
      BY <1>1, <1>2 DEF Forms
    <2> HIDE DEF g, h, k
    <2> QED BY <1>4, <2>1, <2>2
  <1> QED BY <1>3, <1>5, <1>6, <1>7, <1>8

\* A form that is new, or filled from what is stored, is sound.
LEMMA NewFormSound ==
  ASSUME NEW pools \in Pools
  PROVE  NewForm(pools) \in Forms /\ FormSound(NewForm(pools))
  <1> DEFINE f == [narrow |-> FALSE, mode |-> "training", source |-> "all",
                   count |-> Smaller(20, Total), top |-> Total, random |-> TRUE, shuffle |-> FALSE,
                   reveal |-> FALSE, limit |-> 0, cap |-> 600, pools |-> pools]
  <1>1. Smaller(20, Total) \in 1..Total /\ Total \in 1..Total /\ Smaller(20, Total) <= Total
    BY Sizes, FiniteQuestions
  <1>2. f \in Forms /\ ~f.narrow /\ f.count <= f.top
    BY <1>1 DEF Forms, Modes, Sources
  <1> HIDE DEF f
  <1>3. Refreshed(f) \in Forms /\ FormSound(Refreshed(f))
    BY <1>2, RefreshedSound
  <1> QED BY <1>3 DEF NewForm, f

LEMMA RestoredSound ==
  ASSUME FlowInv, NEW pools \in Pools
  PROVE  Restored(pools) \in Forms /\ FormSound(Restored(pools))
  <1>1. ASSUME NEW mode \in Modes, NEW source \in Sources, NEW count \in Nat,
               NEW random \in BOOLEAN, NEW shuffle \in BOOLEAN, NEW reveal \in BOOLEAN,
               NEW limit \in Nat
        PROVE  [narrow |-> TRUE, mode |-> mode, source |-> source,
                count |-> Larger(1, Smaller(Total, count)), top |-> Total, random |-> random,
                shuffle |-> shuffle, reveal |-> reveal, limit |-> Smaller(600, limit),
                cap |-> 600, pools |-> pools] \in Forms
    <2>1. Larger(1, Smaller(Total, count)) \in 1..Total /\ Total \in 1..Total
      BY Sizes, FiniteQuestions
    <2>2. Smaller(600, limit) \in Nat
      BY DEF Smaller
    <2> QED BY <2>1, <2>2 DEF Forms
  <1> DEFINE h == IF handoff # <<>> THEN handoff[1]
                  ELSE [mode |-> "training", source |-> "all", count |-> Smaller(20, Total),
                        random |-> TRUE, shuffle |-> FALSE, reveal |-> FALSE, limit |-> 0]
  <1>2. /\ h.mode \in Modes /\ h.source \in Sources /\ h.count \in Nat /\ h.random \in BOOLEAN
        /\ h.shuffle \in BOOLEAN /\ h.reveal \in BOOLEAN /\ h.limit \in Nat
    <2>1. CASE handoff = <<>>
      BY <2>1, Sizes, FiniteQuestions DEF Modes, Sources
    <2>2. ASSUME NEW g \in Handoffs, handoff = <<g>>
          PROVE  /\ h.mode \in Modes /\ h.source \in Sources /\ h.count \in Nat
                 /\ h.random \in BOOLEAN /\ h.shuffle \in BOOLEAN /\ h.reveal \in BOOLEAN
                 /\ h.limit \in Nat
      <3>1. h = g
        BY <2>2
      <3> HIDE DEF h
      <3> QED BY <3>1 DEF Handoffs
    <2> QED BY <2>1, <2>2 DEF FlowInv, StorageSound
  <1>3. Restored(pools) =
          [narrow |-> TRUE, mode |-> h.mode, source |-> h.source,
           count |-> Larger(1, Smaller(Total, h.count)), top |-> Total, random |-> h.random,
           shuffle |-> h.shuffle, reveal |-> h.reveal, limit |-> Smaller(600, h.limit),
           cap |-> 600, pools |-> pools]
    BY DEF Restored
  <1> HIDE DEF h
  <1>4. Restored(pools) \in Forms
    BY <1>1, <1>2, <1>3
  <1> QED BY <1>3, <1>4, NarrowSound

\* What a sound form hands over, with the ids of its source.
LEMMA HandedSound ==
  ASSUME NEW f \in Forms, f.mode = "exam" => ~f.reveal, Strict(f.mode) => f.limit > 0,
         NEW source \in {"all", "weak", "flagged", "untaken"} \cup Sources,
         f.source = "weak" => source = "weak",
         NEW filter \in FiltersOf(f, source),
         NEW random \in BOOLEAN, f.source = "weak" => ~random,
         f.mode = "exam" => random \/ f.source = "weak"
  PROVE  HandedOver(f, filter, random) \in Handoffs /\ HandoffSound(HandedOver(f, filter, random))
  <1> DEFINE h == HandedOver(f, filter, random)
  <1>1. /\ f.mode \in Modes /\ f.source \in Sources /\ f.count \in 1..Total /\ f.count \in Nat
        /\ f.shuffle \in BOOLEAN /\ f.reveal \in BOOLEAN /\ f.limit \in Nat /\ f.pools \in Pools
    BY FiniteQuestions DEF Forms
  <1>2. \A p \in {"weak", "flagged", "untaken"} : f.pools[p] \in SUBSET Questions
    BY <1>1, Sizes
  <1>3. filter \in SUBSET Questions /\ (source = "weak" => Cardinality(filter) <= f.count)
    <2>1. CASE source = "weak"
      <3>1. /\ filter \in SUBSET f.pools["weak"]
            /\ Cardinality(filter) = Smaller(f.count, Cardinality(f.pools["weak"]))
        BY <2>1 DEF FiltersOf
      <3>2. Cardinality(f.pools["weak"]) \in Nat
        BY <1>2, FiniteQuestions
      <3> QED BY <1>1, <1>2, <3>1, <3>2 DEF Smaller
    <2>2. CASE source \in {"flagged", "untaken"}
      BY <1>2, <2>2 DEF FiltersOf
    <2>3. CASE source \notin {"weak", "flagged", "untaken"}
      BY <2>3 DEF FiltersOf
    <2> QED BY <2>1, <2>2, <2>3
  <1>4. h = [mode |-> f.mode, source |-> f.source, count |-> f.count, random |-> random,
             shuffle |-> f.shuffle, reveal |-> f.reveal, limit |-> f.limit, filter |-> filter,
             retake |-> FALSE]
    BY DEF HandedOver
  <1> HIDE DEF h
  <1>5. h \in Handoffs
    BY <1>1, <1>3, <1>4 DEF Handoffs
  <1>6. KeepsMode(h)
    BY <1>1, <1>3, <1>4 DEF KeepsMode
  <1>7. AsksMistakes(h)
    BY <1>4 DEF AsksMistakes
  <1> QED BY <1>5, <1>6, <1>7 DEF HandoffSound, h

LEMMA StartKept ==
  ASSUME FlowInv, Start
  PROVE  FormsKept /\ HandsOver
  <1> DEFINE f == form[1]
  <1>1. f \in Forms /\ FormSound(f) /\ ~f.narrow
    BY FormOnScreen DEF Start
  <1>2. PICK filter \in FiltersOf(f, f.source) :
          \/ UNCHANGED handoff
          \/ handoff' = <<HandedOver(f, filter, f.random /\ f.source # "weak")>>
    BY DEF Start
  <1> DEFINE random == f.random /\ f.source # "weak"
             source == f.source
  <1>3. /\ random \in BOOLEAN /\ (f.source = "weak" => ~random)
        /\ source \in Sources /\ (f.source = "weak" => source = "weak")
        /\ f.mode = "exam" => ~f.reveal /\ (random \/ f.source = "weak")
        /\ Strict(f.mode) => f.limit > 0
    BY <1>1 DEF Forms, FormSound
  <1>4. filter \in FiltersOf(f, source)
    OBVIOUS
  <1>5. handoff' = handoff \/ handoff' = <<HandedOver(f, filter, random)>>
    BY <1>2
  <1> HIDE DEF f, random, source
  <1>6. HandedOver(f, filter, random) \in Handoffs /\ HandoffSound(HandedOver(f, filter, random))
    BY <1>1, <1>3, <1>4, HandedSound
  <1> QED BY <1>5, <1>6 DEF FormsKept, HandsOver, Start

LEMMA PhoneStartKept ==
  ASSUME FlowInv, PhoneStart
  PROVE  FormsKept /\ HandsOver
  <1> DEFINE f == Pinned(form[1])
             source == IF f.source = "new" THEN "untaken"
                       ELSE IF f.source = "weak" THEN "weak" ELSE "all"
             random == f.random /\ f.source # "weak"
             g == [f EXCEPT !.random = random]
  <1>1. form[1] \in Forms /\ form[1].narrow
    BY FormOnScreen DEF PhoneStart
  <1>2. /\ f \in Forms /\ f.narrow
        /\ f.mode = "exam" => ~f.reveal /\ f.random
        /\ Strict(f.mode) => f.limit > 0
    BY <1>1, PinnedSound
  <1>3. PICK filter \in FiltersOf(f, source) :
          \/ form' = <<f>> /\ UNCHANGED handoff
          \/ form' = <<g>> /\ handoff' = <<HandedOver(g, filter, g.random)>>
    <2> HIDE DEF source
    <2>1. \A x : [f EXCEPT !.random = @ /\ x] = [f EXCEPT !.random = f.random /\ x]
      BY <1>2 DEF Forms
    <2> QED BY <2>1 DEF PhoneStart, source
  <1>4. /\ source \in {"all", "weak", "flagged", "untaken"} /\ (f.source = "weak" => source = "weak")
        /\ random \in BOOLEAN /\ (f.source = "weak" => ~random)
        /\ f.mode = "exam" => random \/ f.source = "weak"
    BY <1>2 DEF Forms
  <1> HIDE DEF f, source, random
  <1>5. /\ g \in Forms /\ g.narrow /\ g.random = random /\ g.source = f.source
        /\ g.mode = f.mode /\ g.reveal = f.reveal /\ g.limit = f.limit
        /\ g.count = f.count /\ g.pools = f.pools
    BY <1>2, <1>4 DEF Forms
  <1> HIDE DEF g
  <1>6. filter \in FiltersOf(g, source)
    BY <1>5, Zenon DEF FiltersOf
  <1>7. HandedOver(g, filter, random) \in Handoffs /\ HandoffSound(HandedOver(g, filter, random))
    BY <1>2, <1>4, <1>5, <1>6, HandedSound
  <1>8. FormSound(f) /\ FormSound(g)
    BY <1>2, <1>5, NarrowSound
  <1> QED BY <1>2, <1>3, <1>5, <1>7, <1>8 DEF FormsKept, HandsOver

LEMMA PretestKeeps ==
  ASSUME FlowInv, PretestStep
  PROVE  PretestKept
  <1> USE DEF PretestKept
  <1>1. CASE TestArrives
    <2>1. PICK w \in waits, pools \in Pools :
            /\ waits' = waits \ {w} /\ UNCHANGED paperVars
            /\ form' = <<NewForm(pools)>> \/ form' = form
      BY <1>1 DEF TestArrives
    <2> QED BY <2>1, NewFormSound, WaitsType DEF FormsKept, HandsOver, paperVars
  <1>2. CASE PhoneTestArrives
    <2>1. PICK w \in waits, pools \in Pools :
            /\ waits' = waits \ {w} /\ UNCHANGED paperVars
            /\ form' = <<Restored(pools)>> \/ form' = form
      BY <1>2 DEF PhoneTestArrives
    <2> QED BY <2>1, RestoredSound, WaitsType DEF FormsKept, HandsOver, paperVars
  <1>3. CASE TestRefused \/ PhoneTestMissing
    <2>1. PICK w \in waits : waits' = waits \ {w} /\ UNCHANGED <<form, paperVars>>
      BY <1>3 DEF TestRefused, PhoneTestMissing
    <2> QED BY <2>1, WaitsType DEF FormsKept, HandsOver, paperVars
  <1>4. CASE ChooseMode \/ ChooseCount \/ ChooseSource \/ ChooseTime \/ Toggle
    <2>1. UNCHANGED <<waits, paperVars>>
      BY <1>4 DEF ChooseMode, ChooseCount, ChooseSource, ChooseTime, Toggle, Chosen
    <2> QED BY <1>4, <2>1, DeskForm, WaitsType DEF HandsOver, paperVars
  <1>5. CASE \/ PhoneChooseMode \/ PhoneChooseCount \/ PhoneChooseSource \/ PhoneChooseTime
             \/ PhoneToggle
    <2>1. UNCHANGED <<waits, paperVars>>
      BY <1>5 DEF PhoneChooseMode, PhoneChooseCount, PhoneChooseSource, PhoneChooseTime,
         PhoneToggle, Chosen
    <2> QED BY <1>5, <2>1, PhoneForm, WaitsType DEF HandsOver, paperVars
  <1>6. CASE Start
    <2>1. UNCHANGED <<waits, results, begun, asked>>
      BY <1>6 DEF Start
    <2> QED BY <1>6, <2>1, StartKept, WaitsType
  <1>7. CASE PhoneStart
    <2>1. UNCHANGED <<waits, results, begun, asked>>
      BY <1>7 DEF PhoneStart
    <2> QED BY <1>7, <2>1, PhoneStartKept, WaitsType
  <1>8. CASE Cancel
    BY <1>8, WaitsType DEF Cancel, FormsKept, HandsOver, paperVars
  <1> QED BY <1>1, <1>2, <1>3, <1>4, <1>5, <1>6, <1>7, <1>8 DEF PretestStep

-----------------------------------------------------------------------------
(* The results                                                               *)

ResultKept ==
  /\ wrong' \in SUBSET Questions
  /\ fetches' \subseteq Fetches
  /\ HandsOver
  /\ UNCHANGED <<results, begun, asked>>

\* What the desktop hands over of its mistakes, and the phone.
LEMMA RetakeSound ==
  ASSUME FlowInv, wrong # {}, NEW mode \in {"training", "mistake_review"},
         NEW source \in {"mistakes", "mistake_review"}, NEW retake \in BOOLEAN,
         NEW filter \in {{}, wrong}, retake => filter = wrong,
         NEW h, h = [mode |-> mode, source |-> source, count |-> Cardinality(wrong),
                     random |-> FALSE, shuffle |-> FALSE, reveal |-> TRUE, limit |-> 0,
                     filter |-> filter, retake |-> retake]
  PROVE  h \in Handoffs /\ HandoffSound(h)
  <1>1. wrong \in SUBSET Questions /\ Cardinality(wrong) \in 1..Total /\ Cardinality(wrong) \in Nat
    BY FiniteQuestions DEF FlowInv
  <1>2. h \in Handoffs
    BY <1>1 DEF Handoffs, Modes, Sources
  <1>3. KeepsMode(h)
    BY <1>1 DEF KeepsMode, Strict
  <1>4. AsksMistakes(h)
    BY <1>1 DEF AsksMistakes
  <1> QED BY <1>2, <1>3, <1>4 DEF HandoffSound

LEMMA ResultKeeps ==
  ASSUME FlowInv, ResultStep
  PROVE  ResultKept
  <1>0. wrong \in SUBSET Questions /\ fetches \subseteq Fetches
    BY DEF FlowInv
  <1>1. CASE ResultArrives
    BY <1>0, <1>1 DEF ResultArrives, ResultKept, HandsOver, paperVars
  <1>2. CASE QuestionArrives \/ PhoneQuestionArrives
    BY <1>0, <1>2 DEF QuestionArrives, PhoneQuestionArrives, ResultKept, HandsOver, paperVars
  <1>3. CASE LeaveResults \/ StepQuestion \/ PhoneStepQuestion \/ LeaveQuestion
    BY <1>0, <1>3 DEF LeaveResults, StepQuestion, PhoneStepQuestion, LeaveQuestion, Moves,
       ResultKept, HandsOver, paperVars, resultVars
  <1>4. CASE FlagClicked \/ FlagAnswered
    BY <1>0, <1>4 DEF FlagClicked, FlagAnswered, ResultKept, HandsOver, paperVars
  <1>5. CASE RetakeMistakes
    <2>1. /\ wrong # {} /\ UNCHANGED <<resultVars, results, begun, asked>>
          /\ handoff' = <<[mode |-> "mistake_review", source |-> "mistake_review",
                           count |-> Cardinality(wrong), random |-> FALSE, shuffle |-> FALSE,
                           reveal |-> TRUE, limit |-> 0, filter |-> wrong, retake |-> TRUE]>>
      BY <1>5 DEF RetakeMistakes, MistakeFilter
    <2>2. HandsOver
      BY <2>1, RetakeSound DEF HandsOver
    <2> QED BY <1>0, <2>1, <2>2 DEF ResultKept, resultVars
  <1>6. CASE PhoneRetakeMistakes
    <2>1. /\ wrong # {} /\ UNCHANGED <<resultVars, results, begun, asked>>
          /\ handoff' = <<[mode |-> "training", source |-> "mistakes",
                           count |-> Cardinality(wrong), random |-> FALSE, shuffle |-> FALSE,
                           reveal |-> TRUE, limit |-> 0, filter |-> {}, retake |-> FALSE]>>
      BY <1>6 DEF PhoneRetakeMistakes
    <2>2. HandsOver
      BY <2>1, RetakeSound DEF HandsOver
    <2> QED BY <1>0, <2>1, <2>2 DEF ResultKept, resultVars
  <1> QED BY <1>1, <1>2, <1>3, <1>4, <1>5, <1>6 DEF ResultStep

-----------------------------------------------------------------------------
(* The whole                                                                 *)

DeskOpened == \E review \in {0} \cup DOMAIN results : Desktop!Render(review)

\* Which screen a mount renders, and what else it resets.
LEMMA OpensOne ==
  ASSUME NEW p, NEW narrow \in BOOLEAN, Opens(p, narrow)
  PROVE  /\ \/ DeskOpened /\ UNCHANGED phone
            \/ Phone!PhoneRender /\ UNCHANGED desk
            \/ UNCHANGED <<desk, phone>>
         /\ PretestRender(narrow) \/ (form' = <<>> /\ UNCHANGED waits)
         /\ ResultsRender(narrow) \/ QuestionRender(narrow) \/ UNCHANGED resultVars
  <1>1. \/ DeskOpened /\ UNCHANGED phone
        \/ Phone!PhoneRender /\ UNCHANGED desk
        \/ UNCHANGED <<desk, phone>>
    <2>1. CASE p = "take" /\ ~narrow
      BY <2>1, Zenon DEF Opens, DeskOpened
    <2>2. CASE p = "take" /\ narrow
      BY <2>2, Zenon DEF Opens
    <2>3. CASE p # "take"
      BY <2>3, Zenon DEF Opens
    <2> QED BY <2>1, <2>2, <2>3
  <1>2. PretestRender(narrow) \/ (form' = <<>> /\ UNCHANGED waits)
    BY Zenon DEF Opens
  <1>3. ResultsRender(narrow) \/ QuestionRender(narrow) \/ UNCHANGED resultVars
    <2>1. CASE p = "results"
      BY <2>1, Zenon DEF Opens
    <2>2. CASE p = "perq"
      BY <2>2, Zenon DEF Opens
    <2>3. CASE p # "results" /\ p # "perq"
      BY <2>3, Zenon DEF Opens
    <2> QED BY <2>1, <2>2, <2>3
  <1> QED BY <1>1, <1>2, <1>3

\* The parts of the invariant beside the router and the two taking screens.
SharedKept ==
  /\ begun' \in Nat /\ asked' \in Nat
  /\ KeptSound(results)'
  /\ StorageSound'
  /\ form' = <<>> \/ \E f \in Forms : form' = <<f>> /\ FormSound(f)
  /\ WaitsKept
  /\ fetches' \subseteq Fetches
  /\ wrong' \in SUBSET Questions

BothMoved == DeskMoved /\ PhoneMoved

\* What one screen does leaves the other one where it was.
LEMMA Beside ==
  ASSUME NEW r, NEW r2, NEW n \in Nat, NEW n2, NEW k, NEW k2, Moved(r, r2, n, n2, k, k2),
         NEW o \in ScreenStates
  PROVE  Moved(o, o, n, n2, k, k2) /\ n2 \in Nat
  <1>1. n2 \in {n, n + 1} /\ DOMAIN k \subseteq DOMAIN k2
    <2>1. CASE Returned(r, r2, k, k2) /\ n2 = n
      BY <2>1 DEF Returned
    <2>2. CASE ~Returned(r, r2, k, k2)
      BY <2>2 DEF Moved
    <2> QED BY <2>1, <2>2 DEF Moved
  <1> QED BY <1>1 DEF Moved

LEMMA Idle ==
  ASSUME NEW r \in ScreenStates, NEW n, NEW k
  PROVE  Moved(r, r, n, n, k, k)
  BY DEF Moved

LEMMA MountKeeps ==
  ASSUME FlowInv, Mount
  PROVE  BothMoved /\ SharedKept
  <1>1. PICK i \in imports :
          /\ IF Mounts(i) THEN Opens(ScreenOf(i), i.narrow)
             ELSE UNCHANGED <<pretestVars, resultVars, desk, phone, drawer>>
          /\ UNCHANGED paperVars
    BY DEF Mount
  <1>2. i.narrow \in BOOLEAN
    BY DEF FlowInv, RouterInv, RouterTypeOK
  <1>3. /\ \/ DeskOpened /\ UNCHANGED phone
           \/ Phone!PhoneRender /\ UNCHANGED desk
           \/ UNCHANGED <<desk, phone>>
        /\ PretestRender(i.narrow) \/ (form' \in {<<>>, form} /\ UNCHANGED waits)
        /\ ResultsRender(i.narrow) \/ QuestionRender(i.narrow) \/ UNCHANGED resultVars
    <2>1. CASE Mounts(i)
      BY <1>1, <1>2, <2>1, OpensOne
    <2>2. CASE ~Mounts(i)
      BY <1>1, <2>2 DEF pretestVars
    <2> QED BY <2>1, <2>2
  <1>4. UNCHANGED <<handoff, results, begun, asked>>
    BY <1>1 DEF paperVars
  <1>5. desk \in ScreenStates /\ phone \in ScreenStates
    BY DEF FlowInv, ScreenInv
  <1>6. DeskMoved
    BY <1>3, <1>4, <1>5, DeskOpens, Idle DEF DeskMoved, DeskOpened, Moved, FlowInv
  <1>7. PhoneMoved
    BY <1>3, <1>4, <1>5, PhoneOpens, Idle DEF PhoneMoved, Moved, FlowInv
  <1>8. WaitsKept
    <2>1. CASE PretestRender(i.narrow)
      <3>1. \A w \in Waits : [w EXCEPT !.fresh = FALSE] \in Waits
        BY DEF Waits
      <3>2. [narrow |-> i.narrow, fresh |-> TRUE] \in Waits
        BY <1>2 DEF Waits
      <3>3. waits \subseteq Waits
        BY DEF FlowInv
      <3> DEFINE older == {[w EXCEPT !.fresh = FALSE] : w \in {v \in waits : v.narrow = i.narrow}}
                 others == {v \in waits : v.narrow # i.narrow}
      <3>4. older \subseteq Waits /\ others \subseteq Waits
        BY <3>1, <3>3
      <3>5. waits' = older \cup others \cup {[narrow |-> i.narrow, fresh |-> TRUE]}
        BY <2>1 DEF PretestRender
      <3> HIDE DEF older, others
      <3> QED BY <3>2, <3>4, <3>5 DEF WaitsKept
    <2>2. CASE UNCHANGED waits
      BY <2>2 DEF FlowInv, WaitsKept
    <2> QED BY <1>3, <2>1, <2>2
  <1>9. /\ wrong' \in SUBSET Questions
        /\ fetches' \subseteq Fetches
    <2>1. \A p : Overtaken(p, i.narrow) \subseteq Fetches
      BY <1>2 DEF FlowInv, Overtaken, Fetches
    <2>2. CASE ResultsRender(i.narrow)
      <3>1. asked \in DOMAIN results => Mistakes(asked) \in SUBSET Questions
        BY DEF FlowInv, KeptSound, Mistakes, AnswerSheets
      <3>2. [page |-> "results", narrow |-> i.narrow, fresh |-> TRUE] \in Fetches
        BY <1>2 DEF Fetches
      <3>3. /\ wrong' \in {{}, Mistakes(asked)} /\ (asked \notin DOMAIN results => wrong' = {})
            /\ fetches' \subseteq Overtaken("results", i.narrow)
                                  \cup {[page |-> "results", narrow |-> i.narrow, fresh |-> TRUE]}
        BY <2>2, Zenon DEF ResultsRender
      <3>4. Overtaken("results", i.narrow) \subseteq Fetches
        BY <2>1
      <3>5. fetches' \subseteq Fetches
        BY <3>2, <3>3, <3>4, Zenon
      <3> QED BY <3>1, <3>3, <3>5
    <2>3. CASE QuestionRender(i.narrow)
      <3>1. [page |-> "perq", narrow |-> i.narrow, fresh |-> TRUE] \in Fetches
        BY <1>2 DEF Fetches
      <3>2. fetches' = Overtaken("perq", i.narrow)
                         \cup {[page |-> "perq", narrow |-> i.narrow, fresh |-> TRUE]}
        BY <2>3 DEF QuestionRender
      <3>3. fetches' \subseteq Fetches
        BY <2>1, <3>1, <3>2, Zenon
      <3> QED BY <2>3, <3>3 DEF QuestionRender, FlowInv
    <2>4. CASE UNCHANGED resultVars
      BY <2>4 DEF resultVars, FlowInv
    <2> QED BY <1>3, <2>2, <2>3, <2>4
  <1>10. form' = <<>> \/ \E f \in Forms : form' = <<f>> /\ FormSound(f)
    BY <1>3 DEF PretestRender, FlowInv
  <1> QED BY <1>4, <1>6, <1>7, <1>8, <1>9, <1>10
          DEF BothMoved, SharedKept, FlowInv, StorageSound, KeptSound

LEMMA RouteKeeps ==
  ASSUME FlowInv, Route
  PROVE  BothMoved /\ SharedKept
  <1>1. /\ UNCHANGED <<handoff, results, begun, asked, waits, fetches, wrong, desk, phone>>
        /\ form' \in {form, <<>>}
    BY DEF Route, paperVars
  <1>2. desk \in ScreenStates /\ phone \in ScreenStates
    BY DEF FlowInv, ScreenInv
  <1> QED BY <1>1, <1>2, Idle
          DEF BothMoved, DeskMoved, PhoneMoved, SharedKept, WaitsKept, FlowInv, StorageSound, KeptSound

LEMMA StepKeeps ==
  ASSUME FlowInv, FlowNext
  PROVE  BothMoved /\ SharedKept
  <1>1. /\ desk \in ScreenStates /\ phone \in ScreenStates /\ begun \in Nat /\ KeptSound(results)
        /\ StorageSound
    BY DEF FlowInv, ScreenInv
  <1>2. CASE Mount
    BY <1>2, MountKeeps
  <1>3. CASE Route
    BY <1>3, RouteKeeps
  <1>4. CASE PretestStep /\ UNCHANGED <<resultVars, desk, phone>>
    <2>1. PretestKept
      BY <1>4, PretestKeeps
    <2> QED BY <1>1, <1>4, <2>1, Idle
            DEF PretestKept, FormsKept, HandsOver, BothMoved, DeskMoved, PhoneMoved, SharedKept,
                FlowInv, StorageSound, KeptSound, resultVars
  <1>5. CASE ResultStep /\ UNCHANGED <<pretestVars, desk, phone>>
    <2>1. ResultKept
      BY <1>5, ResultKeeps
    <2> QED BY <1>1, <1>5, <2>1, Idle
            DEF ResultKept, HandsOver, BothMoved, DeskMoved, PhoneMoved, SharedKept, WaitsKept,
                FlowInv, StorageSound, KeptSound, pretestVars
  <1>6. ASSUME Storage, UNCHANGED <<pretestVars, resultVars>>, begun' \in Nat
        PROVE  SharedKept
    BY <1>1, <1>6 DEF Storage, SharedKept, WaitsKept, FlowInv, StorageSound, pretestVars, resultVars
  <1>7. CASE Desktop!TakingStep /\ UNCHANGED <<pretestVars, resultVars, phone>>
    <2>1. DeskMoved /\ Storage
      BY <1>7, DeskMoves
    <2>2. PhoneMoved /\ begun' \in Nat
      BY <1>1, <1>7, <2>1, Beside, PhoneStamped DEF DeskMoved, PhoneMoved
    <2> QED BY <1>6, <1>7, <2>1, <2>2 DEF BothMoved
  <1>8. CASE Phone!PhoneStep /\ UNCHANGED <<pretestVars, resultVars, desk>>
    <2>1. PhoneMoved /\ Storage
      BY <1>8, PhoneMoves
    <2>2. DeskMoved /\ begun' \in Nat
      BY <1>1, <1>8, <2>1, Beside, DeskPainted DEF DeskMoved, PhoneMoved
    <2> QED BY <1>6, <1>8, <2>1, <2>2 DEF BothMoved
  <1> QED BY <1>2, <1>3, <1>4, <1>5, <1>7, <1>8 DEF FlowNext

\* What a step of the whole does is a step of the router.
LEMMA FlowRouted ==
  ASSUME FlowInv, FlowNext
  PROVE  [RouterNext]_routerVars
  <1>1. CASE Mount
    BY <1>1 DEF Mount, RouterNext
  <1>2. CASE Route
    <2>1. CASE HashChange \/ BreakpointChange \/ LocaleChange \/ \E i \in imports : ModuleFailed(i)
      BY <2>1 DEF RouterNext
    <2>2. CASE \E p \in Reach : Follow(p)
      <3>1. PICK p \in Links : Navigate(p) /\ UNCHANGED placeVars
        BY <2>2 DEF Follow
      <3> QED BY <3>1, LinksAssumption, Navigates, PlacedStep
    <2> QED BY <1>2, <2>1, <2>2 DEF Route
  <1>3. CASE PretestStep
    BY <1>3, PretestPlaced, PlacedStep
  <1>4. CASE ResultStep
    BY <1>4, ResultPlaced, PlacedStep DEF FlowInv, Fetches
  <1>5. CASE Desktop!TakingStep
    BY <1>5, DesktopPlaced, PlacedStep
  <1>6. CASE Phone!PhoneStep
    BY <1>6, PhonePlaced, PlacedStep
  <1> QED BY <1>1, <1>2, <1>3, <1>4, <1>5, <1>6 DEF FlowNext

LEMMA FlowNextInv == FlowInv /\ [FlowNext]_flowVars => FlowInv'
  <1> SUFFICES ASSUME FlowInv, [FlowNext]_flowVars PROVE FlowInv'
    OBVIOUS
  <1>1. CASE FlowNext
    <2>1. RouterInv'
      BY <1>1, FlowRouted, NextInv DEF FlowInv
    <2>2. BothMoved /\ SharedKept
      BY <1>1, StepKeeps
    <2>3. ScreenInv(desk', begun', results') /\ ScreenInv(phone', begun', results')
      BY <2>2, MoveKeeps DEF FlowInv, BothMoved, DeskMoved, PhoneMoved
    <2> QED BY <2>1, <2>2, <2>3
            DEF FlowInv, SharedKept, WaitsKept, BothMoved, DeskMoved, PhoneMoved
  <1>2. CASE UNCHANGED flowVars
    <2>1. UNCHANGED <<routerVars, paperVars, pretestVars, resultVars, desk, phone>>
      BY <1>2 DEF flowVars
    <2>2. RouterInv'
      BY <2>1, NextInv DEF FlowInv
    <2> QED BY <2>1, <2>2 DEF FlowInv, paperVars, pretestVars, resultVars, KeptSound, StorageSound
  <1> QED BY <1>1, <1>2

LEMMA NewScreen ==
  /\ Desktop!TakingInit /\ begun = 0 => ScreenInv(desk, begun, results) /\ Painted(desk)
  /\ Phone!TakingInit /\ begun = 0 => ScreenInv(phone, begun, results) /\ Stamped(phone)
  <1> DEFINE new == [phase |-> "none",
                     set |-> [mode |-> "training", show |-> TRUE, shuffle |-> FALSE],
                     paper |-> <<>>, order |-> NoLayouts, idx |-> 0, answers |-> NoAnswers,
                     attempt |-> 0, left |-> MaxTime + 1, clock |-> FALSE, leaked |-> 0,
                     advance |-> FALSE, loads |-> {}, saving |-> {}, torn |-> FALSE]
  <1>1. /\ Desktop!TakingInit => desk = new
        /\ Phone!TakingInit => phone = new
    BY SameTerms DEF Desktop!TakingInit, Phone!TakingInit, Desktop!NoTime, Phone!NoTime
  <1>2. /\ MaxTime + 1 \in Nat /\ <<>> \in Seq(Questions) /\ NoLayouts \in LayoutMaps
    BY OrdersKnown, PaperAssumption, EmptySeq
  <1>3. new \in ScreenStates
    BY <1>2, NoSheet DEF ScreenStates, ScreenSettings, Modes
  <1>4. \A n, k : ScreenInv(new, n, k) /\ Painted(new) /\ Stamped(new)
    BY <1>3 DEF ScreenInv, Graded, Unhurried, OnPaper, Numbered, Settled, Painted, Stamped
  <1> HIDE DEF new
  <1> QED BY <1>1, <1>4

LEMMA FlowInitInv == FlowInit => FlowInv
  <1> SUFFICES ASSUME FlowInit PROVE FlowInv
    OBVIOUS
  <1>1. RouterInv
    BY InitInv DEF FlowInit
  <1>2. /\ handoff = tour.handed /\ tour \in Tours /\ begun = 0 /\ asked = 0
        /\ results = [a \in {} |-> 0]
    BY DEF FlowInit, PaperInit
  <1>3. StorageSound
    <2> DEFINE t == tour.handed
    <2>1. /\ t \in Seq(Handoffs) /\ Len(t) <= 1
          /\ \A h \in Range(t) : KeepsMode(h) /\ AsksMistakes(h)
      BY <1>2, ToursAssumption
    <2>2. handoff = t
      BY <1>2
    <2> HIDE DEF t
    <2>3. CASE Len(t) = 0
      <3>1. t = <<>>
        BY <2>1, <2>3
      <3> QED BY <2>2, <3>1 DEF StorageSound
    <2>4. CASE Len(t) = 1
      <3>1. t[1] \in Handoffs /\ t = <<t[1]>> /\ t[1] \in Range(t)
        BY <2>1, <2>4 DEF Range
      <3> QED BY <2>1, <2>2, <3>1 DEF StorageSound, HandoffSound
    <2>5. Len(t) = 0 \/ Len(t) = 1
      <3> DEFINE n == Len(t)
      <3>1. n \in Nat /\ n <= 1
        BY <2>1
      <3> HIDE DEF n
      <3>2. n = 0 \/ n = 1
        BY <3>1
      <3> QED BY <3>2 DEF n
    <2> QED BY <2>3, <2>4, <2>5
  <1>4. /\ ScreenInv(desk, begun, results) /\ Painted(desk)
        /\ ScreenInv(phone, begun, results) /\ Stamped(phone)
    BY <1>2, NewScreen DEF FlowInit
  <1>5. KeptSound(results)
    BY <1>2 DEF KeptSound
  <1>6. form = <<>> /\ waits = {} /\ fetches = {} /\ wrong = {}
    BY DEF FlowInit, PretestInit, ResultInit
  <1> QED BY <1>1, <1>2, <1>3, <1>4, <1>5, <1>6 DEF FlowInv

-----------------------------------------------------------------------------
(* Theorems                                                                  *)

\* A step of the whole client, whatever it mounts, loads or hands over, is a step of the router
\* or changes nothing of the user's place (hash, mounts, late paintings).
THEOREM FlowFollowsRouter == FlowSpec => RouterSpec
  <1>1. FlowInit => RouterInit
    BY DEF FlowInit
  <1>2. FlowInv /\ [FlowNext]_flowVars => [RouterNext]_routerVars
    <2>1. UNCHANGED flowVars => UNCHANGED routerVars
      BY DEF flowVars
    <2> QED BY <2>1, FlowRouted
  <1> QED BY FlowInitInv, FlowNextInv, <1>1, <1>2, PTL DEF FlowSpec, RouterSpec

\* Options lie in the order of their stamps in one way: each index has the option of that stamp.
LEMMA OneSorting ==
  ASSUME NEW f \in Layouts, NEW t \in Layouts,
         \A a, b \in Options : a < b => f[t[a]] < f[t[b]]
  PROVE  \A a \in Options : f[t[a]] = a
  <1> DEFINE bad == {a \in Options : f[t[a]] # a}
  <1>1. Options \subseteq Nat
    BY PaperAssumption DEF Options
  <1>2. /\ f \in [Options -> Options] /\ t \in [Options -> Options]
        /\ \A o \in Options : \E p \in Options : f[p] = o
        /\ \A o \in Options : \E p \in Options : t[p] = o
    BY DEF Layouts, Bijection, Injection, Surjection
  <1>3. ASSUME bad # {} PROVE FALSE
    <2>1. PICK a \in bad : \A b \in bad : ~(b < a)
      <3>1. IsWellFoundedOn(OpToRel(<, Nat), Nat)
        BY NatLessThanWellFounded
      <3>2. bad \subseteq Nat
        BY <1>1
      <3>3. PICK a \in bad : \A b \in bad : <<b, a>> \notin OpToRel(<, Nat)
        BY <1>3, <3>1, <3>2, WFMin
      <3> QED BY <3>2, <3>3 DEF OpToRel
    <2>2. \A b \in Options : b < a => f[t[b]] = b
      BY <2>1
    <2>3. a \in Options /\ f[t[a]] # a /\ f[t[a]] \in Options
      BY <1>2, <2>1
    <2>4. ~(f[t[a]] < a)
      <3> DEFINE c == f[t[a]]
      <3>1. c \in Nat /\ c \in Options /\ f[t[a]] = c
        BY <1>1, <2>3
      <3> HIDE DEF c
      <3>2. ASSUME c < a PROVE FALSE
        <4>1. f[t[c]] = c /\ f[t[c]] < c
          BY <2>2, <2>3, <3>1, <3>2
        <4> QED BY <3>1, <4>1
      <3> QED BY <3>1, <3>2
    <2>5. PICK c \in Options : f[t[c]] = a
      <3>1. PICK p \in Options : f[p] = a
        BY <1>2, <2>3
      <3>2. PICK c \in Options : t[c] = p
        BY <1>2
      <3> QED BY <3>1, <3>2
    <2>6. c \in Nat /\ a \in Nat /\ f[t[a]] \in Nat
      BY <1>1, <2>3
    <2>7. CASE c < a
      BY <2>2, <2>5, <2>6, <2>7
    <2>8. CASE c = a
      BY <2>3, <2>5, <2>8
    <2>9. CASE a < c
      <3>1. f[t[a]] < f[t[c]]
        BY <2>3, <2>9
      <3> QED BY <2>4, <2>5, <2>6, <3>1
    <2> QED BY <2>6, <2>7, <2>8, <2>9
  <1> QED BY <1>3

\* There is one.
LEMMA SomeSorting ==
  ASSUME NEW f \in Layouts
  PROVE  \E t \in Layouts : \A a, b \in Options : a < b => f[t[a]] < f[t[b]]
  <1> DEFINE t == [a \in Options |-> CHOOSE o \in Options : f[o] = a]
  <1>1. /\ f \in [Options -> Options]
        /\ \A o, p \in Options : f[o] = f[p] => o = p
        /\ \A o \in Options : \E p \in Options : f[p] = o
    BY DEF Layouts, Bijection, Injection, Surjection, IsInjective
  <1>2. \A a \in Options : t[a] \in Options /\ f[t[a]] = a
    BY <1>1
  <1>3. t \in [Options -> Options]
    BY <1>2
  <1> HIDE DEF t
  <1>4. \A a, b \in Options : t[a] = t[b] => a = b
    BY <1>2
  <1>5. \A o \in Options : \E a \in Options : t[a] = o
    <2> TAKE o \in Options
    <2>1. f[o] \in Options /\ t[f[o]] = o
      BY <1>1, <1>2
    <2> QED BY <2>1
  <1>6. t \in Layouts
    BY <1>3, <1>4, <1>5 DEF Layouts, Bijection, Injection, Surjection, IsInjective
  <1>7. \A a, b \in Options : a < b => f[t[a]] < f[t[b]]
    BY <1>2
  <1> QED BY <1>6, <1>7

\* On the desktop, where the order of a question's options is drawn when it is first painted and
\* looked up at every painting after it, and on the phone, where the options are shuffled in the
\* questions and sorted back for the server, the index sent names the option where the user
\* clicked, and the verdict shown is whether the test marks it; for any test with any number of
\* options, any orders drawn, any tours and any interleaving of renderings, timers and moves
\* (buildQuestionArea, beginAttempt, onOptionClick).
THEOREM GradedSound == FlowSpec => []GradedAsPicked
  <1>1. FlowInv => GradedAsPicked
    <2> SUFFICES ASSUME FlowInv PROVE GradedAsPicked
      OBVIOUS
    <2>1. Desktop!GradedAsPicked
      BY SameTerms DEF FlowInv, ScreenInv, Graded, Fits, Laid, Desktop!GradedAsPicked, Desktop!Layout
    <2>2. ASSUME phone.phase = "taking", NEW q \in DOMAIN phone.answers
          PROVE  LET named == Phone!OptionsSent(q)[phone.answers[q].sent] IN
                 /\ named = phone.answers[q].pos
                 /\ phone.answers[q].right <=> Phone!Stamps(q)[named] = Marked[q]
      <3> DEFINE f == Phone!Stamps(q)
                 t == Phone!OptionsSent(q)
                 v == phone.answers[q]
      <3>1. q \in Questions /\ v \in Answer /\ Fits(phone, q, v)
        <4>1. phone.answers \in AnswerSheets
          BY DEF FlowInv, ScreenInv, ScreenStates
        <4>2. Graded(phone)
          BY DEF FlowInv, ScreenInv
        <4> QED BY <2>2, <4>1, <4>2 DEF AnswerSheets, Graded
      <3>2. f = Laid(phone, q) /\ f \in Layouts
        BY <2>2, <3>1, StampsLaid DEF Fits
      <3>3. t = CHOOSE u \in Layouts : \A a, b \in Options : a < b => f[u[a]] < f[u[b]]
        BY SameTerms DEF Phone!OptionsSent
      <3>4. v.pos \in Options /\ v.sent \in Options /\ v.sent = f[v.pos]
            /\ (v.right <=> v.sent = Marked[q])
        BY <3>1, <3>2 DEF Answer, Fits
      <3> HIDE DEF f, t, v
      <3>5. t \in Layouts /\ \A a, b \in Options : a < b => f[t[a]] < f[t[b]]
        BY <3>2, <3>3, SomeSorting
      <3>6. f[t[v.sent]] = v.sent
        BY <3>2, <3>4, <3>5, OneSorting
      <3>7. t[v.sent] \in Options /\ \A o, p \in Options : f[o] = f[p] => o = p
        BY <3>2, <3>4, <3>5 DEF Layouts, Bijection, Injection, IsInjective
      <3>8. t[v.sent] = v.pos
        BY <3>4, <3>6, <3>7
      <3> QED BY <3>4, <3>6, <3>8 DEF f, t, v
    <2> QED BY <2>1, <2>2 DEF GradedAsPicked, Phone!PhoneGradedAsPicked
  <1> QED BY FlowInitInv, FlowNextInv, <1>1, PTL DEF FlowSpec

\* An attempt has one clock, which ends with it, as long as no rendering of its screen overtook
\* another one, and the advance goes one place past the paper at most, for any paper and any
\* number of renderings that wait (render, finishUp, onOptionClick).
THEOREM TimersSound == FlowSpec => []TimersBehave
  <1>1. FlowInv => TimersBehave
    BY DEF FlowInv, ScreenInv, Unhurried, OnPaper, TimersBehave, Desktop!OneClock, Phone!OneClock,
       Desktop!NearPaper, Phone!NearPaper
  <1> QED BY FlowInitInv, FlowNextInv, <1>1, PTL DEF FlowSpec

\* What lies in the session storage keeps the promises of its mode and source, and a retake asks
\* nothing but the mistakes, for any presets, pools and typed minutes, also when the phone's
\* pre-test starts from what the desktop stored (refreshFromMode, applyMode, handleStart,
\* retakeMistakes).
THEOREM HandoversSound == FlowSpec => []HandoverSound
  <1>1. FlowInv => HandoverSound
    <2> SUFFICES ASSUME FlowInv PROVE HandoverSound
      OBVIOUS
    <2>1. \A h \in Range(handoff) : HandoffSound(h)
      <3>1. CASE handoff = <<>>
        BY <3>1 DEF Range
      <3>2. CASE \E h \in Handoffs : handoff = <<h>> /\ HandoffSound(h)
        BY <3>2 DEF Range
      <3> QED BY <3>1, <3>2 DEF FlowInv, StorageSound
    <2> QED BY <2>1 DEF HandoffSound, HandoverSound, HandoffKeepsMode, MistakesOnly
  <1> QED BY FlowInitInv, FlowNextInv, <1>1, PTL DEF FlowSpec

\* Who handed in, or whose time ran out, has a hand-in under way or a result, on either screen
\* and however many intervals tick (finishUp).
THEOREM NobodyStranded == FlowSpec => []NeverStranded
  <1>1. FlowInv => NeverStranded
    BY DEF FlowInv, ScreenInv, Settled, NeverStranded, Desktop!NeverStranded, Phone!NeverStranded
  <1> QED BY FlowInitInv, FlowNextInv, <1>1, PTL DEF FlowSpec

\* Within an attempt of an exam no step of a screen goes back.
LEMMA MovesForward ==
  ASSUME NEW r, NEW r2, NEW n \in Nat, NEW n2, NEW k, NEW k2,
         ScreenInv(r, n, k), Moved(r, r2, n, n2, k, k2),
         r.phase = "taking", r.set.mode = "exam", r2.phase = "taking", r2.attempt = r.attempt
  PROVE  r2.idx >= r.idx
  <1>1. r.idx \in Nat /\ r2.idx \in Nat /\ r.attempt \in 1..n
    BY DEF ScreenInv, Numbered, Moved, ScreenStates
  <1>2. ~Opened(r, r2) /\ ~Began(r, r2, n) /\ ~Turned(r, r2) /\ ~HandedIn(r, r2)
    BY <1>1 DEF Opened, Began, Turned, HandedIn
  <1>3. CASE Walked(r, r2)
    BY <1>1, <1>3 DEF Walked
  <1>4. CASE Failed(r, r2) \/ Ticked(r, r2) \/ Returned(r, r2, k, k2) \/ r2 = r
    BY <1>1, <1>4 DEF Failed, Ticked, Returned
  <1>5. CASE \E q \in Questions, v \in Answer : Picked(r, r2, q, v)
    BY <1>1, <1>5 DEF Picked
  <1> QED BY <1>2, <1>3, <1>4, <1>5 DEF Moved

\* In an exam no button, rail, drawer or timer takes the user back, on either screen; another
\* attempt starts over, and its number tells it apart (MayGoBack, MayJump, Advance).
THEOREM ExamStaysForward == FlowSpec => ExamForward
  <1> DEFINE Forward(r, r2) ==
               (r.phase = "taking" /\ r.set.mode = "exam" /\ r2.phase = "taking"
                /\ r2.attempt = r.attempt) => r2.idx >= r.idx
  <1>1. FlowInv /\ [FlowNext]_flowVars => [Forward(desk, desk')]_desk /\ [Forward(phone, phone')]_phone
    <2> SUFFICES ASSUME FlowInv, [FlowNext]_flowVars
                 PROVE  [Forward(desk, desk')]_desk /\ [Forward(phone, phone')]_phone
      OBVIOUS
    <2>1. CASE FlowNext
      <3>1. BothMoved /\ begun \in Nat
        BY <2>1, StepKeeps DEF FlowInv
      <3>2. Forward(desk, desk') /\ Forward(phone, phone')
        BY <3>1, MovesForward DEF BothMoved, DeskMoved, PhoneMoved, FlowInv
      <3> QED BY <3>2
    <2>2. CASE UNCHANGED flowVars
      BY <2>2 DEF flowVars
    <2> QED BY <2>1, <2>2
  <1> QED BY FlowInitInv, FlowNextInv, <1>1, PTL
          DEF FlowSpec, ExamForward, Desktop!ExamForward, Phone!ExamForward,
              Desktop!Exam, Phone!Exam

-----------------------------------------------------------------------------
(* The answer sheet that a screen keeps                                      *)

SheetAttempt(r) == IF InHand(r) THEN r.attempt ELSE 0
SheetLocked(r) == InHand(r) /\ r.set.show

SheetBegins(r, r2, n, n2) ==
  /\ n2 = n + 1 /\ SheetAttempt(r2) = n + 1
  /\ Given(r2) = NoAnswers /\ SheetLocked(r2) \in BOOLEAN
SheetMarks(r, r2, n, n2, q, o) ==
  /\ SheetAttempt(r) # 0 /\ ~(SheetLocked(r) /\ q \in DOMAIN Given(r))
  /\ Given(r2) = [p \in DOMAIN Given(r) \cup {q} |-> IF p = q THEN o ELSE Given(r)[p]]
  /\ SheetAttempt(r2) = SheetAttempt(r) /\ n2 = n /\ SheetLocked(r2) = SheetLocked(r)
SheetGoes(r, r2, n, n2) ==
  /\ SheetAttempt(r2) = 0 /\ Given(r2) = NoAnswers /\ n2 = n /\ SheetLocked(r2) \in BOOLEAN
SheetStays(r, r2, n, n2) ==
  /\ SheetAttempt(r2) = SheetAttempt(r) /\ Given(r2) = Given(r)
  /\ SheetLocked(r2) = SheetLocked(r) /\ n2 \in {n, n + 1}

\* An attempt that begins has an empty sheet, a click marks one question of it, and everything
\* else leaves it as it is or puts it away.
LEMMA SheetStep ==
  ASSUME NEW r, NEW r2, NEW n \in Nat, NEW n2, NEW k, NEW k2,
         ScreenInv(r, n, k), Moved(r, r2, n, n2, k, k2)
  PROVE  \/ SheetBegins(r, r2, n, n2)
         \/ \E q \in Questions, o \in Options : SheetMarks(r, r2, n, n2, q, o)
         \/ SheetGoes(r, r2, n, n2)
         \/ SheetStays(r, r2, n, n2)
  <1>0. /\ r \in ScreenStates /\ r2 \in ScreenStates
        /\ r.torn \in BOOLEAN /\ r2.torn \in BOOLEAN /\ r.clock \in BOOLEAN
        /\ r2.set.show \in BOOLEAN /\ r.attempt \in Nat /\ r2.attempt \in Nat
    BY DEF ScreenInv, Moved, ScreenStates, ScreenSettings
  <1>1. ASSUME r2.answers = r.answers, r2.attempt = r.attempt, r2.set = r.set,
               InHand(r2) = InHand(r), n2 \in {n, n + 1}
        PROVE  SheetStays(r, r2, n, n2)
    BY <1>1 DEF SheetStays, SheetAttempt, SheetLocked, Given
  <1>2. CASE Opened(r, r2) /\ n2 = n
    <2>1. ~InHand(r2)
      BY <1>2 DEF Opened, InHand
    <2> QED BY <1>2, <2>1 DEF SheetGoes, SheetAttempt, SheetLocked, Given
  <1>3. CASE Began(r, r2, n) /\ n2 = n + 1
    <2>1. CASE r.torn
      <3>1. ~InHand(r) /\ ~InHand(r2)
        BY <1>3, <2>1 DEF Began, InHand
      <3> QED BY <1>3, <3>1 DEF SheetStays, SheetAttempt, SheetLocked, Given
    <2>2. CASE ~r.torn
      <3>1. InHand(r2) /\ r2.answers = NoAnswers /\ r2.attempt = n + 1
        BY <1>3, <2>2 DEF Began, InHand
      <3>2. Given(r2) = NoAnswers
        BY <3>1 DEF Given, NoAnswers
      <3> QED BY <1>0, <1>3, <3>1, <3>2 DEF SheetBegins, SheetAttempt, SheetLocked
    <2> QED BY <1>0, <2>1, <2>2
  <1>4. CASE Turned(r, r2) /\ n2 = n
    <2>1. ~InHand(r2)
      BY <1>4 DEF Turned, InHand
    <2> QED BY <1>4, <2>1 DEF SheetGoes, SheetAttempt, SheetLocked, Given
  <1>5. CASE (Failed(r, r2) \/ Walked(r, r2) \/ Ticked(r, r2)) /\ n2 = n
    BY <1>1, <1>5 DEF Failed, Arrives, Walked, Ticked, SameSheet, SameAttempt, InHand
  <1>6. CASE Returned(r, r2, k, k2) /\ n2 = n
    BY <1>1, <1>6 DEF Returned, SameSheet, SameAttempt, InHand
  <1>7. CASE HandedIn(r, r2) /\ n2 = n
    <2>1. ~r.torn => r.phase = "taking"
      BY <1>7 DEF HandedIn, ScreenInv, Unhurried
    <2>2. InHand(r2) = InHand(r)
      BY <1>7, <2>1 DEF HandedIn, SameSheet, SameAttempt, InHand
    <2> QED BY <1>1, <1>7, <2>2 DEF HandedIn, SameSheet, SameAttempt
  <1>8. ASSUME NEW q \in Questions, NEW v \in Answer, Picked(r, r2, q, v), n2 = n
        PROVE  v.sent \in Options /\ (SheetMarks(r, r2, n, n2, q, v.sent) \/ SheetStays(r, r2, n, n2))
    <2>5. v.sent \in Options
      BY DEF Answer
    <2>1. InHand(r2) = InHand(r) /\ InHand(r) = ~r.torn
      BY <1>8 DEF Picked, SameAttempt, InHand
    <2>2. r2.attempt = r.attempt /\ r2.set = r.set
      BY <1>8 DEF Picked, SameAttempt
    <2>3. CASE r.torn
      <3>1. ~InHand(r) /\ ~InHand(r2)
        BY <2>1, <2>3
      <3> QED BY <1>8, <2>5, <3>1 DEF SheetStays, SheetAttempt, SheetLocked, Given
    <2>4. CASE ~r.torn
      <3>1. InHand(r) /\ InHand(r2)
        BY <2>1, <2>4
      <3>2. /\ Given(r) = [p \in DOMAIN r.answers |-> r.answers[p].sent]
            /\ Given(r2) = [p \in DOMAIN r2.answers |-> r2.answers[p].sent]
        BY <3>1 DEF Given
      <3>3. r2.answers = [p \in DOMAIN r.answers \cup {q} |-> IF p = q THEN v ELSE r.answers[p]]
        BY <1>8 DEF Picked, Noted
      <3>4. Given(r2) = [p \in DOMAIN Given(r) \cup {q} |-> IF p = q THEN v.sent ELSE Given(r)[p]]
        BY <3>2, <3>3
      <3>5. r.attempt # 0 /\ ~(q \in DOMAIN r.answers /\ r.set.show)
        BY <1>8 DEF Picked, ScreenInv, Numbered
      <3> QED BY <1>8, <2>2, <2>5, <3>1, <3>2, <3>4, <3>5 DEF SheetMarks, SheetAttempt, SheetLocked
    <2> QED BY <1>0, <2>3, <2>4, <2>5
  <1>9. CASE r2 = r /\ n2 \in {n, n + 1}
    BY <1>1, <1>9
  <1> QED BY <1>2, <1>3, <1>4, <1>5, <1>6, <1>7, <1>8, <1>9 DEF Moved

\* The sheet of either screen is an answer sheet: attempts come one after the other, each with
\* an empty sheet, and an answer given with shown answers stands; until a rendering overtakes
\* another one, for any test, any number of attempts and any tours.
THEOREM SheetsImplement == FlowSpec => SheetsKept
  <1>1. FlowInit => DeskSheet!SheetInit /\ PhoneSheet!SheetInit
    BY SameTerms DEF FlowInit, PaperInit, Desktop!TakingInit, Phone!TakingInit, InHand, Given,
       DeskSheet!SheetInit, PhoneSheet!SheetInit, DeskSheet!Blank, PhoneSheet!Blank, NoAnswers
  <1>2. FlowInv /\ [FlowNext]_flowVars =>
          [DeskSheet!SheetNext]_<<SheetAttempt(desk), begun, SheetLocked(desk), Given(desk)>>
    <2> SUFFICES ASSUME FlowInv, FlowNext
                 PROVE  [DeskSheet!SheetNext]_<<SheetAttempt(desk), begun, SheetLocked(desk),
                                                Given(desk)>>
      BY DEF flowVars, paperVars
    <2>1. /\ begun \in Nat /\ ScreenInv(desk, begun, results)
          /\ Moved(desk, desk', begun, begun', results, results')
      BY StepKeeps DEF FlowInv, BothMoved, DeskMoved
    <2>2. CASE SheetBegins(desk, desk', begun, begun')
      BY <2>2 DEF SheetBegins, DeskSheet!SheetNext, DeskSheet!Begin, DeskSheet!Blank, NoAnswers,
         SheetAttempt, SheetLocked
    <2>3. CASE \E q \in Questions, o \in Options : SheetMarks(desk, desk', begun, begun', q, o)
      BY <2>3 DEF SheetMarks, DeskSheet!SheetNext, DeskSheet!Mark, SheetAttempt, SheetLocked
    <2>4. CASE SheetGoes(desk, desk', begun, begun')
      BY <2>4 DEF SheetGoes, DeskSheet!SheetNext, DeskSheet!PutAway, DeskSheet!Blank, NoAnswers,
         SheetAttempt, SheetLocked
    <2>5. CASE SheetStays(desk, desk', begun, begun')
      BY <2>5 DEF SheetStays, DeskSheet!SheetNext, DeskSheet!BegunElsewhere, SheetAttempt, SheetLocked
    <2> QED BY <2>1, <2>2, <2>3, <2>4, <2>5, SheetStep
  <1>3. FlowInv /\ [FlowNext]_flowVars =>
          [PhoneSheet!SheetNext]_<<SheetAttempt(phone), begun, SheetLocked(phone), Given(phone)>>
    <2> SUFFICES ASSUME FlowInv, FlowNext
                 PROVE  [PhoneSheet!SheetNext]_<<SheetAttempt(phone), begun, SheetLocked(phone),
                                                 Given(phone)>>
      BY DEF flowVars, paperVars
    <2>1. /\ begun \in Nat /\ ScreenInv(phone, begun, results)
          /\ Moved(phone, phone', begun, begun', results, results')
      BY StepKeeps DEF FlowInv, BothMoved, PhoneMoved
    <2>2. CASE SheetBegins(phone, phone', begun, begun')
      BY <2>2 DEF SheetBegins, PhoneSheet!SheetNext, PhoneSheet!Begin, PhoneSheet!Blank, NoAnswers,
         SheetAttempt, SheetLocked
    <2>3. CASE \E q \in Questions, o \in Options : SheetMarks(phone, phone', begun, begun', q, o)
      BY <2>3 DEF SheetMarks, PhoneSheet!SheetNext, PhoneSheet!Mark, SheetAttempt, SheetLocked
    <2>4. CASE SheetGoes(phone, phone', begun, begun')
      BY <2>4 DEF SheetGoes, PhoneSheet!SheetNext, PhoneSheet!PutAway, PhoneSheet!Blank, NoAnswers,
         SheetAttempt, SheetLocked
    <2>5. CASE SheetStays(phone, phone', begun, begun')
      BY <2>5 DEF SheetStays, PhoneSheet!SheetNext, PhoneSheet!BegunElsewhere, SheetAttempt, SheetLocked
    <2> QED BY <2>1, <2>2, <2>3, <2>4, <2>5, SheetStep
  <1> QED BY FlowInitInv, FlowNextInv, <1>1, <1>2, <1>3, PTL
          DEF FlowSpec, SheetsKept, DeskSheet!SheetSpec, PhoneSheet!SheetSpec,
              SheetAttempt, SheetLocked
=============================================================================
