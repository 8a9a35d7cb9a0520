----------------------------- MODULE MobileTaking -----------------------------
(***************************************************************************)
(* The phone's screen on which a test is taken: a module of its own, with its   *)
(* own state, where the code differs from the desktop's.  The handoff is read    *)
(* at every rendering and stays; the options are shuffled in the questions       *)
(* themselves; a drawer jumps between questions; the clock always hands in.      *)
(***************************************************************************)
EXTENDS TakingScreen

VARIABLE drawer  \* _s.drawerOpen

PhoneMount == Paint("take", TRUE)

PhoneHere == UNCHANGED <<paperVars, hash, queued, rewritten, untouched>>

\* render: as on the desktop, without a review.
PhoneRender == Render(0) /\ drawer' = FALSE

\* The options of a question: their stamps (__origIdx) by position.  Without shuffling they lie
\* as in the test and carry none.
Stamps(q) == IF q \in DOMAIN s.order THEN s.order[q] ELSE AsInTest

\* A mutant: the options go out as they are shown.
AsShuffled(q) == AsInTest

\* The options that startAttempt sends, sorted by their stamps if they have any: index to
\* position on the screen.
OptionsSent(q) ==
  CHOOSE t \in Layouts : \A a, b \in Options : a < b => Stamps(q)[t[a]] < Stamps(q)[t[b]]

\* beginAttempt: the options of all questions of the paper are shuffled at once.
PhoneBegin(base, pool, count, random, timed) ==
  /\ begun < MaxAttempts
  /\ begun' = begun + 1
  /\ \E paper \in Papers(pool, count, random) :
       \E order \in IF base.set.shuffle THEN [Range(paper) -> Draws] ELSE {NoLayouts} :
         s' = [Begun(base, paper, timed) EXCEPT !.order = order]
  /\ PhoneMount
  /\ UNCHANGED drawer

\* The test arrives: an attempt with what the pre-test stored, each time, or the modal.
PhoneLoaded(l) ==
  LET rest == [s EXCEPT !.loads = @ \ {l}] IN
  /\ l \in s.loads
  /\ \/ /\ handoff # <<>>
        /\ LET h == handoff[1] IN
           PhoneBegin([rest EXCEPT !.set = Applied(h)], Filtered(h), h.count, h.random,
                      h.limit > 0)
     \/ /\ handoff = <<>>
        /\ s' = [rest EXCEPT !.phase = "pretest"]
        /\ PhoneMount
        /\ UNCHANGED <<begun, drawer>>
  /\ UNCHANGED <<handoff, results, asked, hash, queued, rewritten, untouched>>

PhoneLoadFailed(l) ==
  /\ l \in s.loads
  /\ s' = [s EXCEPT !.loads = @ \ {l}]
  /\ Paint("error", TRUE)
  /\ UNCHANGED <<paperVars, hash, queued, rewritten, untouched, drawer>>

\* The modal has no choice of shuffled options.
PhoneModalStarts ==
  /\ On("take", TRUE) /\ s.phase = "pretest"
  /\ \E show, random, timed \in BOOLEAN, count \in 1..Len(TestOrder) :
       PhoneBegin([s EXCEPT !.set = [@ EXCEPT !.show = show]], Questions, count, random, timed)
  /\ UNCHANGED <<handoff, results, asked, hash, queued, rewritten, untouched>>

\* history.back()
PhoneModalBack ==
  /\ On("take", TRUE) /\ s.phase = "pretest"
  /\ \E p \in Links : Navigate(p)
  /\ UNCHANGED <<s, drawer, paperVars, placeVars>>

PhoneTaking == On("take", TRUE) /\ s.phase = "taking"

\* The stamp of the option, or its position if it has none.
PhoneIndex(q, pos) == Stamps(q)[pos]

PhoneOptionClick(pos) ==
  /\ PhoneTaking /\ s.idx < Len(s.paper)
  /\ MayAnswer(Current)
  /\ LET q == Current IN
     s' = [s EXCEPT !.answers = Noted(@, q, [pos |-> pos, sent |-> PhoneIndex(q, pos),
                                           right |-> Stamps(q)[pos] = Marked[q]]),
                    !.advance = @ \/ (s.set.show /\ ~Last)]
  /\ PhoneMount
  /\ PhoneHere /\ UNCHANGED drawer

PhoneAdvance ==
  /\ s.advance
  /\ s' = [s EXCEPT !.advance = FALSE, !.idx = @ + 1]
  /\ PhoneMount
  /\ PhoneHere /\ UNCHANGED drawer

PhoneNext ==
  /\ PhoneTaking /\ ~Last
  /\ s' = [s EXCEPT !.idx = @ + 1]
  /\ PhoneMount /\ PhoneHere /\ UNCHANGED drawer

\* Previous is disabled by forwardOnly, which only an exam sets.
PhonePrevious ==
  /\ PhoneTaking /\ MayGoBack
  /\ s' = [s EXCEPT !.idx = @ - 1]
  /\ PhoneMount /\ PhoneHere /\ UNCHANGED drawer

Drawer ==
  /\ PhoneTaking
  /\ drawer' = ~drawer
  /\ UNCHANGED s
  /\ PhoneMount /\ PhoneHere

\* A mutant: the drawer jumps anywhere.
AnyCell(i) == TRUE

\* A cell before the current question is dead in an exam.
MayJump(i) == ~(Exam /\ i < s.idx)

PhoneJump ==
  /\ PhoneTaking /\ drawer
  /\ \E i \in 0..(Len(s.paper) - 1) : MayJump(i) /\ s' = [s EXCEPT !.idx = i]
  /\ drawer' = FALSE
  /\ PhoneMount /\ PhoneHere

PhoneClose ==
  /\ PhoneTaking
  /\ s' = [s EXCEPT !.clock = FALSE, !.advance = FALSE]
  /\ Navigate("home")
  /\ UNCHANGED <<drawer, paperVars, placeVars>>

PhoneFinishUp(base) ==
  /\ s' = [base EXCEPT !.clock = FALSE, !.advance = FALSE, !.phase = "finishing",
                       !.saving = @ \cup {s.attempt}]
  /\ PhoneMount

PhoneFinish ==
  /\ PhoneTaking /\ Last
  /\ PhoneFinishUp(s)
  /\ PhoneHere /\ UNCHANGED drawer

\* At zero the attempt is handed in, whatever its mode, by every interval and every second.
PhoneTick ==
  /\ s.clock \/ s.leaked > 0
  /\ s.left # NoTime
  /\ LET left == IF s.left = 0 THEN 0 ELSE s.left - 1
         ticked == [s EXCEPT !.left = left] IN
     IF left = 0 THEN PhoneFinishUp(ticked) ELSE s' = ticked /\ UNCHANGED shown
  /\ s' # s
  /\ PhoneHere /\ UNCHANGED drawer

PhoneFinishReturned(a, answered) ==
  /\ a \in s.saving
  /\ s' = [s EXCEPT !.saving = @ \ {a}]
  /\ results' = Kept(a, answered)
  /\ asked' = a
  /\ Go("results", asked # a)
  /\ UNCHANGED <<drawer, handoff, begun, placeVars>>

PhoneStep ==
  \/ \E l \in s.loads : PhoneLoaded(l) \/ PhoneLoadFailed(l)
  \/ PhoneModalStarts \/ PhoneModalBack
  \/ \E pos \in Options : PhoneOptionClick(pos)
  \/ PhoneAdvance \/ PhoneNext \/ PhonePrevious \/ Drawer \/ PhoneJump
  \/ PhoneClose \/ PhoneFinish \/ PhoneTick
  \/ \E a \in s.saving, answered \in BOOLEAN : PhoneFinishReturned(a, answered)

(***************************************************************************)
(* Properties                                                              *)
(***************************************************************************)

\* The server grades what the user sees picked, through both reorderings: among the options that
\* startAttempt sent, the index sent names the option at the place of the tap, and the verdict
\* shown is whether that option is marked.
PhoneGradedAsPicked ==
  s.phase = "taking" =>
    \A q \in DOMAIN s.answers :
      LET named == OptionsSent(q)[s.answers[q].sent] IN
      /\ named = s.answers[q].pos
      /\ s.answers[q].right <=> Stamps(q)[named] = Marked[q]
=============================================================================
