--------------------------------- MODULE Flow ---------------------------------
(***************************************************************************)
(* Taking a test, from the pre-test to the results: the router, the screens of *)
(* both breakpoints, and the session storage between them.  A screen is opened    *)
(* when the router mounts it; what it started may end after the user has left.    *)
(***************************************************************************)
EXTENDS PretestScreens, ResultScreens

CONSTANTS
  MaxLoads,
  Tours  \* bound: what one behaviour visits: screens that the user asks for and those that only
         \* these lead to, breakpoints, the handoff it finds, the attempts it begins and the
         \* renderings of one screen that may wait

VARIABLES
  desk,   \* _s of the desktop's taking.js
  phone,  \* _s of the phone's
  drawer,
  tour

flowVars == <<routerVars, paperVars, pretestVars, resultVars, desk, phone, drawer, tour>>

\* A tour starts with at most one handoff in the session storage. It was put there by
\* one of these screens, so it says of its mode and its filter what they say.
ASSUME ToursAssumption ==
  \A t \in Tours : /\ t.pages \cup t.next \subseteq Links /\ t.views \subseteq BOOLEAN
                   /\ t.handed \in Seq(Handoffs) /\ Len(t.handed) <= 1
                   /\ \A h \in Range(t.handed) : KeepsMode(h) /\ AsksMistakes(h)
                   /\ t.attempts \in 0..MaxAttempts /\ t.loads \in 0..MaxLoads

Desktop == INSTANCE TakingScreen WITH s <- desk
Phone == INSTANCE MobileTaking WITH s <- phone

FlowInit ==
  /\ tour \in Tours
  /\ RouterInit /\ hash \in tour.pages /\ mobile \in tour.views /\ signedIn
  /\ PaperInit(tour.handed)
  /\ PretestInit
  /\ ResultInit
  /\ Desktop!TakingInit
  /\ Phone!TakingInit
  /\ drawer = FALSE

\* Bound: a behaviour hands over once; after that it leaves the pre-test form alone.
HandedOnce ==
  handoff = tour.handed \/ (handoff' \in {handoff, <<>>} /\ form' \in {form, <<>>})
Reach == IF handoff = tour.handed THEN tour.pages ELSE tour.pages \ {"pretest"}

\* Which screen's render runs; the form goes with the page.
Opens(p, narrow) ==
  /\ CASE p = "take" /\ ~narrow ->
            /\ Cardinality(desk.loads) < tour.loads
            /\ \E review \in {0} \cup DOMAIN results : Desktop!Render(review)
            /\ UNCHANGED <<phone, drawer>>
       [] p = "take" /\ narrow ->
            /\ Cardinality(phone.loads) < tour.loads
            /\ Phone!PhoneRender
            /\ UNCHANGED desk
       [] OTHER                -> UNCHANGED <<desk, phone, drawer>>
  /\ IF p = "pretest" THEN PretestRender(narrow) ELSE form' = <<>> /\ UNCHANGED waits
  /\ CASE p = "results" -> ResultsRender(narrow)
       [] p = "perq"    -> QuestionRender(narrow)
       [] OTHER         -> UNCHANGED resultVars

Mount ==
  \E i \in imports :
    /\ i.fresh => ScreenOf(i) \in Reach \cup tour.next
    /\ ModuleLoaded(i)
    /\ IF Mounts(i) THEN Opens(ScreenOf(i), i.narrow)
       ELSE UNCHANGED <<pretestVars, resultVars, desk, phone, drawer>>
    /\ UNCHANGED <<paperVars, tour>>

Route ==
  /\ \/ HashChange /\ keys' = KeysAfter(hash)
     \/ /\ \/ (~mobile) \in tour.views /\ BreakpointChange
           \/ LocaleChange
           \/ \E i \in imports : ModuleFailed(i)
           \/ \E p \in Reach : Follow(p)
        /\ UNCHANGED keys
  /\ form' = IF shown' = shown THEN form ELSE <<>>
  /\ UNCHANGED <<paperVars, waits, fetches, wrong, phoneKey, flags, marked, flagging,
                 desk, phone, drawer, tour>>

FlowNext ==
  /\ \/ Mount
     \/ Route
     \/ PretestStep /\ UNCHANGED <<resultVars, desk, phone, drawer, tour>>
     \/ ResultStep /\ UNCHANGED <<pretestVars, desk, phone, drawer, tour>>
     \/ Desktop!TakingStep /\ UNCHANGED <<pretestVars, resultVars, phone, drawer, tour>>
     \/ Phone!PhoneStep /\ UNCHANGED <<pretestVars, resultVars, desk, tour>>
  /\ begun' <= tour.attempts
  /\ HandedOnce

FlowSpec == FlowInit /\ [][FlowNext]_flowVars

(***************************************************************************)
(* Properties                                                              *)
(***************************************************************************)

\* The parts of the state have their types.
FlowTypeOK ==
  /\ RouterTypeOK /\ PaperTypeOK /\ PretestTypeOK /\ ResultTypeOK
  /\ Desktop!TakingTypeOK /\ Phone!TakingTypeOK

\* On either screen the server grades what the user picked (beginAttempt, onOptionClick).
GradedAsPicked == Desktop!GradedAsPicked /\ Phone!PhoneGradedAsPicked

\* On either screen an attempt has one clock, which ends with it, unless a rendering of the
\* screen overtook another one; and the advance timer takes the user at most one place past
\* the paper (render, beginAttempt, onOptionClick, finishUp).
TimersBehave ==
  /\ Desktop!OneClock /\ Phone!OneClock
  /\ Desktop!NearPaper /\ Phone!NearPaper

\* On neither screen an exam lets the user go back (rail, drawer, buttons, timers).
ExamForward == Desktop!ExamForward /\ Phone!ExamForward

\* What one screen leaves for the next keeps the promises of its mode and source, and an
\* attempt handed over from a result asks nothing but mistakes (handleStart, retakeMistakes).
HandoverSound == HandoffKeepsMode /\ MistakesOnly

\* On neither screen a user who handed in is left without a result (finishUp).
NeverStranded == Desktop!NeverStranded /\ Phone!NeverStranded

\* Until a rendering overtakes another one, the sheet of a screen is an answer sheet: attempts
\* come one after the other and an answer given with shown answers stands.
InHand(s) == ~s.torn /\ s.phase \in {"taking", "finishing"}
Given(s) == IF InHand(s) THEN [q \in DOMAIN s.answers |-> s.answers[q].sent] ELSE NoAnswers

DeskSheet == INSTANCE AnswerSheet WITH
  attempt <- IF InHand(desk) THEN desk.attempt ELSE 0, last <- begun,
  locked <- InHand(desk) /\ desk.set.show, sheet <- Given(desk)
PhoneSheet == INSTANCE AnswerSheet WITH
  attempt <- IF InHand(phone) THEN phone.attempt ELSE 0, last <- begun,
  locked <- InHand(phone) /\ phone.set.show, sheet <- Given(phone)

SheetsKept == DeskSheet!SheetSpec /\ PhoneSheet!SheetSpec
=============================================================================
