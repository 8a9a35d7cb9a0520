---------------------------- MODULE PretestScreens ----------------------------
(***************************************************************************)
(* The two screens, desktop and phone, on which the settings of an attempt are *)
(* chosen and handed to the taking screen through the session storage.  Each     *)
(* rendering has its own form; the rules that tie mode, source, count, time and   *)
(* toggles together differ between the two.                                      *)
(***************************************************************************)
EXTENDS Router, Paper

CONSTANTS
  Presets,  \* bound: the time chips, in minutes; 0 is "none"
  Customs,  \* bound: the minutes that are typed
  Pools     \* bound: what the statistics and flags of the user may say about the test

VARIABLES
  form,   \* the form on screen, or <<>>
  waits   \* renderings that wait for the test; fresh: none was rendered after it

pretestVars == <<form, waits>>

ASSUME PretestAssumption ==
  /\ 0 \in Presets /\ Presets \subseteq Nat /\ Presets # {0} /\ Customs \subseteq Nat
  /\ \A p \in Pools : p \in [{"weak", "flagged", "untaken"} -> SUBSET Questions]

Total == Cardinality(Questions)

Forms == [narrow: BOOLEAN, mode: Modes, source: Sources, count: 1..Total, top: 1..Total,
          random: BOOLEAN, shuffle: BOOLEAN, reveal: BOOLEAN, limit: Nat, cap: Nat, pools: Pools]

PretestTypeOK ==
  /\ Len(form) <= 1 /\ Range(form) \subseteq Forms
  /\ waits \subseteq [narrow: BOOLEAN, fresh: BOOLEAN]

PretestInit == form = <<>> /\ waits = {}

Chosen == UNCHANGED <<waits, paperVars, routerVars>>
OnForm(narrow) == form # <<>> /\ form[1].narrow = narrow /\ On("pretest", narrow)

PretestRender(narrow) ==
  /\ form' = <<>>
  /\ waits' = {[w EXCEPT !.fresh = FALSE] : w \in {v \in waits : v.narrow = narrow}}
                \cup {v \in waits : v.narrow # narrow} \cup {[narrow |-> narrow, fresh |-> TRUE]}

(***************************************************************************)
(* Desktop.                                                                *)
(***************************************************************************)
Strict(mode) == mode \in {"timed", "exam"}

Distance(a, b) == Larger(a, b) - Smaller(a, b)

\* A mutant: a mode that needs a time limit may keep none.
NotPromoted(f) == f

\* refreshFromMode: without a limit, a timed mode gets the preset nearest to 0.7 minutes a question.
Promoted(f) ==
  LET target == Larger(5, (7 * f.count + 5) \div 10)
      near == {p \in Presets \ {0} :
                 \A r \in Presets \ {0} : Distance(p, target) <= Distance(r, target)} IN
  IF Strict(f.mode) /\ f.limit = 0
    THEN [f EXCEPT !.limit = CHOOSE p \in near : \A r \in near : p <= r]
    ELSE f

\* timeCtl.applyMode: the cap of the typed minutes, from the count at that moment.
Capped(f) ==
  LET cap == CASE f.mode = "exam"  -> Larger(5, Smaller(180, f.count))
               [] f.mode = "timed" -> Larger(10, Smaller(300, 2 * f.count))
               [] OTHER            -> 600 IN
  [f EXCEPT !.cap = cap, !.limit = Smaller(@, cap)]

\* optionsCtl.applyMode
ExamLocked(f) ==
  IF f.mode = "exam" THEN [f EXCEPT !.random = TRUE, !.reveal = FALSE] ELSE f

Refreshed(f) == ExamLocked(Capped(Promoted(f)))

NewForm(pools) ==
  Refreshed([narrow |-> FALSE, mode |-> "training", source |-> "all",
             count |-> Smaller(20, Total), top |-> Total, random |-> TRUE, shuffle |-> FALSE,
             reveal |-> FALSE, limit |-> 0, cap |-> 600, pools |-> pools])

\* The three answers have come.  No rendering looks whether it is stale, but an old one fills a
\* card that is no longer in the page.
TestArrives ==
  \E w \in waits, pools \in Pools :
    /\ ~w.narrow
    /\ waits' = waits \ {w}
    /\ form' = IF w.fresh /\ On("pretest", FALSE) THEN <<NewForm(pools)>> ELSE form
    /\ UNCHANGED <<paperVars, routerVars>>

\* A refusal sends the user to the 403 page from wherever he is by now.
TestRefused ==
  \E w \in waits :
    /\ ~w.narrow
    /\ waits' = waits \ {w}
    /\ Navigate("403") \/ Stay
    /\ UNCHANGED <<form, paperVars, placeVars>>

SourceSize(f, source) == IF source = "all" THEN Total ELSE Cardinality(f.pools[source])

ChooseMode ==
  /\ OnForm(FALSE)
  /\ \E m \in {"training", "timed", "exam"} : form' = <<Refreshed([form[1] EXCEPT !.mode = m])>>
  /\ Chosen

\* A chip or a typed number, up to the size of the pool.
ChooseCount ==
  /\ OnForm(FALSE)
  /\ \E n \in 1..form[1].top : form' = <<[form[1] EXCEPT !.count = n]>>
  /\ Chosen

CountWithin(n, top) == Smaller(n, top)

\* A source without questions has a dead chip; the count follows the pool.
ChooseSource ==
  /\ OnForm(FALSE)
  /\ \E source \in {"all", "weak", "flagged", "untaken"} :
       LET top == SourceSize(form[1], source) IN
       /\ top > 0
       /\ form' = <<[form[1] EXCEPT !.source = source, !.top = top, !.count = CountWithin(@, top)]>>
  /\ Chosen

\* The chip "none" is dead in a timed mode; other chips are not held to the cap.
ChooseTime ==
  /\ OnForm(FALSE)
  /\ \E v \in Presets \cup (Customs \cap (1..form[1].cap)) :
       /\ v = 0 => ~Strict(form[1].mode)
       /\ form' = <<[form[1] EXCEPT !.limit = v]>>
  /\ Chosen

Toggle ==
  /\ OnForm(FALSE)
  /\ LET f == form[1] IN
     \/ f.mode # "exam" /\ form' = <<[f EXCEPT !.random = ~@]>>
     \/ f.mode # "exam" /\ form' = <<[f EXCEPT !.reveal = ~@]>>
     \/ form' = <<[f EXCEPT !.shuffle = ~@]>>
  /\ Chosen

\* The ids of a source: of the weak ones the first count, weakest first.
FiltersOf(f, source) ==
  CASE source = "weak" -> {W \in SUBSET f.pools["weak"] :
                             Cardinality(W) = Smaller(f.count, Cardinality(f.pools["weak"]))}
    [] source \in {"flagged", "untaken"} -> {f.pools[source]}
    [] OTHER -> {{}}

HandedOver(f, filter, random) ==
  [mode |-> f.mode, source |-> f.source, count |-> f.count, random |-> random,
   shuffle |-> f.shuffle, reveal |-> f.reveal, limit |-> f.limit, filter |-> filter,
   retake |-> FALSE]

\* handleStart: weak questions are never shuffled; an empty source only shows a toast.
Start ==
  /\ OnForm(FALSE)
  /\ LET f == form[1] IN
     \E filter \in FiltersOf(f, f.source) :
       IF f.source # "all" /\ filter = {}
         THEN UNCHANGED <<handoff, hash, queued, rewritten>>
         ELSE /\ handoff' = <<HandedOver(f, filter, f.random /\ f.source # "weak")>>
              /\ Navigate("take")
  /\ UNCHANGED <<form, waits, results, begun, asked, placeVars>>

Cancel ==
  /\ OnForm(FALSE)
  /\ Navigate("home")
  /\ UNCHANGED <<form, waits, paperVars, placeVars>>

(***************************************************************************)
(* Phone.                                                                  *)
(***************************************************************************)
\* The form starts from what is still stored from the last time.
Restored(pools) ==
  LET h == IF handoff # <<>> THEN handoff[1]
           ELSE [mode |-> "training", source |-> "all", count |-> Smaller(20, Total),
                 random |-> TRUE, shuffle |-> FALSE, reveal |-> FALSE, limit |-> 0] IN
  [narrow |-> TRUE, mode |-> h.mode, source |-> h.source,
   count |-> Larger(1, Smaller(Total, h.count)), top |-> Total, random |-> h.random,
   shuffle |-> h.shuffle, reveal |-> h.reveal, limit |-> Smaller(600, h.limit), cap |-> 600,
   pools |-> pools]

\* The token of the module drops renderings that were overtaken by another one of this screen;
\* otherwise the form is painted, also over another screen.
PhoneTestArrives ==
  \E w \in waits, pools \in Pools :
    /\ w.narrow
    /\ waits' = waits \ {w}
    /\ IF w.fresh THEN form' = <<Restored(pools)>> /\ Paint("pretest", TRUE)
                  ELSE UNCHANGED <<form, shown>>
    /\ UNCHANGED <<paperVars, hash, queued, rewritten, page, imports, mounted, mobile, signedIn>>

PhoneTestMissing ==
  \E w \in waits :
    /\ w.narrow
    /\ waits' = waits \ {w}
    /\ IF w.fresh THEN Navigate("404") ELSE Stay
    /\ UNCHANGED <<form, paperVars, placeVars>>

\* A mutant: an exam keeps revealing what was set before.
OnlyTime(f) == IF Strict(f.mode) /\ f.limit = 0 THEN [f EXCEPT !.limit = 20] ELSE f

\* applyMode, and the pin of the start button.
Pinned(f) ==
  LET g == IF Strict(f.mode) /\ f.limit = 0 THEN [f EXCEPT !.limit = 20] ELSE f IN
  IF f.mode = "exam" THEN [g EXCEPT !.random = TRUE, !.reveal = FALSE] ELSE g

PhoneChooseMode ==
  /\ OnForm(TRUE)
  /\ \E m \in {"training", "timed", "exam"} : form' = <<Pinned([form[1] EXCEPT !.mode = m])>>
  /\ Chosen

PhoneChooseCount ==
  /\ OnForm(TRUE)
  /\ \E n \in 1..Total : form' = <<[form[1] EXCEPT !.count = n]>>
  /\ Chosen

\* Flagged questions have a chip but no list of ids.
PhoneChooseSource ==
  /\ OnForm(TRUE)
  /\ \E source \in {"all", "weak", "new", "flag"} :
       /\ source = "weak" => form[1].pools["weak"] # {}
       /\ source = "new" => form[1].pools["untaken"] # {}
       /\ form' = <<[form[1] EXCEPT !.source = source, !.random = @ /\ source # "weak"]>>
  /\ Chosen

PhoneCap(mode) == CASE mode = "exam" -> 180 [] mode = "timed" -> 300 [] OTHER -> 600

\* Chips, typed minutes, or a cleared field.
PhoneChooseTime ==
  /\ OnForm(TRUE)
  /\ LET f == form[1] IN
     \E v \in (IF f.mode = "training" THEN Presets ELSE Presets \ {0})
               \cup {Larger(1, Smaller(PhoneCap(f.mode), c)) : c \in Customs}
               \cup {IF f.mode = "training" THEN 0 ELSE 5} :
       form' = <<[f EXCEPT !.limit = v]>>
  /\ Chosen

PhoneToggle ==
  /\ OnForm(TRUE)
  /\ LET f == form[1] IN
     \/ f.mode # "exam" /\ f.source # "weak" /\ form' = <<[f EXCEPT !.random = ~@]>>
     \/ f.mode # "exam" /\ form' = <<[f EXCEPT !.reveal = ~@]>>
     \/ form' = <<[f EXCEPT !.shuffle = ~@]>>
  /\ Chosen

PhoneStart ==
  /\ OnForm(TRUE)
  /\ LET f == Pinned(form[1])
         source == IF f.source = "new" THEN "untaken"
                   ELSE IF f.source = "weak" THEN "weak" ELSE "all" IN
     \E filter \in FiltersOf(f, source) :
       IF source # "all" /\ filter = {}
         THEN /\ form' = <<f>>
              /\ UNCHANGED <<handoff, hash, queued, rewritten>>
         ELSE LET g == [f EXCEPT !.random = @ /\ f.source # "weak"] IN
              /\ form' = <<g>>
              /\ handoff' = <<HandedOver(g, filter, g.random)>>
              /\ Navigate("take")
  /\ UNCHANGED <<waits, results, begun, asked, placeVars>>

PretestStep ==
  \/ TestArrives \/ TestRefused \/ ChooseMode \/ ChooseCount \/ ChooseSource \/ ChooseTime
  \/ Toggle \/ Start \/ Cancel
  \/ PhoneTestArrives \/ PhoneTestMissing \/ PhoneChooseMode \/ PhoneChooseCount
  \/ PhoneChooseSource \/ PhoneChooseTime \/ PhoneToggle \/ PhoneStart

(***************************************************************************)
(* Properties                                                              *)
(***************************************************************************)

\* Whatever was clicked in whatever order, and on whichever of the two screens, what is handed
\* over keeps the promises of its mode and source: an exam reveals nothing and is shuffled, but
\* for one of the weak questions; a timed mode has a limit; weak questions are not more than were
\* asked for, and outside an exam they come weakest first.
KeepsMode(h) ==
  /\ h.mode = "exam" => ~h.reveal /\ (h.random \/ h.source = "weak")
  /\ Strict(h.mode) => h.limit > 0
  /\ h.count \in 1..Total
  /\ h.source = "weak" => Cardinality(h.filter) <= h.count /\ (h.mode = "exam" \/ ~h.random)

HandoffKeepsMode == \A h \in Range(handoff) : KeepsMode(h)

\* The server's rule for the settings of a start (_validate_mode_settings), in minutes.
Asks(h) == Smaller(h.count, Cardinality(Filtered(h)))
Accepted(h) ==
  /\ Strict(h.mode) => h.limit \in 1..Larger(1, IF h.mode = "exam" THEN Asks(h) ELSE 2 * Asks(h))
  /\ h.mode = "exam" => ~h.reveal /\ h.random

\* What the server says of its rule, that it "mirrors what pre-test.js + taking.js enforce
\* visually": it accepts every exam that the pre-test hands over.  It does not hold.
ExamAccepted == \A h \in Range(handoff) : h.mode = "exam" => Accepted(h)
=============================================================================
