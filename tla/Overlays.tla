------------------------------- MODULE Overlays -------------------------------
(***************************************************************************)
(* What floats above the screens and survives a route: the search palette,    *)
(* the keyboard cheatsheet and the g-chords, the offline banner, the badges    *)
(* of the shell, the confirmation dialog and the toasts.                       *)
(***************************************************************************)
EXTENDS Router

CONSTANTS
  MaxTests,   \* bound: tests that the palette can list
  Commands,   \* the pages of the palette's commands, in the order shown
  NCommands,  \* how many there are
  Alone       \* bound: an overlay opens only when no other is there

ASSUME PaletteAssumption ==
  /\ MaxTests \in Nat /\ NCommands \in Nat /\ Alone \in BOOLEAN
  /\ Commands \in [0..(NCommands - 1) -> Private]

VARIABLES
  palette,  \* the search palette: known tests, typed query, what it lists, active row
  loads,    \* bound to 2: listTests requests of the palette under way
  sheet,    \* the cheatsheet is open
  chord,    \* a g was typed and its 1200 ms are not over
  online,   \* navigator.onLine
  banner,   \* the banner in the page: "none", "offline" or "flash"
  flash,    \* timers that will remove the banner
  badge,    \* the badge timer of the shell runs
  dialog,   \* the confirmation dialog: what it needs and what was typed
  toast     \* one toast: "none", "shown" or "leaving"; acted counts its action

overlayVars == <<palette, loads, sheet, chord, online, banner, flash, badge, dialog, toast>>

Closed(known) ==
  [known |-> known, open |-> FALSE, typed |-> FALSE, tests |-> 0, commands |-> 0, active |-> 0]
NoDialog == [open |-> FALSE, text |-> FALSE, matches |-> FALSE]

OverlayTypeOK ==
  /\ palette \in [known: 0..MaxTests, open: BOOLEAN, typed: BOOLEAN, tests: 0..MaxTests,
                  commands: 0..NCommands, active: 0..(MaxTests + NCommands)]
  /\ loads \in 0..2
  /\ {sheet, chord, online, badge} \subseteq BOOLEAN
  /\ banner \in {"none", "offline", "flash"}
  /\ flash \in 0..2
  /\ dialog \in [open: BOOLEAN, text: BOOLEAN, matches: BOOLEAN]
  /\ toast \in [state: {"none", "shown", "leaving"}, action: BOOLEAN]

Clear ==
  Alone => ~palette.open /\ ~sheet /\ ~chord /\ ~dialog.open /\ toast.state = "none"

OverlayInit ==
  /\ palette = Closed(0)
  /\ loads = 0
  /\ sheet = FALSE
  /\ chord = FALSE
  /\ online \in BOOLEAN
  /\ banner = IF online THEN "none" ELSE "offline"   \* installOfflineBanner
  /\ flash = 0
  /\ badge = FALSE
  /\ dialog = NoDialog
  /\ toast = [state |-> "none", action |-> FALSE]

(***************************************************************************)
(* Search palette.  Without a query all commands are listed; a query lists the *)
(* tests and commands that contain it, the tests first.                        *)
(***************************************************************************)
Rows(p) == p.tests + p.commands

\* _render: an active row behind the end of the list becomes the first one.
Rendered(p) == IF p.active >= Rows(p) THEN [p EXCEPT !.active = 0] ELSE p

\* What a query may find among the known tests and the commands.
Listing(p, typed) ==
  IF typed
    THEN {[p EXCEPT !.typed = TRUE, !.tests = n, !.commands = c]
            : n \in 0..p.known, c \in 0..NCommands}
    ELSE {[p EXCEPT !.typed = FALSE, !.tests = 0, !.commands = NCommands]}

ClosePalette == palette' = Closed(palette.known)

OpenPalette ==
  /\ IF palette.open
       THEN ClosePalette /\ UNCHANGED loads
       ELSE /\ Clear
            /\ loads < 2
            /\ loads' = loads + 1
            /\ \E p \in Listing([palette EXCEPT !.open = TRUE], palette.typed) :
                 palette' = Rendered(p)
  /\ UNCHANGED <<sheet, chord, online, banner, flash, badge, dialog, toast>>

\* The list of tests arrives, or fails: it is kept and shown even when the palette was
\* closed and opened again meanwhile.
TestsListed ==
  /\ loads > 0
  /\ loads' = loads - 1
  /\ \E n \in 0..MaxTests :
       LET known == [palette EXCEPT !.known = n] IN
       IF palette.open
         THEN \E p \in Listing(known, palette.typed) : palette' = Rendered(p)
         ELSE palette' = known
  /\ UNCHANGED <<sheet, chord, online, banner, flash, badge, dialog, toast>>

Type ==
  /\ palette.open
  /\ \E typed \in BOOLEAN :
       \E p \in Listing(palette, typed) : palette' = Rendered([p EXCEPT !.active = 0])
  /\ UNCHANGED <<loads, sheet, chord, online, banner, flash, badge, dialog, toast>>

\* Arrow keys wrap around; the mouse makes the row under it the active one.
Move ==
  /\ palette.open
  /\ Rows(palette) > 0
  /\ palette' \in {[palette EXCEPT !.active = i] : i \in 0..(Rows(palette) - 1)}
  /\ UNCHANGED <<loads, sheet, chord, online, banner, flash, badge, dialog, toast>>

\* Enter or a click: the row is looked up in the page, so nothing happens without one.  With
\* a query the commands shown are some of all commands, in their order.  Tests and commands
\* differ in parameters of their page too.
Choose ==
  /\ palette.open
  /\ palette.active < Rows(palette)
  /\ \E other \in BOOLEAN :
       IF palette.active < palette.tests
         THEN Go("collection", other)
         ELSE \E c \in 0..(NCommands - 1) :
                /\ palette.typed \/ c = palette.active
                /\ Go(Commands[c], other)
  /\ ClosePalette
  /\ UNCHANGED <<loads, sheet, chord, online, banner, flash, badge, dialog, toast, placeVars>>

Dismiss ==
  /\ palette.open
  /\ ClosePalette
  /\ UNCHANGED <<loads, sheet, chord, online, banner, flash, badge, dialog, toast>>

(***************************************************************************)
(* Hotkeys outside inputs.  The closing cheatsheet leaves the page 150 ms      *)
(* later; that instant is left out.                                            *)
(***************************************************************************)
ChordPages == {"home", "stats", "notifications", "import", "profile", "settings"}

QuestionMark ==
  /\ ~palette.open
  /\ sheet \/ Clear
  /\ sheet' = ~sheet
  /\ UNCHANGED <<palette, loads, chord, online, banner, flash, badge, dialog, toast>>

Escape ==
  /\ ~palette.open
  /\ sheet' = FALSE
  /\ chord' = FALSE
  /\ UNCHANGED <<palette, loads, online, banner, flash, badge, dialog, toast>>

PressG ==
  /\ ~palette.open
  /\ ~chord /\ Clear
  /\ chord' = TRUE
  /\ UNCHANGED <<palette, loads, sheet, online, banner, flash, badge, dialog, toast>>

\* Any second key ends the chord; a known one navigates.
SecondKey ==
  /\ ~palette.open
  /\ chord
  /\ chord' = FALSE
  /\ Stay \/ \E p \in ChordPages \cap Links : Navigate(p)
  /\ UNCHANGED <<palette, loads, sheet, online, banner, flash, badge, dialog, toast,
                 placeVars>>

ChordTimeout ==
  /\ chord
  /\ chord' = FALSE
  /\ UNCHANGED <<palette, loads, sheet, online, banner, flash, badge, dialog, toast>>

(***************************************************************************)
(* Offline banner.                                                         *)
(***************************************************************************)
\* A mutant: going offline leaves the timer of the flash running.
KeepsTimer ==
  /\ banner' = "offline"
  /\ UNCHANGED flash

ShowOfflineBanner ==
  /\ banner' = "offline"
  /\ flash' = 0

GoesOffline ==
  /\ online
  /\ online' = FALSE
  /\ ShowOfflineBanner
  /\ UNCHANGED <<palette, loads, sheet, chord, badge, dialog, toast>>

\* showOnlineFlash
GoesOnline ==
  /\ ~online
  /\ online' = TRUE
  /\ IF banner = "none" THEN UNCHANGED <<banner, flash>>
     ELSE banner' = "flash" /\ flash < 2 /\ flash' = flash + 1
  /\ UNCHANGED <<palette, loads, sheet, chord, badge, dialog, toast>>

FlashOver ==
  /\ flash > 0
  /\ flash' = flash - 1
  /\ banner' = "none"
  /\ UNCHANGED <<palette, loads, sheet, chord, online, badge, dialog, toast>>

(***************************************************************************)
(* The badge timer.  Every desktop screen with a shell builds it anew, because *)
(* the router has emptied the root; nobody calls unmountAppShell, so the timer  *)
(* also runs on screens without a shell.                                       *)
(***************************************************************************)
BuildShell == badge' = TRUE

(***************************************************************************)
(* Confirmation dialog and toasts.                                         *)
(***************************************************************************)
AskToConfirm(text) ==
  /\ ~dialog.open /\ Clear
  /\ dialog' = [open |-> TRUE, text |-> text, matches |-> FALSE]
  /\ UNCHANGED <<palette, loads, sheet, chord, online, banner, flash, badge, toast>>

TypeToConfirm ==
  /\ dialog.open
  /\ dialog.text
  /\ dialog' = [dialog EXCEPT !.matches = ~@]
  /\ UNCHANGED <<palette, loads, sheet, chord, online, banner, flash, badge, toast>>

\* The button and Enter need the text; cancel, Escape and the backdrop do not.
Answer(yes) ==
  /\ dialog.open
  /\ yes => ~dialog.text \/ dialog.matches
  /\ dialog' = NoDialog
  /\ UNCHANGED <<palette, loads, sheet, chord, online, banner, flash, badge, toast>>

ShowToast(action) ==
  /\ toast.state = "none" /\ Clear
  /\ toast' = [state |-> "shown", action |-> action]
  /\ UNCHANGED <<palette, loads, sheet, chord, online, banner, flash, badge, dialog>>

\* The action may be used again while the toast fades: it is disarmed by nothing.
ToastAction ==
  /\ toast.state # "none"
  /\ toast.action
  /\ toast' = [toast EXCEPT !.state = "leaving"]
  /\ UNCHANGED <<palette, loads, sheet, chord, online, banner, flash, badge, dialog>>

ToastTimeout ==
  /\ toast.state = "shown"
  /\ toast' = [toast EXCEPT !.state = "leaving"]
  /\ UNCHANGED <<palette, loads, sheet, chord, online, banner, flash, badge, dialog>>

ToastGone ==
  /\ toast.state = "leaving"
  /\ toast' = [toast EXCEPT !.state = "none"]
  /\ UNCHANGED <<palette, loads, sheet, chord, online, banner, flash, badge, dialog>>

OverlayStep ==
  \/ /\ \/ OpenPalette \/ TestsListed \/ Type \/ Move \/ Dismiss
        \/ QuestionMark \/ Escape \/ PressG \/ ChordTimeout
        \/ GoesOffline \/ GoesOnline \/ FlashOver
        \/ \E b \in BOOLEAN : AskToConfirm(b) \/ Answer(b) \/ ShowToast(b)
        \/ TypeToConfirm \/ ToastAction \/ ToastTimeout \/ ToastGone
     /\ UNCHANGED routerVars
  \/ Choose
  \/ SecondKey

(***************************************************************************)
(* Properties                                                              *)
(***************************************************************************)

\* Offline is announced for as long as it lasts: the timer of an earlier flash does not take the
\* banner away, however often the connection comes and goes (showOfflineBanner clears it).
OfflineAnnounced == ~online => banner = "offline"
=============================================================================
