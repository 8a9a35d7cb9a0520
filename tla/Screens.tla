-------------------------------- MODULE Screens --------------------------------
(***************************************************************************)
(* The client around the taking of a test: the router, what floats above the   *)
(* screens, and the screens that import, edit, list and decide.  It mounts a     *)
(* screen; what a screen started may end after the user has left it.            *)
(***************************************************************************)
EXTENDS Overlays, ImportScreens, QuestionEditors, CollectionScreens, InboxScreens, PeopleScreens

CONSTANT Tours  \* bound: what one behaviour visits: screens and breakpoints, imports under way,
                \* components that the user works with, ownership and questions of the test,
                \* requests that the user sends from the editors

VARIABLE tour

Parts == {"router", "overlays", "wizard", "desk", "phone", "options", "pictures", "lists",
          "settings", "requests", "people"}

ASSUME ScreensAssumption ==
  \A t \in Tours :
    /\ t.pages \subseteq Links /\ t.views \subseteq BOOLEAN /\ t.parts \subseteq Parts
    /\ t.imports \in 1..MaxImports /\ t.sends \in 0..MaxSent /\ t.ids \subseteq 1..MaxIds

screensVars == <<routerVars, overlayVars, wizardVars, editorVars, collectionVars, inboxVars, peopleVars,
                 tour>>

ScreensInit ==
  /\ tour \in Tours
  /\ RouterInit /\ hash \in tour.pages /\ mobile \in tour.views
  /\ signedIn \/ "router" \in tour.parts
  /\ OverlayInit /\ ("overlays" \in tour.parts \/ online)
  /\ WizardInit
  /\ EditorInit /\ owner /\ DOMAIN bank = tour.ids
  /\ "pictures" \in tour.parts \/ stored = "never"
  /\ CollectionInit
  /\ totals["shared"] = 1
  /\ InboxInit /\ PeopleInit
  /\ ("lists" \in tour.parts /\ "settings" \notin tour.parts) \/ \A f \in Filters : totals[f] = 1

\* The desktop's screens inside the shell.
ShellScreens == Private \ {"discover", "take", "results", "test"}

\* Which screen's render runs.
Opens(p, narrow) ==
  /\ IF p \in ShellScreens /\ ~narrow THEN BuildShell ELSE UNCHANGED badge
  /\ IF p = "import" /\ "wizard" \in tour.parts THEN WizardRender(narrow) ELSE UNCHANGED wizardVars
  /\ IF p = "question" /\ narrow THEN QuestionScreen
     ELSE LeaveEditor /\ UNCHANGED <<owner, bank, stored, phone, sent, excused>>
  /\ IF p = "home" /\ "lists" \in tour.parts THEN HomeScreen(narrow)
     ELSE IF p = "edit" /\ "settings" \in tour.parts THEN SettingsScreen(narrow)
     ELSE LeaveSettings /\ UNCHANGED <<totals, lists, pane, saved>>
  /\ IF p = "requests" /\ "requests" \in tour.parts THEN InboxScreen(narrow)
     ELSE LeaveInbox /\ UNCHANGED <<verdicts, wording>>
  /\ IF p = "collection" /\ narrow /\ "people" \in tour.parts THEN CollectionPage
     ELSE LeavePeople /\ UNCHANGED sharing

Mount ==
  \E i \in imports :
    /\ ModuleLoaded(i)
    /\ IF Mounts(i) THEN Opens(ScreenOf(i), i.narrow)
       ELSE UNCHANGED <<badge, wizardVars, editorVars, collectionVars, inboxVars, peopleVars>>
    /\ UNCHANGED <<palette, loads, sheet, chord, online, banner, flash, dialog, toast>>

Route ==
  /\ \/ HashChange
     \/ (~mobile) \in tour.views /\ BreakpointChange
     \/ /\ "router" \in tour.parts
        /\ LocaleChange \/ SessionEnds \/ \E i \in imports : ModuleFailed(i)
     \/ \E p \in tour.pages : Follow(p)
  /\ IF shown' = shown THEN UNCHANGED <<editor, asks, chips, setup, gets, inbox, folder, posts, people, errands>>
     ELSE LeaveEditor /\ LeaveSettings /\ LeaveInbox /\ LeavePeople
  /\ UNCHANGED <<overlayVars, wizardVars, owner, bank, stored, phone, sent, excused,
                 totals, lists, pane, saved, verdicts, wording, sharing>>

ScreensNext ==
  /\ \/ Mount
     \/ Route
     \/ /\ "overlays" \in tour.parts /\ OverlayStep
        /\ UNCHANGED <<wizardVars, editorVars, collectionVars, inboxVars, peopleVars>>
     \/ /\ "wizard" \in tour.parts /\ WizardStep
        /\ UNCHANGED <<overlayVars, editorVars, collectionVars, inboxVars, peopleVars>>
     \/ /\ \/ "desk" \in tour.parts /\ DeskStep
           \/ "phone" \in tour.parts /\ PhoneStep
           \/ "options" \in tour.parts /\ OptionStep
           \/ "pictures" \in tour.parts /\ PictureStep
           \/ AnswerStep
        /\ UNCHANGED <<overlayVars, wizardVars, collectionVars, inboxVars, peopleVars>>
     \/ /\ \/ "lists" \in tour.parts /\ ListStep
           \/ "settings" \in tour.parts /\ SettingsStep
        /\ UNCHANGED <<overlayVars, wizardVars, editorVars, inboxVars, peopleVars>>
     \/ /\ "requests" \in tour.parts /\ InboxStep
        /\ UNCHANGED <<overlayVars, wizardVars, editorVars, collectionVars, peopleVars>>
     \/ /\ "people" \in tour.parts /\ PeopleStep
        /\ UNCHANGED <<overlayVars, wizardVars, editorVars, collectionVars, inboxVars>>
  /\ Cardinality(imports') <= tour.imports
  /\ sent' <= tour.sends
  /\ UNCHANGED tour

ScreensSpec == ScreensInit /\ [][ScreensNext]_screensVars

\* The parts of the state have their types.
ScreensTypeOK ==
  /\ RouterTypeOK /\ OverlayTypeOK /\ WizardTypeOK
  /\ EditorTypeOK /\ CollectionTypeOK /\ InboxTypeOK /\ PeopleTypeOK

\* The owner of a test decides on what is there, and sees who can read the test: of his pages
\* for change requests and for sharing.
OwnerPagesTrue == InboxTrue /\ PeopleTrue
=============================================================================
