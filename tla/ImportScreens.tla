----------------------------- MODULE ImportScreens -----------------------------
(***************************************************************************)
(* The import wizard, desktop and phone: a .docx is uploaded and its test     *)
(* previewed, or an empty collection is created.  The test exists on the       *)
(* server as soon as the upload is answered; cancelling deletes it.  The        *)
(* desktop keeps the wizard in the module; on the phone every rendering has     *)
(* its own, and one that was overtaken paints itself again when its answer      *)
(* comes.                                                                       *)
(***************************************************************************)
EXTENDS Router

CONSTANTS
  MaxMade,  \* bound: tests made by the wizards
  MaxCalls  \* bound: requests of the wizards under way

ASSUME WizardBounds == MaxMade \in Nat \ {0} /\ MaxCalls \in Nat \ {0}

VARIABLES
  wizard,  \* per breakpoint (TRUE: the phone), the wizard on screen
  calls,   \* requests under way; own: the wizard on screen sent it; mode: that of the sender
  made,    \* how many tests were made: the id of each is its number
  kept     \* the tests that the server has

wizardVars == <<wizard, calls, made, kept>>

Tests == 1..MaxMade
WizardModes == {"import", "create"}
Wizards == [mode: WizardModes, step: 1..4, file: BOOLEAN, title: BOOLEAN, uploading: BOOLEAN,
            result: 0..MaxMade, crossed: BOOLEAN]
Calls == [id: 1..MaxCalls, kind: {"upload", "create", "cancel"}, narrow: BOOLEAN, own: BOOLEAN,
          mode: WizardModes, test: 0..MaxMade]
Waiting(n) == \E c \in calls : c.narrow = n

WizardTypeOK ==
  /\ wizard \in [BOOLEAN -> Wizards]
  /\ calls \subseteq Calls
  /\ made \in 0..MaxMade /\ kept \subseteq 1..made

\* crossed: history, the wizard was opened or its mode changed while a request was under way.
Fresh(mode, crossed) ==
  [mode |-> mode, step |-> 1, file |-> FALSE, title |-> FALSE, uploading |-> FALSE,
   result |-> 0, crossed |-> crossed]

WizardInit ==
  /\ wizard = [n \in BOOLEAN |-> Fresh("import", FALSE)]
  /\ calls = {}
  /\ made = 0 /\ kept = {}

\* Opened with or without mode=create in the address.
WizardRender(n) ==
  /\ \E mode \in WizardModes :
       wizard' = [wizard EXCEPT ![n] = Fresh(mode, @.crossed \/ Waiting(n))]
  /\ calls' = {IF c.narrow = n /\ c.own
                 THEN [c EXCEPT !.own = FALSE, !.mode = wizard[n].mode] ELSE c : c \in calls}
  /\ UNCHANGED <<made, kept>>

(***************************************************************************)
(* What the user does.                                                     *)
(***************************************************************************)
At(n, mode, step) ==
  On("import", n) /\ wizard[n].mode = mode /\ wizard[n].step = step

Becomes(n, w) ==
  /\ wizard' = [wizard EXCEPT ![n] = w]
  /\ UNCHANGED <<calls, made, kept, routerVars>>

Sent(n, kind, w) ==
  /\ \E id \in 1..MaxCalls :
       /\ \A c \in calls : c.id # id
       /\ calls' = calls \cup {[id |-> id, kind |-> kind, narrow |-> n, own |-> TRUE,
                                mode |-> w.mode, test |-> w.result]}
  /\ wizard' = [wizard EXCEPT ![n] = w]
  /\ UNCHANGED <<made, kept, routerVars>>

\* The toggle is only there at the first step, but a creation may be under way by then.  The
\* phone also forgets an upload.
ToggleMode(n) ==
  /\ On("import", n) /\ wizard[n].step = 1
  /\ LET other == IF wizard[n].mode = "import" THEN "create" ELSE "import" IN
     Becomes(n, [wizard[n] EXCEPT !.mode = other, !.file = FALSE, !.result = 0,
                                  !.uploading = @ /\ ~n, !.crossed = @ \/ Waiting(n)])

\* A .docx that is not too large; it names the test unless the user did.
ChooseFile(n) ==
  /\ At(n, "import", 1)
  /\ Becomes(n, [wizard[n] EXCEPT !.file = TRUE, !.title = TRUE])

\* The phone can put the file back.
ReplaceFile ==
  /\ At(TRUE, "import", 1) /\ wizard[TRUE].file
  /\ Becomes(TRUE, [wizard[TRUE] EXCEPT !.file = FALSE])

NameTest(n) ==
  /\ On("import", n) /\ wizard[n].step = 1
  /\ \E title \in BOOLEAN : Becomes(n, [wizard[n] EXCEPT !.title = title])

Upload(n) ==
  /\ At(n, "import", 1) /\ wizard[n].file /\ ~wizard[n].uploading
  /\ Sent(n, "upload", [wizard[n] EXCEPT !.uploading = TRUE, !.step = 2])

\* The phone does not guard against a second tap; on the desktop any chip of the form arms the
\* button again.
CreateTest(n) ==
  /\ At(n, "create", 1) /\ wizard[n].title
  /\ Sent(n, "create", wizard[n])

\* The desktop's button is dead after a click.
CancelImport(n) ==
  /\ At(n, "import", 3)
  /\ n \/ ~\E c \in calls : c.own /\ ~c.narrow /\ c.kind = "cancel"
  /\ Sent(n, "cancel", wizard[n])

\* Nothing keeps the user from confirming what is being deleted.
ConfirmImport(n) ==
  /\ At(n, "import", 3)
  /\ Becomes(n, [wizard[n] EXCEPT !.step = 4])

Done(n) == At(n, "import", 4) \/ At(n, "create", 2)

OpenTest(n) ==
  /\ Done(n)
  /\ Navigate(IF wizard[n].mode = "create" THEN "edit" ELSE "home")
  /\ UNCHANGED <<wizardVars, placeVars>>

ImportAnother(n) ==
  /\ Done(n) /\ (n => wizard[n].mode = "import")
  /\ Becomes(n, Fresh(wizard[n].mode, wizard[n].crossed))

(***************************************************************************)
(* What the server answers.                                                *)
(***************************************************************************)
\* The wizard that goes on with the answer: on the phone the one that sent the request, with the
\* mode it was left in; on the desktop the one of the module.
Continues(c) ==
  IF c.narrow /\ ~c.own
    THEN [Fresh(c.mode, TRUE) EXCEPT !.step = IF c.kind = "upload" THEN 2 ELSE 1,
                                     !.file = c.kind # "create", !.title = TRUE]
    ELSE wizard[c.narrow]

\* It is painted: by the phone into the root, by the desktop into its main element.
Painted(c, w) ==
  /\ wizard' = [wizard EXCEPT ![c.narrow] = w]
  /\ IF c.narrow THEN Paint("import", TRUE) ELSE UNCHANGED shown
  /\ UNCHANGED <<hash, queued, rewritten, page, imports, mounted, mobile, signedIn>>

Answered(c) ==
  /\ c \in calls
  /\ calls' = IF c.narrow /\ ~c.own
                THEN {[d EXCEPT !.own = @ /\ ~d.narrow] : d \in calls \ {c}}
                ELSE calls \ {c}

Uploaded(c) ==
  /\ c.kind = "upload"
  /\ Answered(c)
  /\ made < MaxMade /\ made' = made + 1 /\ kept' = kept \cup {made'}
  /\ Painted(c, [Continues(c) EXCEPT !.uploading = FALSE, !.step = 3, !.result = made'])

\* A mutant: the wizard stays at the progress of an upload that has failed.
OnlyIdle(w) == [w EXCEPT !.uploading = FALSE]

\* Back to the form.
AfterFailure(w) == [w EXCEPT !.uploading = FALSE, !.step = 1]

\* Refused, or the answer was lost and the test is there.
UploadFailed(c) ==
  /\ c.kind = "upload"
  /\ Answered(c)
  /\ \/ UNCHANGED <<made, kept>>
     \/ made < MaxMade /\ made' = made + 1 /\ kept' = kept \cup {made'}
  /\ Painted(c, AfterFailure(Continues(c)))

\* Whatever the wizard shows by now, step 2 of a creation is its end.
Created(c) ==
  /\ c.kind = "create"
  /\ Answered(c)
  /\ made < MaxMade /\ made' = made + 1 /\ kept' = kept \cup {made'}
  /\ Painted(c, [Continues(c) EXCEPT !.step = 2, !.result = made'])

\* A message; the form stays.
CreateFailed(c) ==
  /\ c.kind = "create"
  /\ Answered(c)
  /\ UNCHANGED <<wizard, made, kept, routerVars>>

\* The test is deleted, or that failed; the wizard starts over in either case.
Cancelled(c) ==
  /\ c.kind = "cancel"
  /\ Answered(c)
  /\ kept' \in {kept, kept \ {c.test}}
  /\ UNCHANGED made
  /\ LET w == [Continues(c) EXCEPT !.step = 1, !.result = 0] IN
     Painted(c, IF c.narrow THEN w ELSE [w EXCEPT !.file = FALSE, !.title = FALSE])

WizardStep ==
  \/ \E n \in BOOLEAN :
       \/ ToggleMode(n) \/ ChooseFile(n) \/ NameTest(n) \/ Upload(n) \/ CreateTest(n)
       \/ CancelImport(n) \/ ConfirmImport(n) \/ OpenTest(n) \/ ImportAnother(n)
  \/ ReplaceFile
  \/ \E c \in calls :
       Uploaded(c) \/ UploadFailed(c) \/ Created(c) \/ CreateFailed(c) \/ Cancelled(c)

(***************************************************************************)
(* Properties                                                              *)
(***************************************************************************)

\* The wizard tells the truth, unless it was opened again or its mode changed while a request
\* was under way: the progress is that of an upload, and the preview and the success card are
\* those of a test that the server has (doUpload, doCreate, the cancel button).
WizardTruthful ==
  \A n \in BOOLEAN :
    LET w == wizard[n] IN
    ~w.crossed =>
      /\ (w.mode = "import" /\ w.step = 2)
           => w.uploading /\ \E c \in calls : c.narrow = n /\ c.kind = "upload" /\ c.own
      /\ (w.step > 2 \/ (w.mode = "create" /\ w.step = 2)) => w.result \in kept
=============================================================================
