--------------------------- MODULE QuestionEditors ---------------------------
(***************************************************************************)
(* The two editors of a test's questions: the one in the desktop's test page  *)
(* (question-editor.js with its materials panel) and the question screen of    *)
(* the phone.  Both work on a copy of the test and send whole questions.  The  *)
(* desktop writes a picture as a token, which it resolves with its list of the *)
(* materials when it saves; the phone keeps nothing but text.  One material    *)
(* stands for all.                                                             *)
(***************************************************************************)
EXTENDS Router, Sequences
Seqs == INSTANCE SequencesExt
Sets == INSTANCE FiniteSetsExt

CONSTANTS
  MaxIds,   \* bound: question ids
  Limit,    \* options up to which an editor adds: 6 on the desktop (FALSE), 8 on the phone
  Unkeyed,  \* questions that came without a correct option
  MaxAsks,  \* bound: requests of the editors under way
  MaxSent   \* bound: requests that the user sends

ASSUME EditorBounds ==
  /\ MaxIds \in Nat \ {0} /\ MaxAsks \in Nat \ {0} /\ MaxSent \in Nat
  /\ Limit \in [BOOLEAN -> Nat \ {0, 1}]
  /\ Unkeyed \subseteq 1..MaxIds

VARIABLES
  owner,   \* the test is the user's own
  bank,    \* the questions that the server has
  stored,  \* the material on the server: "never", "stored" or "deleted"
  editor,  \* the desktop's editor
  phone,   \* the phone's question screen
  asks,    \* requests under way
  sent,    \* how many the user has sent
  excused  \* history: questions saved while the list of materials was missing or doubtful

editorVars == <<owner, bank, stored, editor, phone, asks, sent, excused>>

\* Which options are correct; the picture of the text: an image with its file, an image with a
\* bare id instead, or a token that the phone has made part of the text.
Options == UNION {[1..n -> BOOLEAN] : n \in 2..(Limit[FALSE] + Limit[TRUE])}
Question == [options: Options, pic: {"none", "linked", "raw", "text"}]
Blank == [options |-> <<TRUE, FALSE>>, pic |-> "none"]
Drafts == [options: Options, token: BOOLEAN, proposal: BOOLEAN]

\* form: the edit form is in the page, with the token in its field or not; known: the list of
\* materials names the material; lapse: history, a list failed,
\* two were under way or the panel knew more;
\* panel: 0 closed, otherwise how much is left of what opened the materials panel.
NoEditor == [open |-> FALSE, view |-> <<>>, sel |-> 0, draft |-> <<>>, form |-> FALSE,
             field |-> FALSE, known |-> FALSE, lapse |-> FALSE, panel |-> 0]
NoPhone == [open |-> FALSE, q |-> 1, view |-> Blank, draft |-> <<>>]

\* to: how much is left of the sender of a request: its tab, its editor, its draft, its field.
Asks == [id: 1..MaxAsks, narrow: BOOLEAN, to: 0..4, q: 0..MaxIds, new: Question,
         kind: {"list", "save", "propose", "add", "delete", "reload", "upload", "discard", "load"},
         then: {"nothing", "insert", "redraw", "reload"}]

EditorTypeOK ==
  /\ owner \in BOOLEAN
  /\ DOMAIN bank \subseteq 1..MaxIds /\ \A q \in DOMAIN bank : bank[q] \in Question
  /\ stored \in {"never", "stored", "deleted"}
  /\ \A d \in {editor.draft, phone.draft} : Len(d) <= 1 /\ \A i \in DOMAIN d : d[i] \in Drafts
  /\ editor.sel \in 0..MaxIds /\ editor.panel \in 0..4 /\ phone.q \in 1..MaxIds
  /\ \A a \in asks : [x \in DOMAIN a \ {"was"} |-> a[x]] \in Asks
  /\ sent \in 0..MaxSent /\ excused \subseteq 1..MaxIds

Keyed(o) == {i \in DOMAIN o : o[i]}

EditorInit ==
  /\ owner \in BOOLEAN
  /\ \E ids \in SUBSET (1..MaxIds), pic \in {"none", "linked"} :
       /\ ids # {}
       /\ bank = [q \in ids |-> [Blank EXCEPT !.options[1] = (q \notin Unkeyed), !.pic = pic]]
       /\ stored = IF pic = "none" THEN "never" ELSE "stored"
  /\ editor = NoEditor /\ phone = NoPhone
  /\ asks = {} /\ sent = 0 /\ excused = {}

(***************************************************************************)
(* Requests.  An answer that asks again keeps the number of its request.      *)
(***************************************************************************)
\* A list or a copy of the test is read at some time between its request and the answer.
Ask(id, narrow, kind, to, q, new, then) ==
  [id |-> id, narrow |-> narrow, kind |-> kind, to |-> to, q |-> q, new |-> new, then |-> then,
   was |-> [bank |-> IF kind \in {"reload", "load"} THEN bank ELSE <<>>,
            stored |-> IF kind = "list" THEN stored ELSE "never"]]

FreeIds == 1..MaxAsks \ {a.id : a \in asks}
NewAsk(narrow, kind, to, q, new, then) ==
  Ask(CHOOSE id \in FreeIds : TRUE, narrow, kind, to, q, new, then)

Least(x, y) == IF x < y THEN x ELSE y

\* What is left of the desktop's senders.
Left(as, to) == {IF a.narrow THEN a ELSE [a EXCEPT !.to = Least(@, to)] : a \in as}

ListPending == \E a \in asks : a.kind = "list" /\ a.to >= 2

\* The effect of a request on the server.
Effect(a) ==
  CASE a.kind = "save" ->
         /\ a.q \in DOMAIN bank /\ bank' = [bank EXCEPT ![a.q] = a.new] /\ UNCHANGED stored
    [] a.kind = "add" ->
         LET id == Sets!Max(DOMAIN bank \cup {0}) + 1 IN
         /\ id <= MaxIds
         /\ bank' = [q \in DOMAIN bank \cup {id} |-> IF q = id THEN a.new ELSE bank[q]]
         /\ UNCHANGED stored
    [] a.kind = "delete" ->
         /\ a.q \in DOMAIN bank /\ bank' = [q \in DOMAIN bank \ {a.q} |-> bank[q]]
         /\ UNCHANGED stored
    [] a.kind = "upload"  -> stored = "never" /\ stored' = "stored" /\ UNCHANGED bank
    [] a.kind = "discard" -> stored' = "deleted" /\ UNCHANGED bank
    [] OTHER              -> UNCHANGED <<bank, stored>>

(***************************************************************************)
(* Drafts.                                                                 *)
(***************************************************************************)
\* A mutant: the radio of an option leaves the others alone.
MarkedToo(o, i) == [o EXCEPT ![i] = TRUE]

Marked(o, i) == [j \in DOMAIN o |-> j = i]

Rekeyed(o) == IF Keyed(o) = {} THEN [o EXCEPT ![1] = TRUE] ELSE o

\* The desktop makes the first option correct when none is left; the phone when the correct one
\* was removed.
Removed(o, i, narrow) ==
  IF ~narrow \/ o[i] THEN Rekeyed(Seqs!RemoveAt(o, i)) ELSE Seqs!RemoveAt(o, i)

\* Whether the text for the form has a token: the desktop writes one for a picture.
Written(v) == v.pic # "none"

\* The phone keeps only what is text.
PlainText(v) == v.pic = "text"

\* What the user does to a draft.
Edits(d, narrow) ==
  LET o == d.options IN
     {[d EXCEPT !.options = Marked(o, i)] : i \in DOMAIN o}
     \cup (IF Len(o) > 2 THEN {[d EXCEPT !.options = Removed(o, i, narrow)] : i \in DOMAIN o} ELSE {})
     \cup (IF Len(o) < Limit[narrow] THEN {[d EXCEPT !.options = Append(o, FALSE)]} ELSE {})

(***************************************************************************)
(* The desktop's editor.                                                   *)
(***************************************************************************)
Opened(view) ==
  [NoEditor EXCEPT !.open = TRUE, !.view = view,
                   !.sel = IF view = <<>> THEN 0 ELSE Sets!Min(DOMAIN view)]

\* renderAll: the form is built anew from the draft.
Redrawn(e) ==
  [e EXCEPT !.form = e.draft # <<>>, !.field = e.draft # <<>> /\ e.draft[1].token,
            !.panel = Least(@, 3)]

\* mountQuestionEditor: it asks for the materials at once.
MountEditor(view, as, id) ==
  /\ editor' = [Opened(view) EXCEPT !.panel = Least(editor.panel, 1)]
  /\ asks' = Left(as, 1) \cup {Ask(id, FALSE, "list", 2, 0, Blank, "nothing")}

OpenQuestions ==
  /\ On("home", FALSE) /\ ~editor.open /\ (owner \/ bank # <<>>) /\ FreeIds # {}
  /\ MountEditor(bank, asks, CHOOSE id \in FreeIds : TRUE)
  /\ UNCHANGED <<owner, bank, stored, phone, sent, excused, routerVars>>

\* Called when another page is put into the root.
LeaveEditor ==
  /\ editor' = NoEditor
  /\ asks' = Left(asks, 0)

LeaveQuestions ==
  /\ editor.open /\ editor.panel = 0
  /\ LeaveEditor
  /\ UNCHANGED <<owner, bank, stored, phone, sent, excused, routerVars>>

Here == On("home", FALSE) /\ editor.open /\ editor.panel = 0

EditorBecomes(e, to) ==
  /\ editor' = e
  /\ asks' = Left(asks, to)
  /\ UNCHANGED <<owner, bank, stored, phone, sent, excused, routerVars>>

PickQuestion(q) ==
  /\ Here /\ q \in DOMAIN editor.view
  /\ EditorBecomes([editor EXCEPT !.sel = q, !.draft = <<>>, !.form = FALSE, !.field = FALSE], 2)

\* The owner edits or proposes, another user proposes.
StartEdit(proposal) ==
  /\ Here /\ ~editor.form /\ editor.sel \in DOMAIN editor.view /\ (owner \/ proposal)
  /\ LET v == editor.view[editor.sel]
         d == [options |-> Rekeyed(v.options), token |-> Written(v),
               proposal |-> proposal \/ ~owner]
     IN EditorBecomes([editor EXCEPT !.draft = <<d>>, !.form = TRUE, !.field = d.token], 2)

\* A form that outlived its draft changes nothing.
InForm == Here /\ editor.form /\ editor.draft # <<>>
Draft == editor.draft[1]

EditOptions ==
  /\ InForm
  /\ \E d \in Edits(Draft, FALSE) : EditorBecomes([editor EXCEPT !.draft = <<d>>], 4)

\* What the field shows is what the draft gets.
TypeQuestion ==
  /\ InForm
  /\ \E token \in {FALSE, editor.field} :
       EditorBecomes([editor EXCEPT !.draft[1].token = token, !.field = token], 4)

CancelEdit ==
  /\ Here /\ editor.form
  /\ EditorBecomes([editor EXCEPT !.draft = <<>>, !.form = FALSE, !.field = FALSE], 2)

AskEditor(ask) ==
  /\ FreeIds # {}
  /\ sent < MaxSent /\ sent' = sent + 1
  /\ asks' = asks \cup {ask}
  /\ UNCHANGED <<owner, bank, stored, editor, phone, routerVars>>

\* A token without a known material becomes an image whose file is the token itself.
Resolved(d, known) ==
  [options |-> d.options, pic |-> IF ~d.token THEN "none" ELSE IF known THEN "linked" ELSE "raw"]

\* The button is dead until its answer comes.  Without a text it only says so.
SubmitEdit ==
  /\ InForm /\ Keyed(Draft.options) # {}
  /\ ~\E a \in asks : a.kind \in {"save", "propose"} /\ a.to >= 3
  /\ AskEditor(NewAsk(FALSE, IF Draft.proposal THEN "propose" ELSE "save", 4, editor.sel,
                      Resolved(Draft, editor.known), "nothing"))
  /\ excused' = IF editor.lapse \/ ListPending THEN excused \cup {editor.sel} ELSE excused

\* Nothing keeps the user from asking twice; another user sends a proposal instead, which
\* changes nothing here.
AddQuestion ==
  /\ Here /\ owner
  /\ AskEditor(NewAsk(FALSE, "add", 2, 0, Blank, "nothing"))
  /\ UNCHANGED excused

DeleteQuestion(q) ==
  /\ Here /\ owner /\ q \in DOMAIN editor.view
  /\ AskEditor(NewAsk(FALSE, "delete", 2, q, Blank, "nothing"))
  /\ UNCHANGED excused

\* The toolbar of the form.
UploadPicture ==
  /\ InForm /\ owner
  /\ AskEditor(NewAsk(FALSE, "upload", 4, 0, Blank, "insert"))
  /\ UNCHANGED excused

(***************************************************************************)
(* The materials panel, above the editor.                                  *)
(***************************************************************************)
OpenPanel == InForm /\ EditorBecomes([editor EXCEPT !.panel = 4], 4)
InPanel == On("home", FALSE) /\ editor.open /\ editor.panel > 0
ClosePanel == InPanel /\ EditorBecomes([editor EXCEPT !.panel = 0], 4)

\* The token goes into the field from which the panel was opened, which may have been replaced.
Inserted(e, to) ==
  IF to < 3 \/ e.draft = <<>> THEN e
  ELSE [e EXCEPT !.draft[1].token = TRUE, !.field = @ \/ to = 4]

\* The panel has a list of its own.
PanelInsert ==
  /\ InPanel /\ stored = "stored"
  /\ EditorBecomes([Inserted(editor, editor.panel) EXCEPT !.panel = 0, !.lapse = @ \/ ~editor.known], 4)

PanelUpload ==
  /\ InPanel /\ owner
  /\ AskEditor(NewAsk(FALSE, "upload", Least(editor.panel, 2), 0, Blank, "redraw"))
  /\ UNCHANGED excused

PanelDelete ==
  /\ InPanel /\ owner /\ stored = "stored"
  /\ AskEditor(NewAsk(FALSE, "discard", Least(editor.panel, 2), 0, Blank, "reload"))
  /\ UNCHANGED excused

(***************************************************************************)
(* What the desktop's editor makes of the answers.                         *)
(***************************************************************************)
\* A mutant: the token is in the text before the list has the material.
NotListed(a) == FALSE

\* After an upload or a deletion the list is asked for again; what follows waits for it.
Relists(a) == a.kind \in {"upload", "discard"}

\* The tab asks for the test again, if it is still there.
Reloads(a) ==
  IF a.to = 0 THEN {}
  ELSE {[Ask(a.id, FALSE, "reload", 1, 0, Blank, "nothing") EXCEPT !.was.bank = bank']}

\* What follows a list, arrived or not.
Follows(a, e, as) ==
  CASE a.then = "insert" -> editor' = Inserted(e, a.to) /\ asks' = as
    [] a.then = "nothing" -> editor' = e /\ asks' = as
    [] OTHER ->
         /\ editor' = IF a.to >= 2 THEN Redrawn(e) ELSE e
         /\ asks' = Left(as, IF a.to >= 2 THEN 3 ELSE 4)
                      \cup (IF a.then = "reload" THEN Reloads(a) ELSE {})

\* The draft of an editor whose request succeeded goes, whatever question it is for by now.
Changed(a) ==
  LET rest == Left(asks \ {a}, IF a.to >= 2 THEN 2 ELSE 4) IN
  CASE a.kind \in {"save", "propose"} ->
         /\ editor' = IF a.to >= 2 THEN [editor EXCEPT !.draft = <<>>] ELSE editor
         /\ asks' = rest \cup Reloads(a)
    [] a.kind = "add" ->
         /\ editor' = IF a.to >= 2 THEN [editor EXCEPT !.sel = Sets!Max(DOMAIN bank'), !.draft = <<>>]
                      ELSE editor
         /\ asks' = rest \cup Reloads(a)
    [] a.kind = "delete" ->
         UNCHANGED editor /\ asks' = (asks \ {a}) \cup Reloads(a)
    [] Relists(a) ->
         /\ editor' = [editor EXCEPT !.lapse = @ \/ (a.to >= 2 /\ ListPending)]
         /\ asks' = (asks \ {a}) \cup
              {[Ask(a.id, FALSE, "list", a.to, 0, Blank, a.then) EXCEPT !.was.stored = stored']}
    [] OTHER -> Follows(a, editor, asks \ {a})

Unmoved == UNCHANGED <<owner, phone, sent, excused, routerVars>>

EditorAnswered(a) ==
  /\ a \in asks /\ ~a.narrow /\ a.kind \notin {"list", "reload"}
  /\ Effect(a)
  /\ Changed(a)
  /\ Unmoved

MaterialsListed(a) ==
  /\ a \in asks /\ a.kind = "list"
  /\ UNCHANGED <<bank, stored>>
  /\ \E seen \in {a.was.stored, stored} :
       Follows(a, IF a.to >= 2 THEN [editor EXCEPT !.known = (seen = "stored")] ELSE editor,
               asks \ {a})
  /\ Unmoved

\* A list that fails is passed over.
ListFailed(a) ==
  /\ a \in asks /\ a.kind = "list"
  /\ UNCHANGED <<bank, stored>>
  /\ Follows(a, IF a.to >= 2 THEN [editor EXCEPT !.lapse = TRUE] ELSE editor, asks \ {a})
  /\ Unmoved

\* Every editor that has asked for the test again is replaced.
Reloaded(a) ==
  /\ a \in asks /\ a.kind = "reload"
  /\ \E view \in {a.was.bank, bank} :
       IF a.to = 1 THEN MountEditor(view, asks \ {a}, a.id)
       ELSE UNCHANGED editor /\ asks' = asks \ {a}
  /\ UNCHANGED <<bank, stored>> /\ Unmoved

\* Refused, or done and the answer lost.
AskFailed(a) ==
  /\ a \in asks /\ ~a.narrow /\ a.kind # "list"
  /\ UNCHANGED <<bank, stored>> \/ Effect(a)
  /\ asks' = asks \ {a}
  /\ UNCHANGED editor /\ Unmoved

(***************************************************************************)
(* The phone's question screen.  Its answers navigate, whatever page is shown. *)
(***************************************************************************)
PhoneSends(kind, new) ==
  /\ FreeIds # {}
  /\ sent < MaxSent /\ sent' = sent + 1
  /\ asks' = asks \cup {NewAsk(TRUE, kind, 1, phone.q, new, "nothing")}
  /\ UNCHANGED <<owner, bank, stored, excused>>

\* Called when the screen is mounted.
QuestionScreen ==
  /\ \E q \in 1..MaxIds : phone' = [NoPhone EXCEPT !.q = q]
  /\ FreeIds # {}
  /\ asks' = {IF a.narrow THEN [a EXCEPT !.to = 0] ELSE a : a \in asks}
               \cup {NewAsk(TRUE, "load", 1, phone'.q, Blank, "nothing")}
  /\ UNCHANGED <<owner, bank, stored, editor, sent, excused>>

\* Only another rendering of the screen makes a load stale, not leaving the page.
QuestionLoaded(a) ==
  /\ a \in asks /\ a.kind = "load"
  /\ asks' = asks \ {a}
  /\ \E view \in {a.was.bank, bank} :
       CASE a.to = 0 -> UNCHANGED <<phone, routerVars>>
         [] a.to = 1 /\ a.q \in DOMAIN view ->
              /\ phone' = [NoPhone EXCEPT !.open = TRUE, !.q = a.q, !.view = view[a.q]]
              /\ Paint("question", TRUE)
              /\ UNCHANGED <<hash, queued, page, imports, mounted, rewritten, mobile, signedIn>>
         [] OTHER -> Navigate("test") /\ UNCHANGED <<phone, placeVars>>
  /\ UNCHANGED <<owner, bank, stored, editor, sent, excused>>

QuestionMissing(a) ==
  /\ a \in asks /\ a.kind = "load"
  /\ asks' = asks \ {a}
  /\ Navigate("nowhere")
  /\ UNCHANGED <<owner, bank, stored, editor, phone, sent, excused, placeVars>>

OnPhone == On("question", TRUE) /\ phone.open

PhoneBecomes(p) ==
  /\ phone' = p
  /\ UNCHANGED <<owner, bank, stored, editor, asks, sent, excused, routerVars>>

\* Editing and, for another user, the first tap on the proposal: only text comes along.
PhoneEdit ==
  /\ OnPhone /\ phone.draft = <<>>
  /\ LET v == phone.view IN
     PhoneBecomes([phone EXCEPT !.draft = <<[options |-> v.options,
                                           token |-> PlainText(v), proposal |-> ~owner]>>])

PhoneOptions ==
  /\ OnPhone /\ phone.draft # <<>>
  /\ \E d \in Edits(phone.draft[1], TRUE) : PhoneBecomes([phone EXCEPT !.draft = <<d>>])

\* The owner puts the token of a listed material into the text, or deletes it from there.
PhoneToken ==
  /\ OnPhone /\ phone.draft # <<>> /\ owner
  /\ \E token \in {FALSE, stored = "stored"} :
       PhoneBecomes([phone EXCEPT !.draft[1].token = token])

PhoneCancel ==
  /\ OnPhone /\ phone.draft # <<>>
  /\ PhoneBecomes([phone EXCEPT !.draft = <<>>])

\* Nothing is checked and nothing keeps the user from tapping twice.  A proposal of another user
\* is always refused: the screen names the kind of request by a key that the server ignores.
PhoneSave ==
  /\ OnPhone /\ phone.draft # <<>> /\ owner
  /\ PhoneSends("save", [options |-> phone.draft[1].options,
                         pic |-> IF phone.draft[1].token THEN "text" ELSE "none"])
  /\ UNCHANGED <<editor, phone, routerVars>>

\* The phone deletes neither questions nor materials: its dialog is handed a callback for the
\* confirmation, which the dialog does not read (doDelete, confirm-dialog.js).
PhoneUpload ==
  /\ OnPhone /\ phone.draft # <<>> /\ owner
  /\ stored = "never" /\ PhoneSends("upload", Blank)
  /\ UNCHANGED <<editor, phone, routerVars>>

PhoneAnswered(a) ==
  /\ a \in asks /\ a.narrow /\ a.kind # "load"
  /\ Effect(a)
  /\ asks' = asks \ {a}
  /\ IF a.kind = "save" THEN Navigate("test") ELSE Stay
  /\ phone' = IF a.kind = "upload" /\ a.to = 1 /\ phone.draft # <<>>
                THEN [phone EXCEPT !.draft[1].token = TRUE] ELSE phone
  /\ UNCHANGED <<owner, editor, sent, excused, placeVars>>

PhoneFailed(a) ==
  /\ a \in asks /\ a.narrow /\ a.kind # "load"
  /\ UNCHANGED <<bank, stored>> \/ Effect(a)
  /\ asks' = asks \ {a}
  /\ UNCHANGED <<owner, editor, phone, sent, excused, routerVars>>

DeskStep ==
  \/ OpenQuestions \/ LeaveQuestions
  \/ \E q \in 1..MaxIds : PickQuestion(q) \/ DeleteQuestion(q)
  \/ \E proposal \in BOOLEAN : StartEdit(proposal)
  \/ CancelEdit \/ SubmitEdit \/ AddQuestion

PhoneStep == PhoneEdit \/ PhoneCancel \/ PhoneSave

OptionStep == EditOptions \/ PhoneOptions

PictureStep ==
  \/ TypeQuestion \/ UploadPicture \/ OpenPanel \/ ClosePanel
  \/ PanelInsert \/ PanelUpload \/ PanelDelete
  \/ PhoneToken \/ PhoneUpload

AnswerStep ==
  \E a \in asks :
    \/ EditorAnswered(a) \/ MaterialsListed(a) \/ ListFailed(a) \/ Reloaded(a) \/ AskFailed(a)
    \/ QuestionLoaded(a) \/ QuestionMissing(a) \/ PhoneAnswered(a) \/ PhoneFailed(a)

(***************************************************************************)
(* Properties                                                              *)
(***************************************************************************)

\* Whatever is marked, removed, added and saved on either screen, a question of the bank never
\* has two correct options, and none only if it came without (renderOpts, paintOpts, startEdit).
KeyKept ==
  \A q \in DOMAIN bank :
    LET key == Keyed(bank[q].options) IN
    Cardinality(key) <= 1 /\ (q \notin Unkeyed => key # {})

\* An image is saved without its file only when the list of the materials was missing, late or
\* doubtful, or the material was deleted: an upload inserts its token after the list has it
\* (refreshMaterials, makeTokenToolbar, tokensToBlocks).
PicturesResolve ==
  \A q \in DOMAIN bank : bank[q].pic = "raw" => q \in excused \/ stored = "deleted"
=============================================================================
