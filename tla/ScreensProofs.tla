----------------------------- MODULE ScreensProofs -----------------------------
(***************************************************************************)
(* Proofs about the composition.  The screens and what floats above them move  *)
(* the place of the user as the router allows, so what was proved of the router  *)
(* holds of the whole; being offline is announced; then one part per screen,     *)
(* each with its invariant of ScreensInvariants: the import wizard, the       *)
(* lists, the settings, who can read a test, the change requests.  EditorProofs  *)
(* adds the editors.                                                         *)
(***************************************************************************)
EXTENDS ScreensInvariants, RouterProofs, FiniteSetTheorems

Wandered ==
  \/ UNCHANGED routerVars
  \/ \E p \in Addresses \ {""} : Wander(p)
  \/ \E p \in LateScreens : Repaint(p, TRUE)

\* The edit screen is painted by the settings only.
Strayed ==
  \/ UNCHANGED routerVars
  \/ \E p \in Addresses \ {""} : Wander(p)
  \/ \E p \in LateScreens \ {"edit"} : Repaint(p, TRUE)

LEMMA StrayedWanders == Strayed => Wandered
  BY DEF Strayed, Wandered

LEMMA WanderedPlaced == Wandered => Placed
  BY DEF Wandered, Placed, LateScreens, Screens, Private, Public

LEMMA WandersOff ==
  ASSUME NEW p \in Addresses \ {""}, NEW other \in BOOLEAN, Go(p, other), UNCHANGED placeVars
  PROVE  Strayed
  BY DEF Wander, Strayed

LEMMA WandersTo ==
  ASSUME NEW p \in Addresses \ {""}, Navigate(p), UNCHANGED placeVars
  PROVE  Strayed
  BY WandersOff DEF Navigate

LEMMA PaintsLate ==
  ASSUME NEW p \in LateScreens \ {"edit"}, Paint(p, TRUE),
         UNCHANGED <<hash, queued, rewritten, page, imports, mounted, mobile, signedIn>>
  PROVE  Strayed
  BY DEF Repaint, Strayed

LEMMA StaysThere == ASSUME Stay, UNCHANGED placeVars PROVE Strayed
  BY DEF Stay, placeVars, Strayed, routerVars

\* Pages that a component names.
LEMMA Named ==
  /\ {"home", "edit", "test", "nowhere", "collection", "requests", "403", "404"}
       \subseteq Addresses \ {""}
  /\ Private \subseteq Addresses \ {""}
  /\ LateScreens \ {"edit"} = {"import", "home", "question", "requests", "collection"}
  BY DEF Addresses, Private, Public, LateScreens

LEMMA OverlayWanders == OverlayStep => Strayed
  <1> SUFFICES ASSUME OverlayStep PROVE Strayed
    OBVIOUS
  <1>1. CASE UNCHANGED routerVars
    BY <1>1 DEF Strayed
  <1>2. CASE Choose
    <2>1. UNCHANGED placeVars
      BY <1>2 DEF Choose, placeVars
    <2>2. PICK p \in Private, other \in BOOLEAN : Go(p, other)
      <3>1. "collection" \in Private
        BY DEF Private
      <3>2. \A c \in 0..(NCommands - 1) : Commands[c] \in Private
        BY PaletteAssumption
      <3> QED BY <1>2, <3>1, <3>2 DEF Choose
    <2> QED BY <2>1, <2>2, WandersOff, Named
  <1>3. CASE SecondKey
    <2>1. UNCHANGED placeVars
      BY <1>3 DEF SecondKey, placeVars
    <2>2. Stay \/ \E p \in Links : Navigate(p)
      BY <1>3 DEF SecondKey
    <2> QED BY <2>1, <2>2, WandersTo, StaysThere, LinksAssumption
  <1> QED BY <1>1, <1>2, <1>3 DEF OverlayStep

LEMMA WizardWanders == WizardStep => Strayed
  <1> SUFFICES ASSUME WizardStep PROVE Strayed
    OBVIOUS
  <1>1. ASSUME NEW n \in BOOLEAN,
               \/ ToggleMode(n) \/ ChooseFile(n) \/ NameTest(n) \/ Upload(n) \/ CreateTest(n)
               \/ CancelImport(n) \/ ConfirmImport(n) \/ ImportAnother(n)
        PROVE  UNCHANGED routerVars
    BY <1>1 DEF ToggleMode, ChooseFile, NameTest, Upload, CreateTest, CancelImport,
       ConfirmImport, ImportAnother, Becomes, Sent
  <1>2. ReplaceFile => UNCHANGED routerVars
    BY DEF ReplaceFile, Becomes
  <1>3. ASSUME NEW n \in BOOLEAN, OpenTest(n) PROVE Strayed
    <2>1. UNCHANGED placeVars
      BY <1>3 DEF OpenTest, placeVars
    <2>2. Navigate("edit") \/ Navigate("home")
      BY <1>3 DEF OpenTest
    <2> QED BY <2>1, <2>2, WandersTo, Named
  <1>4. ASSUME NEW c \in calls, NEW w, Painted(c, w) PROVE Strayed
    <2>1. CASE c.narrow
      BY <1>4, <2>1, PaintsLate, Named DEF Painted
    <2>2. CASE ~c.narrow
      BY <1>4, <2>2 DEF Painted, Strayed, routerVars
    <2> QED BY <2>1, <2>2
  <1>5. ASSUME NEW c \in calls,
               Uploaded(c) \/ UploadFailed(c) \/ Created(c) \/ Cancelled(c)
        PROVE  Strayed
    <2>1. \E w : Painted(c, w)
      BY <1>5 DEF Uploaded, UploadFailed, Created, Cancelled
    <2> QED BY <1>4, <2>1
  <1>6. ASSUME NEW c \in calls, CreateFailed(c) PROVE UNCHANGED routerVars
    BY <1>6 DEF CreateFailed
  <1> QED BY <1>1, <1>2, <1>3, <1>5, <1>6 DEF WizardStep, Strayed

LEMMA EditorWanders ==
  DeskStep \/ PhoneStep \/ OptionStep \/ PictureStep \/ AnswerStep => Strayed
  <1>1. ASSUME NEW e, NEW to, EditorBecomes(e, to) PROVE Strayed
    BY <1>1 DEF EditorBecomes, Strayed
  <1>2. ASSUME NEW ask, AskEditor(ask) PROVE Strayed
    BY <1>2 DEF AskEditor, Strayed
  <1>3. ASSUME NEW p, PhoneBecomes(p) PROVE Strayed
    BY <1>3 DEF PhoneBecomes, Strayed
  <1>4. DeskStep => Strayed
    <2>1. OpenQuestions \/ LeaveQuestions => Strayed
      BY DEF OpenQuestions, LeaveQuestions, Strayed
    <2>2. ASSUME NEW q \in 1..MaxIds, PickQuestion(q) \/ DeleteQuestion(q) PROVE Strayed
      BY <1>1, <1>2, <2>2 DEF PickQuestion, DeleteQuestion
    <2>3. ASSUME NEW proposal \in BOOLEAN, StartEdit(proposal) PROVE Strayed
      BY <1>1, <2>3 DEF StartEdit
    <2>4. CancelEdit \/ SubmitEdit \/ AddQuestion => Strayed
      BY <1>1, <1>2 DEF CancelEdit, SubmitEdit, AddQuestion
    <2> QED BY <2>1, <2>2, <2>3, <2>4 DEF DeskStep
  <1>5. PhoneStep => Strayed
    BY <1>3 DEF PhoneStep, PhoneEdit, PhoneCancel, PhoneSave, Strayed
  <1>6. OptionStep => Strayed
    BY <1>1, <1>3 DEF OptionStep, EditOptions, PhoneOptions
  <1>7. PictureStep => Strayed
    <2>1. TypeQuestion \/ UploadPicture \/ OpenPanel \/ ClosePanel => Strayed
      BY <1>1, <1>2 DEF TypeQuestion, UploadPicture, OpenPanel, ClosePanel
    <2>2. PanelInsert \/ PanelUpload \/ PanelDelete => Strayed
      BY <1>1, <1>2 DEF PanelInsert, PanelUpload, PanelDelete
    <2>3. PhoneToken \/ PhoneUpload => Strayed
      BY <1>3 DEF PhoneToken, PhoneUpload, Strayed
    <2> QED BY <2>1, <2>2, <2>3 DEF PictureStep
  <1>8. ASSUME NEW a \in asks,
               \/ EditorAnswered(a) \/ MaterialsListed(a) \/ ListFailed(a) \/ Reloaded(a)
               \/ AskFailed(a) \/ PhoneFailed(a)
        PROVE  Strayed
    <2>1. UNCHANGED routerVars
      BY <1>8 DEF EditorAnswered, MaterialsListed, ListFailed, Reloaded, AskFailed, PhoneFailed,
         Unmoved
    <2> QED BY <2>1 DEF Strayed
  <1>9. ASSUME NEW a \in asks, QuestionLoaded(a) PROVE Strayed
    <2>1. PICK view : 
             CASE a.to = 0 -> UNCHANGED <<phone, routerVars>>
               [] a.to = 1 /\ a.q \in DOMAIN view ->
                    /\ phone' = [NoPhone EXCEPT !.open = TRUE, !.q = a.q, !.view = view[a.q]]
                    /\ Paint("question", TRUE)
                    /\ UNCHANGED <<hash, queued, page, imports, mounted, rewritten, mobile, signedIn>>
               [] OTHER -> Navigate("test") /\ UNCHANGED <<phone, placeVars>>
      BY <1>9 DEF QuestionLoaded
    <2> QED BY <2>1, PaintsLate, WandersTo, Named DEF Strayed
  <1>10. ASSUME NEW a \in asks, QuestionMissing(a) PROVE Strayed
    BY <1>10, WandersTo, Named DEF QuestionMissing
  <1>11. ASSUME NEW a \in asks, PhoneAnswered(a) PROVE Strayed
    BY <1>11, WandersTo, StaysThere, Named DEF PhoneAnswered
  <1> QED BY <1>4, <1>5, <1>6, <1>7, <1>8, <1>9, <1>10, <1>11 DEF AnswerStep

LEMMA CollectionWanders ==
  /\ ListStep => Strayed
  /\ SettingsStep => Wandered
  <1>1. ASSUME NEW n \in BOOLEAN, Painting("home", n) PROVE Strayed
    BY <1>1, PaintsLate, Named DEF Painting, Strayed
  <1>2. ASSUME NEW n \in BOOLEAN, LoadMore(n) \/ \E f \in Filters : ChooseFilter(n, f)
        PROVE  Strayed
    BY <1>2 DEF LoadMore, ChooseFilter, Strayed
  <1>3. ASSUME NEW i, SelectRow(i) PROVE Strayed
    BY <1>3 DEF SelectRow, Strayed
  <1>4. ASSUME NEW g \in gets, FirstListed(g) \/ FirstFailed(g) PROVE Strayed
    <2>1. UNCHANGED routerVars \/ Painting("home", g.narrow)
      BY <1>4 DEF FirstListed, FirstFailed
    <2>2. Painting("home", g.narrow) => Strayed
      BY PaintsLate, Named DEF Painting, Strayed
    <2> QED BY <2>1, <2>2 DEF Strayed
  <1>5. ASSUME NEW g \in gets, PageListed(g) \/ PageFailed(g) \/ DetailArrived(g) PROVE Strayed
    BY <1>5 DEF PageListed, PageFailed, DetailArrived, Strayed
  <1>6. ListStep => Strayed
    BY <1>2, <1>3, <1>4, <1>5 DEF ListStep
  <1>7. ASSUME OpenChips \/ LeaveChips \/ SaveSetup \/ \E n \in BOOLEAN, l \in Levels : PressChip(n, l)
        PROVE  Strayed
    BY <1>7 DEF OpenChips, LeaveChips, SaveSetup, PressChip, Strayed
  <1>8. ASSUME NEW i, TypeTitle(i) \/ Rename(i) \/ PickLevel(i) PROVE Strayed
    BY <1>8 DEF TypeTitle, Rename, PickLevel, EditSetup, Strayed
  <1>9. ASSUME NEW g \in gets, NEW lost \in BOOLEAN,
               ChipSaved(g) \/ FormSaved(g) \/ ChipFailed(g, lost) \/ FormFailed(g, lost)
        PROVE  Strayed
    <2>1. UNCHANGED routerVars
      BY <1>9 DEF ChipSaved, FormSaved, ChipFailed, FormFailed
    <2> QED BY <2>1 DEF Strayed
  <1>10. ASSUME NEW g \in gets, NEW done \in BOOLEAN, Renamed(g, done) \/ SettingsFailed(g) PROVE Strayed
    <2>1. UNCHANGED placeVars
      BY <1>10 DEF Renamed, SettingsFailed, placeVars
    <2>2. (\E p \in {"test", "403", "404"} : Navigate(p)) \/ Stay
      BY <1>10 DEF Renamed, SettingsFailed
    <2> QED BY <2>1, <2>2, WandersTo, StaysThere, Named
  <1>11. ASSUME NEW g \in gets, SettingsLoaded(g) PROVE Wandered
    <2>1. UNCHANGED routerVars \/ Painting("edit", g.narrow)
      BY <1>11 DEF SettingsLoaded
    <2>2. Painting("edit", g.narrow) => Wandered
      BY DEF Painting, Wandered, Repaint, LateScreens
    <2> QED BY <2>1, <2>2 DEF Wandered
  <1>12. SettingsStep => Wandered
    BY <1>7, <1>8, <1>9, <1>10, <1>11, StrayedWanders DEF SettingsStep
  <1> QED BY <1>6, <1>12

LEMMA InboxWanders == InboxStep => Strayed
  <1>1. PickTest \/ OpenProposal => Strayed
    <2>1. PickTest \/ OpenProposal => Go("requests", TRUE) /\ UNCHANGED placeVars
      BY DEF PickTest, OpenProposal
    <2> QED BY <2>1, WandersOff, Named
  <1>2. ASSUME NEW status, NEW r, NEW decision,
               \/ ChooseStatus(status) \/ FilterFolder(status) \/ SelectProposal(r)
               \/ ApproveOnPhone(r) \/ DecideOnCR(decision)
        PROVE  UNCHANGED routerVars
    BY <1>2 DEF ChooseStatus, FilterFolder, SelectProposal, ApproveOnPhone, DecideOnCR
  <1>3. ASSUME NEW p, NEW failed, NEW f,
               \/ InboxMissing(p) \/ InboxCounted(p, failed) \/ InboxOpened(p, f)
               \/ InboxListed(p, f) \/ VerdictFailed(p, f)
        PROVE  UNCHANGED routerVars
    BY <1>3 DEF InboxMissing, InboxCounted, InboxOpened, InboxListed, VerdictFailed
  <1>4. ASSUME NEW p, NEW f, PickerOpened(p) \/ FolderOpened(p, f)
        PROVE  Strayed
    <2>1. \/ UNCHANGED routerVars
          \/ /\ Paint("requests", TRUE)
             /\ UNCHANGED <<hash, queued, rewritten, page, imports, mounted, mobile, signedIn>>
      BY <1>4 DEF PickerOpened, FolderOpened
    <2> QED BY <2>1, PaintsLate, Named DEF Strayed
  <1>5. ASSUME NEW p, VerdictAnswered(p) PROVE Strayed
    <2>1. (Go("requests", TRUE) \/ Stay) /\ UNCHANGED placeVars
      BY <1>5 DEF VerdictAnswered
    <2> QED BY <2>1, WandersOff, StaysThere, Named
  <1> QED BY <1>1, <1>2, <1>3, <1>4, <1>5 DEF InboxStep, Strayed

LEMMA PeopleWanders == PeopleStep => Strayed
  <1>1. ASSUME NEW n, OpenPeople(n) \/ CloseTab PROVE UNCHANGED routerVars
    BY <1>1 DEF OpenPeople, CloseTab
  <1>2. ASSUME NEW u, NEW yes,
               Invite(u) \/ RemoveReader(u) \/ AskAccess(u) \/ DecideRequest(u, yes)
        PROVE  UNCHANGED routerVars
    BY <1>2 DEF Invite, RemoveReader, AskAccess, DecideRequest, SendErrand
  <1>3. ASSUME NEW e, NEW f,
               \/ TestArrived(e) \/ ReloadShares(e) \/ RequestDecided(e)
               \/ SharesListed(e, f) \/ AskersListed(e, f) \/ ErrandFailed(e, f)
        PROVE  UNCHANGED routerVars
    BY <1>3 DEF TestArrived, ReloadShares, RequestDecided, SharesListed, AskersListed, ErrandFailed
  <1>4. ASSUME NEW e, TestMissing(e) PROVE Strayed
    <2>1. ((\E p \in {"403", "404"} : Navigate(p)) \/ Stay) /\ UNCHANGED placeVars
      BY <1>4 DEF TestMissing
    <2> QED BY <2>1, WandersTo, StaysThere, Named
  <1>5. ASSUME NEW e, StatsArrived(e) PROVE Strayed
    BY <1>5, PaintsLate, Named DEF StatsArrived
  <1> QED BY <1>1, <1>2, <1>3, <1>4, <1>5 DEF PeopleStep, Strayed

LEMMA RoutePlaced == Route => [RouterNext]_routerVars
  <1> SUFFICES ASSUME Route PROVE [RouterNext]_routerVars
    OBVIOUS
  <1>1. CASE HashChange \/ BreakpointChange \/ LocaleChange \/ SessionEnds
    BY <1>1 DEF RouterNext
  <1>2. CASE \E i \in imports : ModuleFailed(i)
    BY <1>2 DEF RouterNext
  <1>3. ASSUME NEW p \in tour.pages, Follow(p) PROVE [RouterNext]_routerVars
    <2>1. p \in Addresses \ {""} /\ Navigate(p) /\ UNCHANGED placeVars
      BY <1>3, LinksAssumption DEF Follow
    <2> QED BY <2>1, Navigates DEF Placed, RouterNext
  <1> QED BY <1>1, <1>2, <1>3 DEF Route

LEMMA StepPlaced == ScreensNext => [RouterNext]_routerVars
  <1> SUFFICES ASSUME ScreensNext PROVE [RouterNext]_routerVars
    OBVIOUS
  <1>1. Mount => RouterNext
    BY DEF Mount, RouterNext
  <1>2. Wandered => [RouterNext]_routerVars
    BY PlacedStep, WanderedPlaced
  <1> QED BY <1>1, <1>2, RoutePlaced, OverlayWanders, WizardWanders, EditorWanders,
             CollectionWanders, StrayedWanders, InboxWanders, PeopleWanders DEF ScreensNext

\* Whatever the screens, the palette, the hotkeys and late answers do, the place of the user
\* changes as the router's own specification says: the composition implements it (navigate,
\* handleRoute and every call of them).
THEOREM ScreensFollowRouter == ScreensSpec => RouterSpec
  <1>1. ScreensInit => RouterInit
    BY DEF ScreensInit
  <1>2. [ScreensNext]_screensVars => [RouterNext]_routerVars
    <2>1. UNCHANGED screensVars => UNCHANGED routerVars
      BY DEF screensVars
    <2> QED BY <2>1, StepPlaced
  <1> QED BY <1>1, <1>2, PTL DEF ScreensSpec, RouterSpec

\* So, with all the screens around it, the router has mounted the screen of the address or an
\* error whenever nothing is on its way (handleRoute).
THEOREM ScreensRouteSound == ScreensSpec => []RouteShown
  BY ScreensFollowRouter, RouteSound, PTL

LEMMA AnnouncedStep == Announced /\ [ScreensNext]_screensVars => Announced'
  <1> SUFFICES ASSUME Announced, [ScreensNext]_screensVars PROVE Announced'
    OBVIOUS
  <1>1. ASSUME UNCHANGED <<online, banner, flash>> PROVE Announced'
    BY <1>1 DEF Announced
  <1>2. CASE Mount
    BY <1>1, <1>2 DEF Mount
  <1>3. CASE UNCHANGED overlayVars
    BY <1>1, <1>3 DEF overlayVars
  <1>4. CASE OverlayStep
    <2>1. GoesOffline \/ GoesOnline => Announced'
      BY DEF GoesOffline, GoesOnline, ShowOfflineBanner, Announced
    <2>2. FlashOver => Announced'
      BY DEF FlashOver, Announced
    <2>3. OpenPalette \/ TestsListed \/ Type \/ Move \/ Dismiss \/ Choose => Announced'
      BY <1>1 DEF OpenPalette, TestsListed, Type, Move, Dismiss, Choose
    <2>4. QuestionMark \/ Escape \/ PressG \/ SecondKey \/ ChordTimeout => Announced'
      BY <1>1 DEF QuestionMark, Escape, PressG, SecondKey, ChordTimeout
    <2>5. ASSUME NEW b \in BOOLEAN, AskToConfirm(b) \/ Answer(b) \/ ShowToast(b)
          PROVE  Announced'
      BY <1>1, <2>5 DEF AskToConfirm, Answer, ShowToast
    <2>6. TypeToConfirm \/ ToastAction \/ ToastTimeout \/ ToastGone => Announced'
      BY <1>1 DEF TypeToConfirm, ToastAction, ToastTimeout, ToastGone
    <2> QED BY <1>4, <2>1, <2>2, <2>3, <2>4, <2>5, <2>6 DEF OverlayStep
  <1>5. CASE UNCHANGED screensVars
    BY <1>3, <1>5 DEF screensVars
  <1> QED BY <1>2, <1>3, <1>4, <1>5 DEF ScreensNext, Route

\* While the browser is offline the banner says so, however often the connection comes and goes
\* and whatever else happens (showOfflineBanner, showOnlineFlash).
THEOREM OfflineSound == ScreensSpec => []OfflineAnnounced
  <1>1. ScreensInit => Announced
    BY DEF ScreensInit, OverlayInit, Announced
  <1>2. Announced => OfflineAnnounced
    BY DEF Announced, OfflineAnnounced
  <1> QED BY <1>1, <1>2, AnnouncedStep, PTL DEF ScreensSpec

(***************************************************************************)
(* The wizard.                                                             *)
(***************************************************************************)

\* Only the requests of its breakpoint and whether its test is there matter to a wizard.
LEMMA StraightKept ==
  ASSUME NEW n, NEW w, NEW cs, NEW ks, NEW ds, NEW ls, Straight(n, w, cs, ks),
         \A c \in cs \cup ds : c.narrow = n => (c \in cs <=> c \in ds),
         w.result \in ks => w.result \in ls
  PROVE  Straight(n, w, ds, ls)
  BY DEF Straight

\* A step of one wizard leaves the other as it was.
LEMMA WizardMoves ==
  ASSUME WizardInv, NEW n \in BOOLEAN, NEW w \in Wizards,
         wizard' = [wizard EXCEPT ![n] = w],
         calls' \subseteq Calls, made' \in made..MaxMade, kept' \subseteq 1..made',
         \A c \in calls \cup calls' : c.narrow # n => (c \in calls <=> c \in calls'),
         \A c \in calls' : c.narrow = n =>
           \/ c.test \in {0, wizard[n].result}
           \/ \E d \in calls : d.narrow = n /\ d.test = c.test,
         \A t \in kept \ kept' : \E d \in calls : d.narrow = n /\ d.test = t,
         w.result \in {0, wizard[n].result} \/ (w.result = made' /\ made' > made),
         ~w.crossed => Straight(n, w, calls', kept')
  PROVE  WizardInv'
  <1>1. /\ wizard \in [BOOLEAN -> Wizards] /\ calls \subseteq Calls /\ made \in 0..MaxMade
        /\ kept \subseteq 1..made
    BY DEF WizardInv, WizardTypeOK
  <1>2. PICK m \in BOOLEAN : m # n /\ \A k \in BOOLEAN : k = n \/ k = m
    OBVIOUS
  <1>3. wizard' \in [BOOLEAN -> Wizards] /\ wizard'[n] = w /\ wizard'[m] = wizard[m]
    BY <1>1, <1>2
  <1>4. \A x \in Wizards : x.result \in Nat
    BY WizardBounds DEF Wizards
  <1>5. \A c \in Calls : c.test \in Nat /\ c.narrow \in BOOLEAN
    BY WizardBounds DEF Calls
  <1>6. made \in Nat /\ made' \in Nat /\ made <= made'
    BY <1>1, WizardBounds
  <1>7. /\ wizard[n].result <= made /\ wizard[m].result <= made
        /\ wizard[n].result = wizard[m].result => wizard[n].result = 0
        /\ \A c \in calls : c.test <= made
        /\ \A c \in calls : c.narrow = n /\ c.test = wizard[m].result => c.test = 0
        /\ \A c \in calls : c.narrow = m /\ c.test = wizard[n].result => c.test = 0
    BY <1>2 DEF WizardInv, Apart
  <1> DEFINE r == wizard[n].result
             s == wizard[m].result
  <1>8. r \in Nat /\ s \in Nat /\ w.result \in Nat
    BY <1>1, <1>2, <1>4
  <1>9. WizardTypeOK'
    BY <1>1, <1>3, <1>6, WizardBounds DEF WizardTypeOK
  <1>10. w.result <= made' /\ (w.result = s => w.result = 0)
    <2> HIDE DEF r, s
    <2>1. r <= made /\ s <= made /\ (r = s => r = 0)
      BY <1>7 DEF r, s
    <2>2. w.result \in {0, r} \/ (w.result = made' /\ made' > made)
      BY DEF r
    <2> QED BY <1>6, <1>8, <2>1, <2>2
  <1>11. ASSUME NEW c \in calls', c.narrow = n
         PROVE  c.test <= made' /\ (c.test = s => c.test = 0)
    <2>1. CASE c.test \in {0, wizard[n].result}
      BY <2>1, <1>6, <1>7, <1>8
    <2>2. CASE \E d \in calls : d.narrow = n /\ d.test = c.test
      <3>1. PICK d \in calls : d.narrow = n /\ d.test = c.test
        BY <2>2
      <3>2. d.test \in Nat /\ d.test <= made /\ (d.test = s => d.test = 0)
        BY <1>1, <1>5, <1>7, <3>1
      <3> QED BY <1>6, <3>1, <3>2
    <2> QED BY <1>11, <2>1, <2>2
  <1>12. ASSUME NEW c \in calls', c.narrow = m
         PROVE  c.test <= made' /\ (c.test = w.result => c.test = 0)
    <2>1. c \in calls /\ c.test \in Nat
      BY <1>1, <1>2, <1>5, <1>12
    <2>2. c.test <= made /\ (c.test = r => c.test = 0)
      BY <1>7, <1>12, <2>1
    <2> QED BY <1>6, <1>8, <2>1, <2>2
  <1>13. Apart(wizard', calls', made')
    <2>1. wizard'[n].result <= made' /\ wizard'[m].result <= made'
      BY <1>3, <1>6, <1>7, <1>8, <1>10
    <2>2. wizard'[n].result = wizard'[m].result => wizard'[n].result = 0
      BY <1>3, <1>10
    <2>3. \A k \in BOOLEAN : k = n \/ k = m
      BY <1>2
    <2>4. \A c \in calls' : c.narrow = n \/ c.narrow = m
      BY <1>5, <2>3
    <2>5. ASSUME NEW c \in calls' PROVE c.test <= made'
      BY <1>11, <1>12, <2>4
    <2>6. ASSUME NEW c \in calls', NEW k \in BOOLEAN, k # c.narrow, c.test = wizard'[k].result
          PROVE  c.test = 0
      <3>1. CASE c.narrow = n
        <4>1. k = m
          BY <2>3, <2>6, <3>1
        <4> QED BY <1>3, <1>11, <2>6, <3>1, <4>1
      <3>2. CASE c.narrow = m
        <4>1. k = n
          BY <2>3, <2>6, <3>2
        <4> QED BY <1>3, <1>12, <2>6, <3>2, <4>1
      <3> QED BY <2>4, <3>1, <3>2
    <2>7. ASSUME NEW j \in BOOLEAN, NEW k \in BOOLEAN, j # k, wizard'[j].result = wizard'[k].result
          PROVE  wizard'[j].result = 0
      BY <2>2, <2>3, <2>7
    <2>8. \A k \in BOOLEAN : wizard'[k].result <= made'
      BY <2>1, <2>3
    <2> QED BY <2>5, <2>6, <2>7, <2>8 DEF Apart
  <1>14. ASSUME ~wizard[m].crossed PROVE Straight(m, wizard[m], calls', kept')
    <2>1. Straight(m, wizard[m], calls, kept)
      BY <1>2, <1>14 DEF WizardInv
    <2>2. wizard[m].result \in kept => wizard[m].result \in kept'
      <3> SUFFICES ASSUME wizard[m].result \in kept \ kept' PROVE FALSE
        OBVIOUS
      <3>1. PICK d \in calls : d.narrow = n /\ d.test = wizard[m].result
        OBVIOUS
      <3>2. d.test = 0
        BY <3>1, <1>7
      <3> QED BY <3>1, <3>2, <1>1
    <2>3. \A c \in calls \cup calls' : c.narrow = m => (c \in calls <=> c \in calls')
      BY <1>2
    <2> QED BY <2>1, <2>2, <2>3, StraightKept
  <1>15. \A k \in BOOLEAN : ~wizard'[k].crossed => Straight(k, wizard'[k], calls', kept')
    <2>1. ~wizard'[n].crossed => Straight(n, wizard'[n], calls', kept')
      BY <1>3
    <2>2. ~wizard'[m].crossed => Straight(m, wizard'[m], calls', kept')
      BY <1>3, <1>14
    <2> QED BY <1>2, <2>1, <2>2
  <1> QED BY <1>9, <1>13, <1>15 DEF WizardInv

LEMMA WizardHeld == WizardInv /\ UNCHANGED wizardVars => WizardInv'
  BY DEF WizardInv, WizardTypeOK, wizardVars

\* Fields changed one by one keep a wizard a wizard.
LEMMA Wizardly ==
  ASSUME NEW w \in Wizards
  PROVE  /\ \A mode \in WizardModes, file \in BOOLEAN, result \in 0..MaxMade, up \in BOOLEAN,
              x \in BOOLEAN :
              [w EXCEPT !.mode = mode, !.file = file, !.result = result, !.uploading = up,
                        !.crossed = x] \in Wizards
         /\ \A up \in BOOLEAN, step \in 1..4, result \in 0..MaxMade :
              [w EXCEPT !.uploading = up, !.step = step, !.result = result] \in Wizards
         /\ \A up \in BOOLEAN, step \in 1..4 : [w EXCEPT !.uploading = up, !.step = step] \in Wizards
         /\ \A step \in 1..4, result \in 0..MaxMade :
              [w EXCEPT !.step = step, !.result = result] \in Wizards
         /\ \A file \in BOOLEAN, title \in BOOLEAN :
              [w EXCEPT !.file = file, !.title = title] \in Wizards
  BY DEF Wizards

LEMMA FreshStraight ==
  ASSUME NEW mode \in WizardModes, NEW x \in BOOLEAN, NEW n, NEW cs, NEW ks
  PROVE  /\ Fresh(mode, x) \in Wizards /\ Fresh(mode, x).crossed = x
         /\ Fresh(mode, x).result = 0
         /\ (\A c \in cs : c.narrow # n) => Straight(n, Fresh(mode, x), cs, ks)
  <1>1. Fresh(mode, x) \in Wizards
    BY WizardBounds DEF Fresh, Wizards
  <1> QED BY <1>1 DEF Fresh, Straight, WizardModes

\* A step of the user that sends nothing.
LEMMA BecomesSafe ==
  ASSUME WizardInv, NEW n \in BOOLEAN, NEW w \in Wizards, Becomes(n, w),
         w.result \in {0, wizard[n].result},
         ~w.crossed => Straight(n, w, calls, kept)
  PROVE  WizardInv'
  <1>1. wizard' = [wizard EXCEPT ![n] = w] /\ UNCHANGED <<calls, made, kept>>
    BY DEF Becomes
  <1>2. /\ calls' \subseteq Calls /\ made' \in made..MaxMade /\ kept' \subseteq 1..made'
        /\ kept \ kept' = {}
    BY <1>1, WizardBounds DEF WizardInv, WizardTypeOK
  <1>3. \A c \in calls' : c.narrow = n => \E d \in calls : d.narrow = n /\ d.test = c.test
    BY <1>1
  <1>4. ~w.crossed => Straight(n, w, calls', kept')
    BY <1>1
  <1>5. \A c \in calls \cup calls' : c.narrow # n => (c \in calls <=> c \in calls')
    BY <1>1
  <1> QED BY <1>1, <1>2, <1>3, <1>4, <1>5, WizardMoves

\* A step of the user that sends a request.
LEMMA SentSafe ==
  ASSUME WizardInv, NEW n \in BOOLEAN, NEW w \in Wizards, NEW kind \in {"upload", "create", "cancel"},
         Sent(n, kind, w), w.result \in {0, wizard[n].result},
         \A c \in Calls : c.narrow = n /\ c.own /\ c.kind = kind /\ calls' = calls \cup {c} /\ ~w.crossed
           => Straight(n, w, calls', kept)
  PROVE  WizardInv'
  <1>1. PICK id \in 1..MaxCalls :
          calls' = calls \cup {[id |-> id, kind |-> kind, narrow |-> n, own |-> TRUE,
                                mode |-> w.mode, test |-> w.result]}
    BY DEF Sent
  <1> DEFINE c == [id |-> id, kind |-> kind, narrow |-> n, own |-> TRUE,
                   mode |-> w.mode, test |-> w.result]
  <1>2. wizard' = [wizard EXCEPT ![n] = w] /\ UNCHANGED <<made, kept>>
    BY DEF Sent
  <1>3. c \in Calls
    BY DEF Calls, Wizards
  <1>4. c.narrow = n /\ c.own /\ c.kind = kind /\ c.test = w.result
    OBVIOUS
  <1>5. calls' = calls \cup {c}
    BY <1>1
  <1> HIDE DEF c
  <1>6. /\ calls' \subseteq Calls /\ made' \in made..MaxMade /\ kept' \subseteq 1..made'
        /\ kept \ kept' = {}
    BY <1>2, <1>3, <1>5, WizardBounds DEF WizardInv, WizardTypeOK
  <1>7. \A d \in calls \cup calls' : d.narrow # n => (d \in calls <=> d \in calls')
    BY <1>4, <1>5
  <1>8. \A d \in calls' : d.narrow = n =>
           \/ d.test \in {0, wizard[n].result}
           \/ \E e \in calls : e.narrow = n /\ e.test = d.test
    BY <1>4, <1>5
  <1>9. ~w.crossed => Straight(n, w, calls', kept')
    BY <1>2, <1>3, <1>4, <1>5
  <1> QED BY <1>2, <1>6, <1>7, <1>8, <1>9, WizardMoves

LEMMA UserSafe ==
  ASSUME WizardInv, NEW n \in BOOLEAN,
         \/ ToggleMode(n) \/ ChooseFile(n) \/ NameTest(n) \/ Upload(n) \/ CreateTest(n)
         \/ CancelImport(n) \/ ConfirmImport(n) \/ ImportAnother(n)
         \/ (n = TRUE /\ ReplaceFile)
  PROVE  WizardInv'
  <1> DEFINE w == wizard[n]
  <1>1. w \in Wizards /\ (~w.crossed => Straight(n, w, calls, kept))
    BY DEF WizardInv, WizardTypeOK
  <1>10. 0 \in 0..MaxMade /\ TRUE \in BOOLEAN /\ FALSE \in BOOLEAN /\ 2 \in 1..4
    BY WizardBounds
  <1>2. CASE ToggleMode(n)
    <2> DEFINE other == IF w.mode = "import" THEN "create" ELSE "import"
               u == w.uploading /\ ~n
               x == w.crossed \/ Waiting(n)
               v == [w EXCEPT !.mode = other, !.file = FALSE, !.result = 0,
                              !.uploading = u, !.crossed = x]
    <2>1. Becomes(n, v) /\ w.step = 1
      BY <1>2 DEF ToggleMode
    <2>2. u \in BOOLEAN /\ x \in BOOLEAN /\ other \in WizardModes /\ (u => w.uploading)
      BY DEF WizardModes, Waiting
    <2> HIDE DEF w, u, x, other
    <2>6. v \in Wizards
      BY <1>1, <1>10, <2>2, Wizardly
    <2>4. /\ v \in Wizards /\ v.result = 0 /\ v.step = w.step /\ v.mode = other
          /\ v.crossed = x /\ v.uploading = u
      BY <1>1, <2>2, <2>6 DEF Wizards
    <2>5. x = (w.crossed \/ Waiting(n))
      BY DEF x
    <2> HIDE DEF v
    <2>3. ASSUME ~v.crossed PROVE Straight(n, v, calls, kept)
      <3>1. Straight(n, w, calls, kept) /\ \A c \in calls : c.narrow # n
        BY <1>1, <2>3, <2>4, <2>5 DEF Waiting
      <3>2. ~w.uploading
        BY <3>1 DEF Straight
      <3>3. ~v.uploading
        BY <2>2, <2>4, <3>2
      <3> QED BY <2>1, <2>2, <2>4, <3>1, <3>3 DEF Straight, WizardModes
    <2> QED BY <2>1, <2>3, <2>4, BecomesSafe
  <1>3. ASSUME NEW file \in BOOLEAN, NEW title \in BOOLEAN,
               Becomes(n, [w EXCEPT !.file = file, !.title = title])
        PROVE  WizardInv'
    <2> DEFINE v == [w EXCEPT !.file = file, !.title = title]
    <2>1. /\ v \in Wizards /\ v.result = w.result /\ v.step = w.step /\ v.mode = w.mode
          /\ v.crossed = w.crossed /\ v.uploading = w.uploading
      BY <1>1 DEF Wizards
    <2> HIDE DEF v
    <2>2. ~v.crossed => Straight(n, v, calls, kept)
      BY <1>1, <2>1 DEF Straight
    <2>3. Becomes(n, v)
      BY <1>3 DEF v
    <2> QED BY <2>1, <2>2, <2>3, BecomesSafe
  <1>4. ASSUME ChooseFile(n) \/ NameTest(n) \/ (n = TRUE /\ ReplaceFile)
        PROVE  WizardInv'
    <2>1. w.file \in BOOLEAN /\ w.title \in BOOLEAN
      BY <1>1 DEF Wizards
    <2>2. CASE ChooseFile(n)
      <3>1. Becomes(n, [w EXCEPT !.file = TRUE, !.title = TRUE])
        BY <2>2 DEF ChooseFile
      <3> QED BY <1>3, <3>1
    <2>3. CASE NameTest(n)
      <3>1. PICK title \in BOOLEAN : Becomes(n, [w EXCEPT !.title = title])
        BY <2>3 DEF NameTest
      <3>2. [w EXCEPT !.title = title] = [w EXCEPT !.file = w.file, !.title = title]
        BY <1>1 DEF Wizards
      <3> QED BY <1>3, <2>1, <3>1, <3>2
    <2>4. CASE n = TRUE /\ ReplaceFile
      <3>1. Becomes(n, [w EXCEPT !.file = FALSE])
        BY <2>4 DEF ReplaceFile
      <3>2. [w EXCEPT !.file = FALSE] = [w EXCEPT !.file = FALSE, !.title = w.title]
        BY <1>1 DEF Wizards
      <3> QED BY <1>3, <2>1, <3>1, <3>2
    <2> QED BY <1>4, <2>2, <2>3, <2>4
  <1>5. CASE Upload(n)
    <2> DEFINE v == [w EXCEPT !.uploading = TRUE, !.step = 2]
    <2>1. Sent(n, "upload", v) /\ w.mode = "import" /\ ~w.uploading /\ UNCHANGED kept
      BY <1>5 DEF Upload, At, Sent
    <2> HIDE DEF w
    <2>5. v \in Wizards
      BY <1>1, <1>10, Wizardly
    <2>2. /\ v \in Wizards /\ v.result = w.result /\ v.step = 2 /\ v.mode = w.mode
          /\ v.crossed = w.crossed /\ v.uploading = TRUE
      BY <1>1, <2>5 DEF Wizards
    <2> HIDE DEF w, v
    <2>3. ASSUME NEW c \in Calls, c.narrow = n, c.own, c.kind = "upload", calls' = calls \cup {c},
                 ~v.crossed
          PROVE  Straight(n, v, calls', kept)
      <3>1. Straight(n, w, calls, kept)
        BY <1>1, <2>2, <2>3
      <3>2. \A d \in calls : ~(d.narrow = n /\ d.kind = "upload")
        BY <2>1, <3>1 DEF Straight
      <3>3. \A d \in calls' : d.narrow = n => d.own /\ (d.kind = "create" <=> v.mode = "create")
        BY <2>1, <2>2, <2>3, <3>1 DEF Straight
      <3> QED BY <2>1, <2>2, <2>3, <3>2, <3>3 DEF Straight
    <2>4. v.result \in {0, wizard[n].result}
      BY <2>2 DEF w
    <2> QED BY <2>1, <2>2, <2>3, <2>4, SentSafe
  <1>6. CASE CreateTest(n)
    <2>1. Sent(n, "create", w) /\ w.mode = "create"
      BY <1>6 DEF CreateTest, At
    <2> HIDE DEF w
    <2>2. ASSUME NEW c \in Calls, c.narrow = n, c.own, c.kind = "create", calls' = calls \cup {c},
                 ~w.crossed
          PROVE  Straight(n, w, calls', kept)
      BY <1>1, <2>1, <2>2 DEF Straight
    <2>3. w.result \in {0, wizard[n].result}
      BY DEF w
    <2> QED BY <1>1, <2>1, <2>2, <2>3, SentSafe
  <1>7. CASE CancelImport(n)
    <2>1. Sent(n, "cancel", w) /\ w.mode = "import"
      BY <1>7 DEF CancelImport, At
    <2> HIDE DEF w
    <2>2. ASSUME NEW c \in Calls, c.narrow = n, c.own, c.kind = "cancel", calls' = calls \cup {c},
                 ~w.crossed
          PROVE  Straight(n, w, calls', kept)
      BY <1>1, <2>1, <2>2 DEF Straight
    <2>3. w.result \in {0, wizard[n].result}
      BY DEF w
    <2> QED BY <1>1, <2>1, <2>2, <2>3, SentSafe
  <1>8. CASE ConfirmImport(n)
    <2> DEFINE v == [w EXCEPT !.step = 4]
    <2>1. Becomes(n, v) /\ w.step = 3 /\ w.mode = "import"
      BY <1>8 DEF ConfirmImport, At
    <2>2. /\ v \in Wizards /\ v.result = w.result /\ v.step = 4 /\ v.mode = w.mode
          /\ v.crossed = w.crossed /\ v.uploading = w.uploading
      BY <1>1 DEF Wizards
    <2> HIDE DEF w, v
    <2>3. ~v.crossed => Straight(n, v, calls, kept)
      BY <1>1, <2>1, <2>2 DEF Straight
    <2>4. v.result \in {0, wizard[n].result}
      BY <2>2 DEF w
    <2> QED BY <2>1, <2>2, <2>3, <2>4, BecomesSafe
  <1>9. CASE ImportAnother(n)
    <2> DEFINE v == Fresh(w.mode, w.crossed)
    <2>1. Becomes(n, v) /\ ((w.mode = "import" /\ w.step = 4) \/ (w.mode = "create" /\ w.step = 2))
      BY <1>9 DEF ImportAnother, Done, At
    <2>2. /\ v \in Wizards /\ v.result = 0 /\ v.step = 1 /\ v.mode = w.mode
          /\ v.crossed = w.crossed /\ ~v.uploading
      <3>1. w.mode \in WizardModes /\ w.crossed \in BOOLEAN
        BY <1>1 DEF Wizards
      <3> HIDE DEF w
      <3>2. v \in Wizards /\ v.result = 0 /\ v.crossed = w.crossed
        BY <3>1, FreshStraight
      <3> QED BY <3>2 DEF Fresh
    <2> HIDE DEF w, v
    <2>3. ASSUME ~v.crossed PROVE Straight(n, v, calls, kept)
      <3>1. Straight(n, w, calls, kept)
        BY <1>1, <2>2, <2>3
      <3>2. ~w.uploading
        BY <2>1, <3>1 DEF Straight
      <3> QED BY <2>1, <2>2, <3>1, <3>2 DEF Straight
    <2> QED BY <2>1, <2>2, <2>3, BecomesSafe
  <1> QED BY <1>2, <1>4, <1>5, <1>6, <1>7, <1>8, <1>9

\* The wizard that an answer continues is sound, and stays the one it was unless it was crossed.
LEMMA Continued ==
  ASSUME WizardInv, NEW c \in calls
  PROVE  /\ Continues(c) \in Wizards
         /\ Continues(c).result \in {0, wizard[c.narrow].result}
         /\ ~Continues(c).crossed => Continues(c) = wizard[c.narrow] /\ ~(c.narrow /\ ~c.own)
  <1>1. c \in Calls /\ wizard \in [BOOLEAN -> Wizards]
    BY DEF WizardInv, WizardTypeOK
  <1>2. /\ c.narrow \in BOOLEAN /\ c.own \in BOOLEAN /\ c.mode \in WizardModes
        /\ wizard[c.narrow] \in Wizards
    BY <1>1 DEF Calls
  <1>3. CASE c.narrow /\ ~c.own
    <2> DEFINE f == Fresh(c.mode, TRUE)
               step == IF c.kind = "upload" THEN 2 ELSE 1
               file == c.kind # "create"
               yes == TRUE
               v == [f EXCEPT !.step = step, !.file = file, !.title = yes]
    <2>1. f \in Wizards /\ f.result = 0 /\ f.crossed
      BY <1>2, FreshStraight
    <2>2. Continues(c) = v
      BY <1>3 DEF Continues
    <2>3. step \in 1..4 /\ file \in BOOLEAN /\ yes \in BOOLEAN
      OBVIOUS
    <2> HIDE DEF f, step, file, yes
    <2>4. v \in Wizards
      BY <2>1, <2>3 DEF Wizards
    <2>5. v.result = f.result /\ v.crossed = f.crossed
      BY <2>1 DEF Wizards
    <2> HIDE DEF v
    <2> QED BY <2>1, <2>2, <2>4, <2>5
  <1>4. CASE ~(c.narrow /\ ~c.own)
    BY <1>2, <1>4 DEF Continues
  <1> QED BY <1>3, <1>4

\* An answer to a request that the wizard still waits for leaves the other requests alone.
LEMMA AnswerLeaves ==
  ASSUME WizardInv, NEW c \in calls, Answered(c)
  PROVE  /\ calls' \subseteq Calls
         /\ \A d \in calls \cup calls' : d.narrow # c.narrow => (d \in calls <=> d \in calls')
         /\ \A d \in calls' : \E e \in calls : e.narrow = d.narrow /\ e.test = d.test
         /\ ~(c.narrow /\ ~c.own) => calls' = calls \ {c}
  <1>1. calls \subseteq Calls
    BY DEF WizardInv, WizardTypeOK
  <1>2. CASE ~(c.narrow /\ ~c.own)
    <2>1. calls' = calls \ {c}
      BY <1>2 DEF Answered
    <2> QED BY <1>1, <2>1
  <1>3. CASE c.narrow /\ ~c.own
    <2> DEFINE Away(d) == [d EXCEPT !.own = @ /\ ~d.narrow]
    <2>1. calls' = {Away(d) : d \in calls \ {c}}
      BY <1>3 DEF Answered
    <2>2. ASSUME NEW d \in Calls
          PROVE  /\ Away(d) \in Calls /\ Away(d).narrow = d.narrow /\ Away(d).test = d.test
                 /\ ~d.narrow => Away(d) = d
      <3> DEFINE mine == d.own /\ ~d.narrow
      <3>1. mine \in BOOLEAN /\ d.own \in BOOLEAN /\ d.narrow \in BOOLEAN
        BY DEF Calls
      <3>2. ~d.narrow => mine = d.own
        BY <3>1
      <3>3. Away(d) = [d EXCEPT !.own = mine]
        OBVIOUS
      <3> HIDE DEF mine, Away
      <3>4. Away(d) \in Calls /\ Away(d).narrow = d.narrow /\ Away(d).test = d.test
        BY <3>1, <3>3 DEF Calls
      <3>5. mine = d.own => Away(d) = d
        BY <3>3 DEF Calls
      <3> QED BY <3>2, <3>4, <3>5
    <2> HIDE DEF Away
    <2>3. \A d \in calls' : \E e \in calls \ {c} : d = Away(e)
      BY <2>1
    <2>4. \A d \in calls' : \E e \in calls \ {c} : e.narrow = d.narrow /\ e.test = d.test /\ d = Away(e)
      BY <1>1, <2>2, <2>3
    <2>5. ASSUME NEW d \in calls', d.narrow # c.narrow PROVE d \in calls
      <3>1. PICK e \in calls \ {c} : e.narrow = d.narrow /\ d = Away(e)
        BY <2>4
      <3>2. ~e.narrow
        <4>1. e.narrow \in BOOLEAN
          BY <1>1, <3>1 DEF Calls
        <4> QED BY <1>3, <2>5, <3>1, <4>1
      <3> QED BY <1>1, <2>2, <3>1, <3>2
    <2>6. ASSUME NEW d \in calls, d.narrow # c.narrow PROVE d \in calls'
      <3>1. ~d.narrow
        <4>1. d.narrow \in BOOLEAN
          BY <1>1 DEF Calls
        <4> QED BY <1>3, <2>6, <4>1
      <3>2. Away(d) = d /\ d # c
        BY <1>1, <2>2, <2>6, <3>1
      <3> QED BY <2>1, <3>2
    <2>7. calls' \subseteq Calls
      BY <1>1, <2>2, <2>3
    <2>8. \A d \in calls' : \E e \in calls : e.narrow = d.narrow /\ e.test = d.test
      BY <2>4
    <2>9. \A d \in calls \cup calls' : d.narrow # c.narrow => (d \in calls <=> d \in calls')
      BY <2>5, <2>6
    <2> QED BY <1>3, <2>7, <2>8, <2>9
  <1> QED BY <1>2, <1>3

LEMMA AnswerSafe ==
  ASSUME WizardInv, NEW c \in calls, Answered(c), NEW w \in Wizards,
         wizard' = [wizard EXCEPT ![c.narrow] = w],
         made' \in made..MaxMade, kept' \subseteq 1..made', kept \ kept' \subseteq {c.test},
         w.result \in {0, wizard[c.narrow].result} \/ (w.result = made' /\ made' > made),
         ~w.crossed => ~wizard[c.narrow].crossed,
         ~w.crossed /\ Straight(c.narrow, wizard[c.narrow], calls, kept)
           => Straight(c.narrow, w, calls \ {c}, kept')
  PROVE  WizardInv'
  <1>1. c.narrow \in BOOLEAN
    BY DEF WizardInv, WizardTypeOK, Calls
  <1> DEFINE n == c.narrow
  <1>2. /\ calls' \subseteq Calls
        /\ \A d \in calls \cup calls' : d.narrow # n => (d \in calls <=> d \in calls')
        /\ \A d \in calls' : \E e \in calls : e.narrow = d.narrow /\ e.test = d.test
        /\ ~(c.narrow /\ ~c.own) => calls' = calls \ {c}
    BY AnswerLeaves
  <1>3. \A t \in kept \ kept' : \E d \in calls : d.narrow = n /\ d.test = t
    OBVIOUS
  <1>4. ~w.crossed => Straight(n, w, calls', kept')
    <2> SUFFICES ASSUME ~w.crossed PROVE Straight(n, w, calls', kept')
      OBVIOUS
    <2>1. Straight(n, wizard[n], calls, kept)
      BY <1>1 DEF WizardInv
    <2>2. c.own
      BY <2>1 DEF Straight
    <2> QED BY <1>2, <2>1, <2>2
  <1>5. \A d \in calls' : d.narrow = n =>
           \/ d.test \in {0, wizard[n].result}
           \/ \E e \in calls : e.narrow = n /\ e.test = d.test
    BY <1>2
  <1>6. /\ wizard' = [wizard EXCEPT ![n] = w]
        /\ w.result \in {0, wizard[n].result} \/ (w.result = made' /\ made' > made)
    OBVIOUS
  <1> HIDE DEF n
  <1>7. n \in BOOLEAN
    BY <1>1 DEF n
  <1>8. /\ WizardInv /\ w \in Wizards
        /\ made' \in made..MaxMade /\ kept' \subseteq 1..made'
    OBVIOUS
  <1>9. calls' \subseteq Calls
    BY <1>2
  <1>10. \A d \in calls \cup calls' : d.narrow # n => (d \in calls <=> d \in calls')
    BY <1>2
  <1> QED BY ONLY <1>3, <1>4, <1>5, <1>6, <1>7, <1>8, <1>9, <1>10, WizardMoves

LEMMA ServerSafe ==
  ASSUME WizardInv, NEW c \in calls,
         Uploaded(c) \/ UploadFailed(c) \/ Created(c) \/ CreateFailed(c) \/ Cancelled(c)
  PROVE  WizardInv'
  <1> DEFINE n == c.narrow
             w == Continues(c)
  <1>1. /\ c.narrow \in BOOLEAN /\ made \in 0..MaxMade /\ kept \subseteq 1..made
        /\ c.kind \in {"upload", "create", "cancel"} /\ wizard \in [BOOLEAN -> Wizards]
    BY DEF WizardInv, WizardTypeOK, Calls
  <1>2. /\ w \in Wizards /\ w.result \in {0, wizard[n].result}
        /\ ~w.crossed => w = wizard[n]
    BY Continued
  <1>3. made \in Nat /\ MaxMade \in Nat /\ 0 \in 0..MaxMade
    BY <1>1, WizardBounds
  <1>4. Answered(c)
    BY DEF Uploaded, UploadFailed, Created, CreateFailed, Cancelled
  <1>5. ASSUME made < MaxMade, made' = made + 1, kept' = kept \cup {made'}
        PROVE  /\ made' \in made..MaxMade /\ made' \in 0..MaxMade /\ kept' \subseteq 1..made'
               /\ made' \in kept' /\ made' > made /\ kept \ kept' = {}
    BY <1>1, <1>3, <1>5
  <1>6. ASSUME UNCHANGED <<made, kept>>
        PROVE  made' \in made..MaxMade /\ kept' \subseteq 1..made' /\ kept \ kept' = {}
    BY <1>1, <1>3, <1>6
  <1>7. \A v : Painted(c, v) => wizard' = [wizard EXCEPT ![n] = v]
    BY DEF Painted
  <1>8. CASE Uploaded(c)
    <2> DEFINE v == [w EXCEPT !.uploading = FALSE, !.step = 3, !.result = made']
    <2>1. c.kind = "upload" /\ wizard' = [wizard EXCEPT ![n] = v]
      BY <1>7, <1>8 DEF Uploaded
    <2>2. /\ made' \in made..MaxMade /\ made' \in 0..MaxMade /\ kept' \subseteq 1..made'
          /\ made' \in kept' /\ made' > made /\ kept \ kept' = {}
      BY <1>5, <1>8 DEF Uploaded
    <2>3. FALSE \in BOOLEAN /\ 3 \in 1..4
      OBVIOUS
    <2> HIDE DEF w
    <2>4. v \in Wizards
      BY <1>2, <2>2, <2>3, Wizardly
    <2>5. /\ v.mode = w.mode /\ v.step = 3 /\ v.result = made' /\ v.crossed = w.crossed
          /\ v.uploading = FALSE
      BY <1>2, <2>4 DEF Wizards
    <2> HIDE DEF v, n
    <2>6. ~v.crossed /\ Straight(n, wizard[n], calls, kept) => Straight(n, v, calls \ {c}, kept')
      BY <1>2, <2>1, <2>2, <2>5 DEF Straight, n
    <2>7. /\ ~v.crossed => ~wizard[n].crossed
          /\ kept \ kept' \subseteq {c.test}
          /\ v.result = made' /\ made' > made
      BY <1>2, <2>2, <2>5
    <2> QED BY <1>4, <2>1, <2>2, <2>4, <2>6, <2>7, AnswerSafe DEF n
  <1>9. CASE UploadFailed(c)
    <2> DEFINE v == [w EXCEPT !.uploading = FALSE, !.step = 1]
    <2>1. c.kind = "upload" /\ wizard' = [wizard EXCEPT ![n] = v]
      BY <1>7, <1>9 DEF UploadFailed, AfterFailure
    <2>2. made' \in made..MaxMade /\ kept' \subseteq 1..made' /\ kept \ kept' = {}
      BY <1>5, <1>6, <1>9 DEF UploadFailed
    <2>3. FALSE \in BOOLEAN /\ 1 \in 1..4
      OBVIOUS
    <2> HIDE DEF w
    <2>4. v \in Wizards
      BY <1>2, <2>3, Wizardly
    <2>5. /\ v.mode = w.mode /\ v.step = 1 /\ v.result = w.result /\ v.crossed = w.crossed
          /\ v.uploading = FALSE
      BY <1>2, <2>4 DEF Wizards
    <2> HIDE DEF v, n
    <2>6. ~v.crossed /\ Straight(n, wizard[n], calls, kept) => Straight(n, v, calls \ {c}, kept')
      BY <1>2, <2>1, <2>2, <2>5 DEF Straight, n
    <2>7. /\ ~v.crossed => ~wizard[n].crossed
          /\ kept \ kept' \subseteq {c.test}
          /\ v.result \in {0, wizard[n].result}
      BY <1>2, <2>2, <2>5
    <2> QED BY <1>4, <2>1, <2>2, <2>4, <2>6, <2>7, AnswerSafe DEF n
  <1>10. CASE Created(c)
    <2> DEFINE v == [w EXCEPT !.step = 2, !.result = made']
    <2>1. c.kind = "create" /\ wizard' = [wizard EXCEPT ![n] = v]
      BY <1>7, <1>10 DEF Created
    <2>2. /\ made' \in made..MaxMade /\ made' \in 0..MaxMade /\ kept' \subseteq 1..made'
          /\ made' \in kept' /\ made' > made /\ kept \ kept' = {}
      BY <1>5, <1>10 DEF Created
    <2>3. 2 \in 1..4
      OBVIOUS
    <2> HIDE DEF w
    <2>4. v \in Wizards
      BY <1>2, <2>2, <2>3, Wizardly
    <2>5. /\ v.mode = w.mode /\ v.step = 2 /\ v.result = made' /\ v.crossed = w.crossed
          /\ v.uploading = w.uploading
      BY <1>2, <2>4 DEF Wizards
    <2> HIDE DEF v, n
    <2>6. ASSUME ~v.crossed, Straight(n, wizard[n], calls, kept)
          PROVE  Straight(n, v, calls \ {c}, kept')
      <3>1. w = wizard[n] /\ w.mode = "create" /\ c.narrow = n
        BY <1>2, <2>1, <2>5, <2>6 DEF Straight, n
      <3>2. ~(\E d \in calls : d.narrow = n /\ d.kind = "upload")
        BY <2>6, <3>1 DEF Straight
      <3>3. ~v.uploading
        BY <2>5, <2>6, <3>1, <3>2 DEF Straight
      <3> QED BY <2>2, <2>5, <2>6, <3>1, <3>2, <3>3 DEF Straight
    <2>7. /\ ~v.crossed => ~wizard[n].crossed
          /\ kept \ kept' \subseteq {c.test}
          /\ v.result = made' /\ made' > made
      BY <1>2, <2>2, <2>5
    <2> QED BY <1>4, <2>1, <2>2, <2>4, <2>6, <2>7, AnswerSafe DEF n
  <1>11. CASE CreateFailed(c)
    <2> DEFINE v == wizard[n]
    <2>1. c.kind = "create" /\ UNCHANGED <<wizard, made, kept>>
      BY <1>11 DEF CreateFailed
    <2>2. v \in Wizards /\ wizard' = [wizard EXCEPT ![n] = v]
      BY <1>1, <2>1
    <2>3. made' \in made..MaxMade /\ kept' \subseteq 1..made' /\ kept \ kept' \subseteq {c.test}
      BY <1>6, <2>1
    <2>4. v.result \in {0, wizard[n].result} /\ (~v.crossed => ~wizard[n].crossed)
      OBVIOUS
    <2>5. Straight(n, v, calls, kept) => Straight(n, v, calls \ {c}, kept')
      BY <2>1 DEF Straight
    <2> HIDE DEF v
    <2>6. ~v.crossed /\ Straight(n, wizard[n], calls, kept) => Straight(n, v, calls \ {c}, kept')
      BY <2>5 DEF v
    <2> QED BY <1>4, <2>2, <2>3, <2>4, <2>6, AnswerSafe
  <1>12. CASE Cancelled(c)
    <2> DEFINE u == [w EXCEPT !.step = 1, !.result = 0]
               v == IF c.narrow THEN u ELSE [u EXCEPT !.file = FALSE, !.title = FALSE]
    <2>1. c.kind = "cancel" /\ wizard' = [wizard EXCEPT ![n] = v]
      BY <1>7, <1>12 DEF Cancelled
    <2>2. made' \in made..MaxMade /\ kept' \subseteq 1..made' /\ kept \ kept' \subseteq {c.test}
      BY <1>1, <1>3, <1>12 DEF Cancelled
    <2>3. FALSE \in BOOLEAN /\ 1 \in 1..4
      OBVIOUS
    <2> HIDE DEF w
    <2>4. u \in Wizards
      BY <1>2, <1>3, <2>3, Wizardly
    <2>5. /\ u.mode = w.mode /\ u.step = 1 /\ u.result = 0 /\ u.crossed = w.crossed
          /\ u.uploading = w.uploading
      BY <1>2, <2>4 DEF Wizards
    <2> HIDE DEF u
    <2> DEFINE s == [u EXCEPT !.file = FALSE, !.title = FALSE]
    <2>6. s \in Wizards
      BY <2>3, <2>4, Wizardly
    <2>7. /\ s.mode = u.mode /\ s.step = u.step /\ s.result = u.result /\ s.crossed = u.crossed
          /\ s.uploading = u.uploading
      BY <2>4, <2>6 DEF Wizards
    <2>8. v \in {u, s}
      OBVIOUS
    <2> HIDE DEF s, v, n
    <2>9. /\ v \in Wizards /\ v.mode = w.mode /\ v.step = 1 /\ v.result = 0
          /\ v.crossed = w.crossed /\ v.uploading = w.uploading
      BY <2>4, <2>5, <2>6, <2>7, <2>8
    <2>10. ~v.crossed /\ Straight(n, wizard[n], calls, kept) => Straight(n, v, calls \ {c}, kept')
      BY <1>2, <2>1, <2>9 DEF Straight, n
    <2>11. (~v.crossed => ~wizard[n].crossed) /\ v.result \in {0, wizard[n].result}
      BY <1>2, <2>9
    <2> QED BY <1>4, <2>1, <2>2, <2>9, <2>10, <2>11, AnswerSafe DEF n
  <1> QED BY <1>8, <1>9, <1>10, <1>11, <1>12

LEMMA RenderSafe == ASSUME WizardInv, NEW n \in BOOLEAN, WizardRender(n) PROVE WizardInv'
  <1>1. calls \subseteq Calls /\ wizard \in [BOOLEAN -> Wizards]
    BY DEF WizardInv, WizardTypeOK
  <1>2. PICK mode \in WizardModes :
          wizard' = [wizard EXCEPT ![n] = Fresh(mode, @.crossed \/ Waiting(n))]
    BY DEF WizardRender
  <1> DEFINE x == wizard[n].crossed \/ Waiting(n)
             w == Fresh(mode, x)
             Away(c) == IF c.narrow = n /\ c.own
                          THEN [c EXCEPT !.own = FALSE, !.mode = wizard[n].mode] ELSE c
  <1>3. x \in BOOLEAN /\ wizard[n].mode \in WizardModes
    BY <1>1 DEF Wizards, Waiting
  <1>4. wizard' = [wizard EXCEPT ![n] = w] /\ UNCHANGED <<made, kept>>
    BY <1>1, <1>2 DEF WizardRender
  <1>5. calls' = {Away(c) : c \in calls}
    BY DEF WizardRender
  <1>6. ASSUME NEW c \in Calls
        PROVE  /\ Away(c) \in Calls /\ Away(c).narrow = c.narrow /\ Away(c).test = c.test
               /\ c.narrow # n => Away(c) = c
    <2> DEFINE m == wizard[n].mode
               no == FALSE
               d == [c EXCEPT !.own = no, !.mode = m]
    <2>1. m \in WizardModes /\ no \in BOOLEAN
      BY <1>3
    <2>2. Away(c) = c \/ (c.narrow = n /\ Away(c) = d)
      OBVIOUS
    <2> HIDE DEF m, no, Away
    <2>3. d \in Calls /\ d.narrow = c.narrow /\ d.test = c.test
      BY <2>1 DEF Calls
    <2> HIDE DEF d
    <2> QED BY <2>2, <2>3
  <1> HIDE DEF Away
  <1>7. calls' \subseteq Calls
    BY <1>1, <1>5, <1>6
  <1>8. \A c \in calls' : \E d \in calls : d.narrow = c.narrow /\ d.test = c.test /\ c = Away(d)
    BY <1>1, <1>5, <1>6
  <1>9. \A c \in calls \cup calls' : c.narrow # n => (c \in calls <=> c \in calls')
    <2>1. ASSUME NEW c \in calls, c.narrow # n PROVE c \in calls'
      BY <1>1, <1>5, <1>6, <2>1
    <2>2. ASSUME NEW c \in calls', c.narrow # n PROVE c \in calls
      BY <1>1, <1>6, <1>8, <2>2
    <2> QED BY <2>1, <2>2
  <1>10. w \in Wizards /\ w.result = 0 /\ w.crossed = x
         /\ ((\A c \in calls' : c.narrow # n) => Straight(n, w, calls', kept'))
    BY <1>3, FreshStraight
  <1>11. ~x => \A c \in calls' : c.narrow # n
    BY <1>8 DEF Waiting
  <1> HIDE DEF w, x
  <1>12. ~w.crossed => Straight(n, w, calls', kept')
    BY <1>10, <1>11
  <1>13. made' \in made..MaxMade /\ kept' \subseteq 1..made' /\ kept \ kept' = {}
    BY <1>4, WizardBounds DEF WizardInv, WizardTypeOK
  <1>14. /\ w.result \in {0, wizard[n].result}
         /\ \A c \in calls' : c.narrow = n => \E d \in calls : d.narrow = n /\ d.test = c.test
    BY <1>8, <1>10
  <1> QED BY <1>4, <1>7, <1>9, <1>10, <1>12, <1>13, <1>14, WizardMoves

LEMMA WizardInvStep ==
  RouterTypeOK /\ WizardInv /\ [ScreensNext]_screensVars => WizardInv'
  <1> SUFFICES ASSUME RouterTypeOK, WizardInv, [ScreensNext]_screensVars PROVE WizardInv'
    OBVIOUS
  <1>1. CASE UNCHANGED wizardVars
    BY <1>1, WizardHeld
  <1>2. CASE Mount
    <2>1. PICK i \in imports :
            IF Mounts(i) THEN Opens(ScreenOf(i), i.narrow)
            ELSE UNCHANGED <<badge, wizardVars, editorVars, collectionVars, inboxVars, peopleVars>>
      BY <1>2 DEF Mount
    <2>2. UNCHANGED wizardVars \/ WizardRender(i.narrow)
      BY <2>1 DEF Opens
    <2>3. i.narrow \in BOOLEAN
      BY DEF RouterTypeOK
    <2> QED BY <1>1, <2>2, <2>3, RenderSafe
  <1>3. CASE WizardStep
    <2>1. ASSUME NEW n \in BOOLEAN, OpenTest(n) PROVE WizardInv'
      BY <1>1, <2>1 DEF OpenTest
    <2>2. ReplaceFile => WizardInv'
      BY UserSafe
    <2> QED BY <1>3, <2>1, <2>2, UserSafe, ServerSafe DEF WizardStep
  <1>4. CASE UNCHANGED screensVars
    BY <1>1, <1>4 DEF screensVars
  <1> QED BY <1>1, <1>2, <1>3, <1>4 DEF ScreensNext, Route

LEMMA ScreensPlaces == ScreensSpec => []RouterTypeOK
  BY ScreensFollowRouter, RouterTypeCorrect, PTL

\* However the answers come in on both breakpoints, a wizard that was not opened again or
\* switched while it waited shows the progress of its own upload, and a preview or a success
\* card only of a test that the server has (doUpload, doCreate, the cancel button).
THEOREM WizardSound == ScreensSpec => []WizardTruthful
  <1>1. ScreensInit => WizardInv
    <2> SUFFICES ASSUME WizardInit PROVE WizardInv
      BY DEF ScreensInit
    <2>1. "import" \in WizardModes /\ FALSE \in BOOLEAN
      BY DEF WizardModes
    <2>2. \A n \in BOOLEAN : wizard[n] = Fresh("import", FALSE) /\ wizard[n].result = 0
      BY <2>1, FreshStraight DEF WizardInit
    <2> DEFINE f == Fresh("import", FALSE)
    <2>6. f \in Wizards /\ f.result = 0
      BY <2>1, FreshStraight
    <2>7. wizard = [n \in BOOLEAN |-> f] /\ calls = {} /\ made = 0 /\ kept = {}
      BY DEF WizardInit
    <2> HIDE DEF f
    <2>3. WizardTypeOK
      BY <2>6, <2>7, WizardBounds DEF WizardTypeOK
    <2>4. Apart(wizard, calls, made)
      <3>1. \A n \in BOOLEAN : wizard[n].result = 0
        BY <2>6, <2>7
      <3> QED BY <2>7, <3>1 DEF Apart
    <2>5. \A n \in BOOLEAN : Straight(n, wizard[n], calls, kept)
      BY <2>1, <2>2, FreshStraight DEF WizardInit
    <2> QED BY <2>3, <2>4, <2>5 DEF WizardInv
  <1>2. WizardInv => WizardTruthful
    <2> SUFFICES ASSUME WizardInv, NEW n \in BOOLEAN, ~wizard[n].crossed
                 PROVE  LET w == wizard[n] IN
                          /\ (w.mode = "import" /\ w.step = 2)
                               => w.uploading /\ \E c \in calls : c.narrow = n /\ c.kind = "upload" /\ c.own
                          /\ (w.step > 2 \/ (w.mode = "create" /\ w.step = 2)) => w.result \in kept
      BY DEF WizardTruthful
    <2>1. Straight(n, wizard[n], calls, kept)
      BY DEF WizardInv
    <2> QED BY <2>1 DEF Straight
  <1> QED BY <1>1, <1>2, WizardInvStep, ScreensPlaces, PTL DEF ScreensSpec

(***************************************************************************)
(* The lists and the settings: their types.                                *)
(***************************************************************************)

LEMMA GetSound ==
  ASSUME NEW id \in 1..MaxGets, NEW narrow \in BOOLEAN, NEW kind \in Kinds, NEW f \in Filters,
         NEW offset \in Nat, NEW value \in Payload(kind)
  PROVE  /\ GetOK(Get(id, narrow, kind, f, offset, value))
         /\ Get(id, narrow, kind, f, offset, value).id = id
         /\ Get(id, narrow, kind, f, offset, value).narrow = narrow
         /\ Get(id, narrow, kind, f, offset, value).own
         /\ Get(id, narrow, kind, f, offset, value).kind = kind
         /\ Get(id, narrow, kind, f, offset, value).filter = f
         /\ Get(id, narrow, kind, f, offset, value).offset = offset
         /\ Get(id, narrow, kind, f, offset, value).value = value
  <1> DEFINE yes == TRUE
             g == [id |-> id, narrow |-> narrow, own |-> yes, kind |-> kind, filter |-> f,
                   offset |-> offset, value |-> value]
             payloads == UNION {Payload(k) : k \in Kinds}
  <1>1. Get(id, narrow, kind, f, offset, value) = g /\ yes \in BOOLEAN /\ yes
    BY DEF Get
  <1>2. value \in payloads
    OBVIOUS
  <1> HIDE DEF yes, payloads
  <1>3. g \in [id: 1..MaxGets, narrow: BOOLEAN, own: BOOLEAN, filter: Filters, offset: Nat,
            kind: Kinds, value: payloads]
    BY <1>1, <1>2
  <1>4. /\ g.id = id /\ g.narrow = narrow /\ g.own = yes /\ g.kind = kind /\ g.filter = f
        /\ g.offset = offset /\ g.value = value
    OBVIOUS
  <1> HIDE DEF g
  <1>5. g \in Fetches
    BY <1>3 DEF Fetches, payloads
  <1>6. g.own
    BY <1>1, <1>4
  <1> QED BY <1>1, <1>4, <1>5, <1>6 DEF GetOK

\* A request that its screen has left.
LEMMA LeftSound ==
  ASSUME NEW g, GetOK(g)
  PROVE  /\ \A own \in BOOLEAN : 
              /\ GetOK([g EXCEPT !.own = own])
              /\ [g EXCEPT !.own = own].own = own
              /\ [g EXCEPT !.own = own].narrow = g.narrow
              /\ [g EXCEPT !.own = own].kind = g.kind
              /\ [g EXCEPT !.own = own].value = g.value
         /\ [g EXCEPT !.own = g.own] = g
  <1> DEFINE payloads == UNION {Payload(k) : k \in Kinds}
  <1>1. g \in [id: 1..MaxGets, narrow: BOOLEAN, own: BOOLEAN, filter: Filters, offset: Nat,
            kind: Kinds, value: payloads]
    BY DEF GetOK, Fetches
  <1> HIDE DEF payloads
  <1>2. ASSUME NEW own \in BOOLEAN
        PROVE  /\ [g EXCEPT !.own = own] \in [id: 1..MaxGets, narrow: BOOLEAN, own: BOOLEAN,
                    filter: Filters, offset: Nat, kind: Kinds, value: payloads]
               /\ [g EXCEPT !.own = own].own = own
               /\ [g EXCEPT !.own = own].narrow = g.narrow
               /\ [g EXCEPT !.own = own].kind = g.kind
               /\ [g EXCEPT !.own = own].value = g.value
    BY <1>1
  <1>3. [g EXCEPT !.own = g.own] = g
    BY <1>1
  <1> QED BY <1>2, <1>3 DEF GetOK, Fetches, payloads

LEMMA PageFacts ==
  ASSUME totals \in [Filters -> 0..MaxRows], NEW f \in Filters, NEW offset \in Nat
  PROVE  /\ Page(f, offset) \in Seq(AnyRows)
         /\ \A i \in 1..Len(Page(f, offset)) : Page(f, offset)[i] = <<f, offset + i>>
  <1> DEFINE k == IF offset > totals[f] THEN 0 ELSE Fewer(PageSize, totals[f] - offset)
             p == [i \in 1..k |-> <<f, offset + i>>]
  <1>1. k \in Nat
    <2>1. totals[f] \in Nat
      BY CollectionBounds
    <2> QED BY <2>1, CollectionBounds DEF Fewer
  <1>2. Page(f, offset) = p
    BY DEF Page
  <1> HIDE DEF k
  <1>3. \A i \in 1..k : <<f, offset + i>> \in AnyRows
    BY DEF AnyRows
  <1>4. p \in [1..k -> AnyRows]
    BY <1>3
  <1>5. p \in Seq(AnyRows) /\ Len(p) = k
    BY <1>1, <1>4
  <1> QED BY <1>2, <1>5

\* What a step does to the requests under way: it keeps those it does not answer.
LEMMA SendTyped ==
  ASSUME \A g \in gets : GetOK(g),
         NEW narrow \in BOOLEAN, NEW kind \in Kinds, NEW f \in Filters, NEW offset \in Nat,
         NEW value \in Payload(kind), Send(narrow, kind, f, offset, value)
  PROVE  \E g : /\ GetOK(g) /\ gets' = gets \cup {g}
                /\ g.narrow = narrow /\ g.own /\ g.kind = kind /\ g.filter = f
                /\ g.offset = offset /\ g.value = value
  <1> DEFINE id == CHOOSE i \in Free : TRUE
             g == Get(id, narrow, kind, f, offset, value)
  <1>1. id \in Free /\ gets' = gets \cup {g}
    BY DEF Send
  <1>2. id \in 1..MaxGets
    BY <1>1 DEF Free
  <1> HIDE DEF id
  <1>3. /\ GetOK(g) /\ g.narrow = narrow /\ g.own /\ g.kind = kind /\ g.filter = f
        /\ g.offset = offset /\ g.value = value
    BY <1>2, GetSound
  <1> HIDE DEF g
  <1> QED BY <1>1, <1>3

LEMMA FieldsOfGet ==
  ASSUME NEW g, GetOK(g)
  PROVE  /\ g.id \in 1..MaxGets /\ g.narrow \in BOOLEAN /\ g.own \in BOOLEAN /\ g.filter \in Filters
         /\ g.offset \in Nat /\ g.kind \in Kinds /\ g.value \in Payload(g.kind)
  BY DEF GetOK, Fetches

LEMMA Payloads ==
  /\ Payload("first") = AnyRows /\ Payload("page") = AnyRows
  /\ Payload("detail") = Askings /\ Payload("load") = Askings
  /\ Payload("chip") = Presses /\ Payload("title") = Forms /\ Payload("level") = Forms
  /\ Payload("rename") = 0..MaxTitles
  /\ {"first", "page", "detail", "load", "chip", "title", "level", "rename"} = Kinds
  /\ NoRow \in AnyRows /\ OwnRow \in AnyRows
  /\ {"my", "shared", "public"} = Filters /\ {"private", "shared", "public"} = Levels
  /\ Loading = {"detail", "load"} /\ Changing = {"chip", "title", "level", "rename"}
  BY DEF Payload, Kinds, NoRow, OwnRow, AnyRows, Filters, Levels, Loading, Changing

\* A request whose payload is changed.
LEMMA ValueSound ==
  ASSUME NEW g, GetOK(g), NEW v \in Payload(g.kind)
  PROVE  LET h == [g EXCEPT !.value = v] IN
         GetOK(h) /\ h.kind = g.kind /\ h.narrow = g.narrow /\ h.own = g.own /\ h.value = v
  <1> DEFINE payloads == UNION {Payload(k) : k \in Kinds}
             h == [g EXCEPT !.value = v]
  <1>1. g \in [id: 1..MaxGets, narrow: BOOLEAN, own: BOOLEAN, filter: Filters, offset: Nat,
               kind: Kinds, value: payloads]
    BY DEF GetOK, Fetches
  <1>2. v \in payloads
    BY DEF GetOK, Fetches
  <1> HIDE DEF payloads
  <1>3. /\ h \in [id: 1..MaxGets, narrow: BOOLEAN, own: BOOLEAN, filter: Filters, offset: Nat,
                  kind: Kinds, value: payloads]
        /\ h.kind = g.kind /\ h.narrow = g.narrow /\ h.own = g.own /\ h.value = v
    BY <1>1, <1>2
  <1> HIDE DEF h
  <1> QED BY <1>3 DEF GetOK, Fetches, payloads, h

\* What a detail or an edit screen is loading, and a save that overlaps with it.
LEMMA AskingSound ==
  ASSUME saved \in Bodies, NEW row \in AnyRows
  PROVE  /\ Asking(row) \in Askings /\ Asking(row).saw = saved
         /\ Asking(row).doubt = \E g \in gets : g.kind \in Changing
  <1> DEFINE doubt == \E g \in gets : g.kind \in Changing
             a == [row |-> row, saw |-> saved, doubt |-> doubt]
  <1>1. Asking(row) = a /\ doubt \in BOOLEAN
    BY DEF Asking
  <1> HIDE DEF doubt
  <1>2. a \in Askings /\ a.saw = saved /\ a.doubt = doubt
    BY <1>1 DEF Askings
  <1> HIDE DEF a
  <1> QED BY <1>1, <1>2 DEF doubt

LEMMA DoubtedGives ==
  ASSUME NEW g, GetOK(g)
  PROVE  LET h == Doubted(g) IN
         /\ GetOK(h) /\ h.kind = g.kind
         /\ g.kind \notin Loading => h = g
         /\ g.kind \in Loading => h.value.doubt
  <1>1. CASE g.kind \notin Loading
    BY <1>1 DEF Doubted
  <1>2. CASE g.kind \in Loading
    <2> DEFINE yes == TRUE
               b == g.value
               v == [b EXCEPT !.doubt = yes]
               h == [g EXCEPT !.value = v]
    <2>1. Doubted(g) = [g EXCEPT !.value.doubt = yes] /\ yes \in BOOLEAN /\ yes
      BY <1>2 DEF Doubted
    <2>2. b \in Askings
      BY <1>2, FieldsOfGet, Payloads
    <2> HIDE DEF yes
    <2>3. [g EXCEPT !.value.doubt = yes] = h
      BY DEF GetOK, Fetches
    <2> HIDE DEF b
    <2>4. v \in Askings /\ v.doubt = yes
      BY <2>1, <2>2 DEF Askings
    <2> HIDE DEF v
    <2>5. v \in Payload(g.kind)
      BY <1>2, <2>4, Payloads
    <2>6. GetOK(h) /\ h.kind = g.kind /\ h.value = v
      BY <2>5, ValueSound
    <2> HIDE DEF h
    <2> QED BY <1>2, <2>1, <2>3, <2>4, <2>6
  <1> QED BY <1>1, <1>2

\* What a save does to the requests under way: it puts the loads in doubt.
LEMMA StoreTyped ==
  ASSUME \A g \in gets : GetOK(g), NEW narrow \in BOOLEAN, NEW kind \in Kinds,
         NEW value \in Payload(kind), Store(narrow, kind, value)
  PROVE  \E g : /\ GetOK(g) /\ gets' = {Doubted(h) : h \in gets} \cup {g}
                /\ g.narrow = narrow /\ g.own /\ g.kind = kind /\ g.value = value
  <1> DEFINE id == CHOOSE i \in Free : TRUE
             my == "my"
             zero == 0
             g == Get(id, narrow, kind, my, zero, value)
             olds == {Doubted(h) : h \in gets}
  <1>1. id \in Free /\ gets' = olds \cup {g}
    BY DEF Store
  <1>2. id \in 1..MaxGets /\ my \in Filters /\ zero \in Nat
    BY <1>1, Payloads DEF Free
  <1> HIDE DEF id, my, zero, olds
  <1>3. GetOK(g) /\ g.narrow = narrow /\ g.own /\ g.kind = kind /\ g.value = value
    BY <1>2, GetSound
  <1> HIDE DEF g
  <1> QED BY <1>1, <1>3 DEF olds

\* The pane shows another object: only the chips of the desktop notice.
LEMMA ReplacedGives ==
  ASSUME NEW gs, \A g \in gs : GetOK(g)
  PROVE  /\ \A h \in Replaced(gs) : \E g \in gs :
              /\ GetOK(h) /\ h.kind = g.kind /\ h.narrow = g.narrow /\ h.value = g.value
              /\ h.kind # "chip" \/ h.narrow => h = g
         /\ \A g \in gs : g.kind # "chip" \/ g.narrow => g \in Replaced(gs)
  <1> DEFINE no == FALSE
             After(g) == IF g.kind = "chip" /\ ~g.narrow THEN [g EXCEPT !.own = no] ELSE g
  <1>1. Replaced(gs) = {After(g) : g \in gs} /\ no \in BOOLEAN
    BY DEF Replaced
  <1> HIDE DEF no
  <1>2. ASSUME NEW g \in gs
        PROVE  /\ GetOK(After(g)) /\ After(g).kind = g.kind /\ After(g).narrow = g.narrow
               /\ After(g).value = g.value /\ (g.kind # "chip" \/ g.narrow => After(g) = g)
    <2>1. CASE g.kind = "chip" /\ ~g.narrow
      BY <1>1, <2>1, LeftSound
    <2>2. CASE ~(g.kind = "chip" /\ ~g.narrow)
      BY <2>2
    <2> QED BY <2>1, <2>2
  <1> HIDE DEF After
  <1> QED BY <1>1, <1>2

\* The fields of a list.
AsLoading(l, loading) == [l EXCEPT !.loading = loading]
AsLoaded(l, loading, exhausted) == [l EXCEPT !.loading = loading, !.exhausted = exhausted]
AsFilled(l, r, loading, exhausted) ==
  [l EXCEPT !.rows = r, !.loading = loading, !.exhausted = exhausted]
AsFiltered(l, f, r, exhausted, crossed) ==
  [l EXCEPT !.filter = f, !.rows = r, !.exhausted = exhausted, !.crossed = crossed]

LEMMA ListLoading ==
  ASSUME NEW rows, NEW l \in ListsOf(rows), NEW loading \in BOOLEAN
  PROVE  LET m == AsLoading(l, loading) IN
         /\ m \in ListsOf(rows) /\ m.rows = l.rows /\ m.filter = l.filter
         /\ m.crossed = l.crossed /\ m.loading = loading /\ m.exhausted = l.exhausted
  BY DEF ListsOf, AsLoading

LEMMA ListLoaded ==
  ASSUME NEW rows, NEW l \in ListsOf(rows), NEW loading \in BOOLEAN, NEW exhausted \in BOOLEAN
  PROVE  LET m == AsLoaded(l, loading, exhausted) IN
         /\ m \in ListsOf(rows) /\ m.rows = l.rows /\ m.filter = l.filter
         /\ m.crossed = l.crossed /\ m.loading = loading
  BY DEF ListsOf, AsLoaded

LEMMA ListFilled ==
  ASSUME NEW rows, NEW l \in ListsOf(rows), NEW r \in rows, NEW loading \in BOOLEAN,
         NEW exhausted \in BOOLEAN
  PROVE  LET m == AsFilled(l, r, loading, exhausted) IN
         /\ m \in ListsOf(rows) /\ m.rows = r /\ m.filter = l.filter
         /\ m.crossed = l.crossed /\ m.loading = loading
  BY DEF ListsOf, AsFilled

LEMMA ListFiltered ==
  ASSUME NEW rows, NEW l \in ListsOf(rows), NEW f \in Filters, NEW r \in rows,
         NEW exhausted \in BOOLEAN, NEW crossed \in BOOLEAN
  PROVE  LET m == AsFiltered(l, f, r, exhausted, crossed) IN
         /\ m \in ListsOf(rows) /\ m.rows = r /\ m.filter = f
         /\ m.crossed = crossed /\ m.loading = l.loading /\ m.exhausted = exhausted
  BY DEF ListsOf, AsFiltered

LEMMA EmptyList ==
  /\ NoList \in AnyList /\ ~NoList.open /\ ~NoList.loading /\ ~NoList.crossed
  /\ NoList.rows = <<>> /\ NoList.filter = "my" /\ <<>> \in Seq(AnyRows)
  <1> DEFINE no == FALSE
             my == "my"
             none == <<>>
  <1>1. no \in BOOLEAN /\ ~no /\ my \in Filters /\ none \in Seq(AnyRows)
    BY DEF Filters
  <1>2. NoList = [open |-> no, filter |-> my, rows |-> none, loading |-> no,
                  exhausted |-> no, crossed |-> no]
    BY DEF NoList
  <1> HIDE DEF no, my, none
  <1>3. /\ NoList \in AnyList /\ NoList.open = no /\ NoList.loading = no /\ NoList.crossed = no
        /\ NoList.rows = none /\ NoList.filter = my
    BY <1>1, <1>2 DEF AnyList, ListsOf
  <1> QED BY <1>1, <1>3 DEF my, none

LEMMA ListedFields ==
  ASSUME NEW f \in Filters, NEW rows \in Seq(AnyRows), NEW exhausted \in BOOLEAN
  PROVE  LET l == Listed(f, rows, exhausted) IN
         l \in AnyList /\ l.filter = f /\ l.rows = rows /\ ~l.loading /\ ~l.crossed
  <1> DEFINE yes == TRUE
             l == [NoList EXCEPT !.open = yes, !.filter = f, !.rows = rows, !.exhausted = exhausted]
  <1>1. yes \in BOOLEAN /\ l = Listed(f, rows, exhausted)
    BY DEF Listed
  <1> HIDE DEF yes
  <1>2. /\ l \in AnyList /\ l.filter = f /\ l.rows = rows /\ l.loading = NoList.loading
        /\ l.crossed = NoList.crossed
    BY <1>1, EmptyList DEF AnyList, ListsOf
  <1> QED BY <1>1, <1>2, EmptyList

LEMMA SetupParts ==
  ASSUME NEW s \in Setups
  PROVE  /\ s.open \in BOOLEAN /\ s.title \in 0..MaxTitles /\ s.level \in Levels /\ s.was \in Bodies
         /\ s.armed \in BOOLEAN /\ s.saving \in BOOLEAN /\ s.doubt \in BOOLEAN
         /\ s.was.title \in 0..MaxTitles /\ s.was.level \in Levels
  BY DEF Setups, Bodies

LEMMA EmptyChips == NoChips \in ChipRows /\ ~NoChips.open /\ NoChips.doubt
  <1> DEFINE no == FALSE
             yes == TRUE
             private == "private"
  <1>1. no \in BOOLEAN /\ ~no /\ yes \in BOOLEAN /\ yes /\ private \in Levels
    BY DEF Levels
  <1>2. NoChips = [open |-> no, level |-> private, shown |-> private, doubt |-> yes]
    BY DEF NoChips
  <1> HIDE DEF no, yes, private
  <1>3. NoChips \in ChipRows /\ NoChips.open = no /\ NoChips.doubt = yes
    BY <1>1, <1>2 DEF ChipRows
  <1> QED BY <1>1, <1>3

LEMMA EmptySetup == NoSetup \in Setups /\ ~NoSetup.open /\ ~NoSetup.saving
  <1> DEFINE no == FALSE
             private == "private"
             zero == 0
             was == [title |-> zero, level |-> private]
  <1>1. no \in BOOLEAN /\ ~no /\ private \in Levels /\ zero \in 0..MaxTitles
    BY CollectionBounds DEF Levels
  <1>2. NoSetup = [open |-> no, title |-> zero, level |-> private, was |-> was,
                   armed |-> no, saving |-> no, doubt |-> no]
    BY DEF NoSetup
  <1> HIDE DEF no, private, zero
  <1>3. was \in Bodies
    BY <1>1 DEF Bodies
  <1> HIDE DEF was
  <1>4. NoSetup \in Setups /\ NoSetup.open = no /\ NoSetup.saving = no
    BY <1>1, <1>2, <1>3 DEF Setups
  <1> QED BY <1>1, <1>4

\* The settings are left: their requests go on, but only a first page and the loading of the
\* phone's edit screen are still theirs.
LEMMA AbandonedGives ==
  ASSUME setup \in Setups, NEW g, GetOK(g)
  PROVE  LET h == Abandoned(g) IN
         /\ GetOK(h) /\ h.kind = g.kind
         /\ g.kind \in Loading => h.value = g.value
         /\ h.own => h.kind \in {"first", "load"} /\ h = g
  <1>2. CASE g.kind = "title" /\ g.own /\ setup.level # setup.was.level
    <2> DEFINE yes == TRUE
               no == FALSE
               level0 == setup.level
               f == g.value
               b == [f EXCEPT !.level = level0, !.more = yes]
               k == [g EXCEPT !.own = no]
               h == [k EXCEPT !.value = b]
    <2>1. Abandoned(g) = [g EXCEPT !.own = no, !.value.level = level0, !.value.more = yes]
      BY <1>2 DEF Abandoned
    <2>2. f \in Forms /\ no \in BOOLEAN /\ ~no /\ yes \in BOOLEAN /\ level0 \in Levels
      BY <1>2, FieldsOfGet, SetupParts, Payloads
    <2> HIDE DEF no, yes, level0
    <2>3. [g EXCEPT !.own = no, !.value.level = level0, !.value.more = yes] = h
      BY <2>2 DEF GetOK, Fetches, Forms
    <2> HIDE DEF f
    <2>4. b \in Forms
      BY <2>2 DEF Forms
    <2> HIDE DEF b
    <2>5. GetOK(k) /\ k.own = no /\ k.kind = g.kind
      BY <2>2, LeftSound
    <2> HIDE DEF k
    <2>6. b \in Payload(k.kind)
      BY <1>2, <2>4, <2>5, Payloads
    <2>7. GetOK(h) /\ h.kind = k.kind /\ h.own = k.own
      BY <2>5, <2>6, ValueSound
    <2> HIDE DEF h
    <2> QED BY <1>2, <2>1, <2>2, <2>3, <2>5, <2>7, Payloads
  <1>3. CASE ~(g.kind = "title" /\ g.own /\ setup.level # setup.was.level)
    <2> DEFINE own == g.own /\ (g.kind = "first" \/ (g.kind = "load" /\ g.narrow))
               h == [g EXCEPT !.own = own]
    <2>1. Abandoned(g) = h
      BY <1>3 DEF Abandoned
    <2>2. own \in BOOLEAN /\ (own => g.own = own /\ g.kind \in {"first", "load"})
      BY FieldsOfGet
    <2> HIDE DEF own
    <2>3. GetOK(h) /\ h.own = own /\ h.kind = g.kind /\ h.value = g.value
      BY <2>2, LeftSound
    <2>4. own => h = g
      BY <2>2, LeftSound
    <2> HIDE DEF h
    <2> QED BY <2>1, <2>2, <2>3, <2>4
  <1> QED BY <1>2, <1>3

\* Another rendering of the screen: what it asked for before is stale.
LEMMA RenewedGives ==
  ASSUME setup \in Setups, \A g \in gets : GetOK(g), NEW kind, NEW n
  PROVE  \A h \in Renewed(kind, n) : \E g \in gets :
           /\ GetOK(h) /\ h.kind = g.kind
           /\ g.kind \in Loading => h.value = g.value
           /\ h.own => h.kind \in {"first", "load"} /\ h = g /\ (h.kind # kind \/ h.narrow # n)
  <1> SUFFICES ASSUME NEW h \in Renewed(kind, n)
               PROVE  \E g \in gets :
                        /\ GetOK(h) /\ h.kind = g.kind
                        /\ g.kind \in Loading => h.value = g.value
                        /\ h.own => /\ h.kind \in {"first", "load"} /\ h = g
                                    /\ h.kind # kind \/ h.narrow # n
    OBVIOUS
  <1>1. PICK g \in gets : h = IF g.kind = kind /\ g.narrow = n THEN [g EXCEPT !.own = FALSE] ELSE Abandoned(g)
    BY DEF Renewed
  <1>2. CASE g.kind = kind /\ g.narrow = n
    <2> DEFINE no == FALSE
    <2>1. h = [g EXCEPT !.own = no] /\ ~no /\ no \in BOOLEAN
      BY <1>1, <1>2
    <2> HIDE DEF no
    <2>2. GetOK(h) /\ h.own = no /\ h.kind = g.kind /\ h.value = g.value
      BY <2>1, LeftSound
    <2> QED BY <2>1, <2>2
  <1>3. CASE ~(g.kind = kind /\ g.narrow = n)
    <2>1. h = Abandoned(g)
      BY <1>1, <1>3
    <2> QED BY <1>3, <2>1, AbandonedGives
  <1> QED BY <1>2, <1>3

LEMMA ShutGives ==
  ASSUME ShutSettings
  PROVE  /\ chips' \in [BOOLEAN -> ChipRows] /\ (\A n \in BOOLEAN : chips'[n] = NoChips)
         /\ setup' \in Setups /\ ~setup'.open
  BY EmptyChips, EmptySetup DEF ShutSettings

\* A request of a step that stores nothing: one that was under way, or a load that is sent.
Carried(h) == \E g \in gets : h.kind = g.kind /\ (g.kind \in Loading => h.value = g.value)
Queried(h) ==
  h.kind \in Loading /\ h.value.saw = saved /\ h.value.doubt = \E g \in gets : g.kind \in Changing
Harmless(h) == Carried(h) \/ Queried(h) \/ h.kind \notin Loading \cup Changing

\* The edit screen is rendered.
LEMMA ScreenGives ==
  ASSUME setup \in Setups, saved \in Bodies, \A g \in gets : GetOK(g), NEW n \in BOOLEAN,
         SettingsScreen(n)
  PROVE  /\ ShutSettings /\ UNCHANGED <<totals, lists, saved>>
         /\ \A h \in gets' : /\ GetOK(h) /\ (h.own /\ h.kind \in {"first", "page"} => h \in gets)
                             /\ Harmless(h)
  <1> DEFINE id == CHOOSE i \in Free : TRUE
             my == "my"
             zero == 0
             load == "load"
             asking == Asking(OwnRow)
             new == Get(id, n, load, my, zero, asking)
             olds == Renewed(load, n)
  <1>1. gets' = olds \cup {new} /\ ShutSettings /\ UNCHANGED <<totals, lists, saved>>
    BY DEF SettingsScreen
  <1>2. id \in 1..MaxGets
    BY DEF SettingsScreen, Free
  <1>3. my \in Filters /\ zero \in Nat /\ load \in Kinds /\ load \in Loading /\ asking \in Payload(load)
    BY AskingSound, Payloads
  <1>4. asking.saw = saved /\ asking.doubt = \E g \in gets : g.kind \in Changing
    BY AskingSound, Payloads
  <1>5. \A h \in olds : \E g \in gets :
           /\ GetOK(h) /\ h.kind = g.kind /\ (g.kind \in Loading => h.value = g.value)
           /\ h.own => h = g
    BY RenewedGives
  <1>6. load \notin {"first", "page"}
    OBVIOUS
  <1> HIDE DEF id, my, zero, load, asking, olds
  <1>7. GetOK(new) /\ new.kind = load /\ new.value = asking
    BY <1>2, <1>3, GetSound
  <1> HIDE DEF new
  <1>8. GetOK(new) /\ new.kind \notin {"first", "page"} /\ Queried(new)
    BY <1>3, <1>4, <1>6, <1>7 DEF Queried
  <1> QED BY <1>1, <1>5, <1>8 DEF Harmless, Carried

(***************************************************************************)
(* The lists.                                                              *)
(***************************************************************************)

\* A step of one list leaves the other as it was.
LEMMA ListMoves ==
  ASSUME ListsInv, UNCHANGED totals, SettingsTyped', NEW n \in BOOLEAN, NEW l \in AnyList,
         lists' = [lists EXCEPT ![n] = l],
         \A g \in gets' : GetOK(g),
         \A g \in gets' : g.narrow # n /\ g.own /\ g.kind \in {"first", "page"} => g \in gets,
         ListSound(n, l, gets')
  PROVE  ListsInv'
  <1>1. PICK m \in BOOLEAN : m # n /\ \A k \in BOOLEAN : k = n \/ k = m
    OBVIOUS
  <1>2. lists \in [BOOLEAN -> AnyList] /\ totals \in [Filters -> 0..MaxRows]
    BY DEF ListsInv, CollectionTyped
  <1>3. lists' \in [BOOLEAN -> AnyList] /\ lists'[n] = l /\ lists'[m] = lists[m]
    BY <1>1, <1>2
  <1>4. CollectionTyped'
    BY <1>2, <1>3 DEF CollectionTyped, SettingsTyped
  <1>5. ListSound(m, lists[m], gets')
    <2>1. ListSound(m, lists[m], gets)
      BY DEF ListsInv
    <2>2. \A g \in Paging(m, gets') : g \in Paging(m, gets)
      BY <1>1 DEF Paging
    <2> QED BY <2>1, <2>2 DEF ListSound
  <1>6. \A k \in BOOLEAN : ListSound(k, lists'[k], gets')
    BY <1>1, <1>3, <1>5
  <1> QED BY <1>4, <1>6 DEF ListsInv

LEMMA ListsStay ==
  ASSUME ListsInv, UNCHANGED <<totals, lists>>, SettingsTyped',
         \A g \in gets' : GetOK(g),
         \A g \in gets' : g.own /\ g.kind \in {"first", "page"} => g \in gets
  PROVE  ListsInv'
  <1>1. CollectionTyped'
    BY DEF ListsInv, CollectionTyped, SettingsTyped
  <1>2. ASSUME NEW n \in BOOLEAN PROVE ListSound(n, lists[n], gets')
    <2>1. ListSound(n, lists[n], gets)
      BY DEF ListsInv
    <2>2. \A g \in Paging(n, gets') : g \in Paging(n, gets)
      BY DEF Paging
    <2> QED BY <2>1, <2>2 DEF ListSound
  <1> QED BY <1>1, <1>2 DEF ListsInv

LEMMA StartsSound ==
  ASSUME CollectionTyped, NEW narrow \in BOOLEAN, NEW f \in Filters, NEW l \in Starts(narrow, f)
  PROVE  l \in AnyList /\ ~l.loading /\ Numbered(l)
  <1> DEFINE rows == Page(f, 0)
             ends == Ends(f, 0) /\ (narrow \/ f # "public" \/ totals[f] > 0)
             list == Listed(f, rows, ends)
             public == Listed("public", <<>>, FALSE)
  <1>1. ends \in BOOLEAN /\ "public" \in Filters
    BY DEF Ends, Filters
  <1>2. rows \in Seq(AnyRows) /\ \A i \in 1..Len(rows) : rows[i] = <<f, i>>
    <2>1. totals \in [Filters -> 0..MaxRows] /\ 0 \in Nat
      BY DEF CollectionTyped
    <2>2. rows \in Seq(AnyRows) /\ \A i \in 1..Len(rows) : rows[i] = <<f, 0 + i>>
      BY <2>1, PageFacts
    <2>3. Len(rows) \in Nat
      BY <2>2
    <2> QED BY <2>2, <2>3
  <1>3. l \in {NoList, list, public}
    <2>1. l \in {NoList, list} \cup (IF narrow THEN {public} ELSE {})
      BY DEF Starts
    <2> HIDE DEF list, public
    <2> QED BY <2>1
  <1> HIDE DEF rows, ends
  <1>4. list \in AnyList /\ list.filter = f /\ list.rows = rows /\ ~list.loading /\ ~list.crossed
    BY <1>1, <1>2, ListedFields
  <1>5. public \in AnyList /\ public.rows = <<>> /\ ~public.loading /\ ~public.crossed
    BY <1>1, EmptyList, ListedFields
  <1>6. Numbered(list)
    BY <1>2, <1>4 DEF Numbered
  <1> HIDE DEF list, public
  <1>7. Numbered(public) /\ Numbered(NoList)
    <2>1. Len(<<>>) = 0
      OBVIOUS
    <2> QED BY <1>5, <2>1, EmptyList DEF Numbered
  <1> QED BY <1>3, <1>4, <1>5, <1>6, <1>7, EmptyList

LEMMA HomeSafe ==
  ASSUME ListsInv, NEW n \in BOOLEAN, HomeScreen(n)
  PROVE  /\ ListsInv' /\ ShutSettings /\ UNCHANGED saved
         /\ \A h \in gets' : Harmless(h)
  <1>1. (\A g \in gets : GetOK(g)) /\ setup \in Setups /\ saved \in Bodies
    BY DEF ListsInv, CollectionTyped
  <1> DEFINE id == CHOOSE i \in Free : TRUE
             first == "first"
             zero == 0
             olds == Renewed(first, n)
             New(f) == Get(id, n, first, f, zero, NoRow)
  <1>2. PICK f \in Filters : gets' = olds \cup {New(f)}
    BY DEF HomeScreen
  <1>3. id \in 1..MaxGets
    BY DEF HomeScreen, Free
  <1>4. /\ first = "first" /\ first \in Kinds /\ zero \in Nat /\ NoRow \in Payload(first)
        /\ first \notin Loading \cup Changing
    BY Payloads
  <1>5. \A h \in olds : \E g \in gets :
           /\ GetOK(h) /\ h.kind = g.kind /\ (g.kind \in Loading => h.value = g.value)
           /\ h.own => h.kind \in {"first", "load"} /\ h = g /\ (h.kind # first \/ h.narrow # n)
    BY <1>1, RenewedGives
  <1> DEFINE new == New(f)
  <1> HIDE DEF id, first, zero, olds
  <1>6. GetOK(new) /\ new.kind = first /\ new.narrow = n
    BY <1>3, <1>4, GetSound
  <1> HIDE DEF new
  <1>7. gets' = olds \cup {new}
    BY <1>2 DEF new
  <1> HIDE DEF New
  <1>8. /\ \A g \in gets' : GetOK(g)
        /\ \A g \in gets' : g.narrow # n /\ g.own /\ g.kind \in {"first", "page"} => g \in gets
    BY <1>5, <1>6, <1>7
  <1>9. Paging(n, gets') \subseteq {new}
    BY <1>4, <1>5, <1>7 DEF Paging
  <1>10. ListSound(n, NoList, gets')
    BY <1>4, <1>6, <1>9, EmptyList DEF ListSound, Numbered
  <1>11. lists' = [lists EXCEPT ![n] = NoList] /\ UNCHANGED <<totals, saved>> /\ ShutSettings
    BY DEF HomeScreen
  <1>12. SettingsTyped'
    BY <1>1, <1>11, ShutGives DEF SettingsTyped
  <1>13. \A h \in gets' : Harmless(h)
    BY <1>4, <1>5, <1>6, <1>7 DEF Harmless, Carried
  <1>14. ListsInv'
    BY <1>8, <1>10, <1>11, <1>12, EmptyList, ListMoves
  <1> QED BY <1>11, <1>13, <1>14

LEMMA FirstSafe ==
  ASSUME ListsInv, NEW g \in gets, FirstListed(g) \/ FirstFailed(g)
  PROVE  ListsInv'
  <1>1. /\ \A h \in gets : GetOK(h)
        /\ \A n \in BOOLEAN : ListSound(n, lists[n], gets)
        /\ lists \in [BOOLEAN -> AnyList]
        /\ CollectionTyped
    BY DEF ListsInv, CollectionTyped
  <1>2. /\ g.kind = "first" /\ UNCHANGED <<totals, saved, chips, setup>>
        /\ g.narrow \in BOOLEAN /\ g.filter \in Filters /\ g.own \in BOOLEAN /\ g.id \in 1..MaxGets
    BY <1>1, FieldsOfGet DEF FirstListed, FirstFailed
  <1>3. SettingsTyped'
    BY <1>1, <1>2 DEF CollectionTyped, SettingsTyped
  <1>4. CASE ~g.own
    <2>1. UNCHANGED lists /\ gets' = gets \ {g}
      BY <1>4 DEF FirstListed, FirstFailed
    <2> QED BY <1>1, <1>2, <1>3, <2>1, ListsStay
  <1>5. CASE g.own
    <2> DEFINE n == g.narrow
    <2>1. \A h \in gets : h.narrow = n /\ h.own /\ h.kind \in {"first", "page"} => h = g
      <3>1. g \in Paging(n, gets)
        BY <1>2, <1>5 DEF Paging
      <3> QED BY <1>1, <1>2, <3>1 DEF ListSound, Paging
    <2>2. PICK l \in AnyList : lists' = [lists EXCEPT ![n] = l] /\ Numbered(l)
      <3>1. CASE FirstListed(g)
        <4>1. PICK l \in Starts(g.narrow, g.filter) : lists' = [lists EXCEPT ![n] = l]
          BY <1>5, <3>1 DEF FirstListed
        <4> QED BY <1>1, <1>2, <4>1, StartsSound
      <3>2. CASE FirstFailed(g)
        <4> DEFINE none == <<>>
                   wide == ~g.narrow /\ g.filter # "public"
                   no == FALSE
                   public == "public"
        <4>1. none \in Seq(AnyRows) /\ Len(none) = 0 /\ wide \in BOOLEAN /\ no \in BOOLEAN
              /\ public \in Filters
          BY <1>2, EmptyList DEF Filters
        <4>2. PICK l \in {NoList, Listed(g.filter, none, wide), Listed(public, none, no)} :
                lists' = [lists EXCEPT ![n] = l]
          BY <1>5, <3>2 DEF FirstFailed
        <4> HIDE DEF none, wide, no, public
        <4>3. \A f \in Filters, e \in BOOLEAN :
                Listed(f, none, e) \in AnyList /\ Listed(f, none, e).rows = none
          BY <4>1, ListedFields
        <4>4. NoList \in AnyList /\ NoList.rows = none
          BY EmptyList DEF none
        <4>5. l \in AnyList /\ l.rows = none
          BY <1>2, <4>1, <4>2, <4>3, <4>4
        <4>6. Numbered(l)
          BY <4>1, <4>5 DEF Numbered
        <4> QED BY <4>2, <4>5, <4>6
      <3> QED BY <3>1, <3>2
    <2>3. /\ \A h \in gets' : GetOK(h)
          /\ \A h \in gets' : h.own /\ h.kind \in {"first", "page"} => h \in gets /\ h # g
      <3>1. CASE gets' = gets \ {g}
        BY <1>1, <3>1
      <3>2. CASE gets' # gets \ {g}
        <4>1. /\ FirstListed(g) /\ ~g.narrow /\ lists'[FALSE].rows # <<>>
              /\ gets' = (gets \ {g}) \cup {Get(g.id, FALSE, "detail", "my", 0, Asking(pane'.sel))}
              /\ pane' = [NoPane EXCEPT !.sel = lists'[FALSE].rows[1]]
          BY <1>5, <3>2 DEF FirstListed, FirstFailed
        <4> DEFINE rows == lists'[FALSE].rows
                   row == rows[1]
                   desk == FALSE
                   asking == Asking(row)
                   new == Get(g.id, desk, "detail", "my", 0, asking)
        <4>2. lists'[FALSE] = l /\ n = FALSE
          <5>1. n = FALSE
            BY <1>2, <4>1
          <5>2. lists' = [lists EXCEPT ![FALSE] = l]
            BY <2>2, <5>1
          <5> QED BY <1>1, <5>1, <5>2
        <4>3. rows \in Seq(AnyRows)
          BY <2>2, <4>2 DEF AnyList, ListsOf
        <4>4. row \in AnyRows
          <5>1. rows # <<>>
            BY <4>1
          <5> HIDE DEF rows
          <5>2. Len(rows) \in Nat /\ Len(rows) # 0
            BY <4>3, <5>1
          <5> QED BY <4>3, <5>2
        <4>5. pane'.sel = row
          BY <4>1 DEF NoPane
        <4>8. desk \in BOOLEAN /\ "detail" \in Kinds /\ "my" \in Filters /\ 0 \in Nat
          BY Payloads
        <4>7. gets' = (gets \ {g}) \cup {new}
          BY <4>1, <4>5
        <4> HIDE DEF row, desk
        <4>9. asking \in Payload("detail")
          BY <1>1, <4>4, AskingSound, Payloads DEF CollectionTyped
        <4> HIDE DEF asking
        <4>6. GetOK(new) /\ new.kind = "detail"
          BY <1>2, <4>8, <4>9, GetSound
        <4> HIDE DEF new
        <4> QED BY <1>1, <4>6, <4>7
      <3> QED BY <3>1, <3>2
    <2>4. Paging(n, gets') = {}
      BY <2>1, <2>3 DEF Paging
    <2>5. ListSound(n, l, gets')
      BY <2>2, <2>4 DEF ListSound
    <2> HIDE DEF n
    <2>6. n \in BOOLEAN
      BY <1>2 DEF n
    <2> QED BY <1>2, <1>3, <2>2, <2>3, <2>5, <2>6, ListMoves
  <1> QED BY <1>2, <1>4, <1>5

LEMMA LoadSafe ==
  ASSUME ListsInv, NEW n \in BOOLEAN,
         LoadMore(n) \/ \E f \in Filters : ChooseFilter(n, f)
  PROVE  ListsInv'
  <1>1. /\ \A h \in gets : GetOK(h)
        /\ ListSound(n, lists[n], gets)
        /\ lists \in [BOOLEAN -> AnyList]
        /\ CollectionTyped
    BY DEF ListsInv, CollectionTyped
  <1>2. UNCHANGED <<totals, saved, chips, setup>> /\ SettingsTyped'
    BY <1>1 DEF LoadMore, ChooseFilter, CollectionTyped, SettingsTyped
  <1> DEFINE l == lists[n]
  <1>3. /\ l \in AnyList /\ l.rows \in Seq(AnyRows) /\ Len(l.rows) \in Nat /\ l.filter \in Filters
        /\ l.crossed \in BOOLEAN /\ l.loading \in BOOLEAN /\ l.exhausted \in BOOLEAN
    <2>1. l \in AnyList
      BY <1>1
    <2> HIDE DEF l
    <2>2. l.rows \in Seq(AnyRows)
      BY <2>1 DEF AnyList, ListsOf
    <2>3. /\ l.filter \in Filters /\ l.crossed \in BOOLEAN /\ l.loading \in BOOLEAN
          /\ l.exhausted \in BOOLEAN
      BY <2>1 DEF AnyList, ListsOf
    <2> QED BY <2>1, <2>2, <2>3
  \* Sends the first page or the next one of list k, which is not loading.
  <1>4. ASSUME NEW k \in AnyList, k.filter \in Filters, k.rows \in Seq(AnyRows),
               Paging(n, gets) = {}, Numbered(k),
               lists' = [lists EXCEPT ![n] = [k EXCEPT !.loading = TRUE]],
               Send(n, "page", k.filter, Len(k.rows), NoRow)
        PROVE  ListsInv'
    <2>1. PICK g : /\ GetOK(g) /\ gets' = gets \cup {g}
                   /\ g.narrow = n /\ g.own /\ g.kind = "page" /\ g.filter = k.filter
                   /\ g.offset = Len(k.rows)
      <3>1. Len(k.rows) \in Nat /\ "page" \in Kinds /\ NoRow \in Payload("page")
        BY <1>4, Payloads
      <3> QED BY <1>1, <1>4, <3>1, SendTyped
    <2> DEFINE yes == TRUE
               m == AsLoading(k, yes)
    <2>2. yes \in BOOLEAN /\ yes
      OBVIOUS
    <2>3. lists' = [lists EXCEPT ![n] = m]
      BY <1>4 DEF AsLoading
    <2> HIDE DEF yes
    <2>4. /\ m \in AnyList /\ m.rows = k.rows /\ m.filter = k.filter
          /\ m.crossed = k.crossed /\ m.loading = yes
      BY <1>4, <2>2, ListLoading DEF AnyList
    <2> HIDE DEF m
    <2>6. Paging(n, gets') = {g}
      BY <1>4, <2>1 DEF Paging
    <2>7. Numbered(m)
      BY <1>4, <2>4 DEF ListSound, Numbered
    <2>8. ListSound(n, m, gets')
      BY <2>1, <2>2, <2>4, <2>6, <2>7 DEF ListSound
    <2>9. /\ \A h \in gets' : GetOK(h)
          /\ \A h \in gets' : h.narrow # n /\ h.own /\ h.kind \in {"first", "page"} => h \in gets
      BY <1>1, <2>1
    <2> QED BY <1>2, <2>3, <2>4, <2>8, <2>9, ListMoves
  <1>5. ~l.loading /\ l.open => Paging(n, gets) = {}
    <2>1. l = NoList => ~l.open
      BY EmptyList
    <2> QED BY <1>1, <2>1 DEF ListSound, Paging
  <1>6. CASE LoadMore(n)
    <2>1. l.open /\ ~l.loading /\ lists' = [lists EXCEPT ![n] = [l EXCEPT !.loading = TRUE]]
          /\ Send(n, "page", l.filter, Len(l.rows), NoRow)
      BY <1>1, <1>6 DEF LoadMore, OnList, MayLoad
    <2>2. Numbered(l)
      BY <1>1 DEF ListSound
    <2> HIDE DEF l
    <2> QED BY <1>3, <1>4, <1>5, <2>1, <2>2
  <1>7. ASSUME NEW f \in Filters, ChooseFilter(n, f) PROVE ListsInv'
    <2> DEFINE none == <<>>
               no == FALSE
               crossed == l.crossed \/ l.loading
               k == AsFiltered(l, f, none, no, crossed)
    <2>1. l.open /\ IF MayLoad(k) THEN /\ lists' = [lists EXCEPT ![n] = [k EXCEPT !.loading = TRUE]]
                                      /\ Send(n, "page", f, 0, NoRow)
                    ELSE lists' = [lists EXCEPT ![n] = k] /\ UNCHANGED gets
      BY <1>7 DEF ChooseFilter, OnList, AsFiltered
    <2>2. /\ none \in Seq(AnyRows) /\ Len(none) = 0 /\ no \in BOOLEAN /\ ~no /\ crossed \in BOOLEAN
          /\ (~l.loading => crossed = l.crossed) /\ (l.loading => crossed)
      BY <1>3, EmptyList
    <2> HIDE DEF none, no, crossed, l
    <2>7. l \in ListsOf(Seq(AnyRows)) /\ f \in Filters
      BY <1>3 DEF AnyList
    <2>9. none \in Seq(AnyRows) /\ no \in BOOLEAN /\ crossed \in BOOLEAN
      BY <2>2
    <2>8. /\ k \in ListsOf(Seq(AnyRows)) /\ k.rows = none /\ k.filter = f
          /\ k.crossed = crossed /\ k.loading = l.loading /\ k.exhausted = no
      BY ONLY <2>7, <2>9, ListFiltered
    <2>3. /\ k \in AnyList /\ k.rows = none /\ k.filter = f
          /\ k.crossed = crossed /\ k.loading = l.loading /\ k.exhausted = no
      BY <2>8 DEF AnyList
    <2> HIDE DEF k
    <2>4. Numbered(k)
      BY <2>2, <2>3 DEF Numbered
    <2>5. CASE ~l.loading
      <3>1. MayLoad(k)
        BY <2>2, <2>3, <2>5 DEF MayLoad
      <3>2. Paging(n, gets) = {}
        BY <1>5, <2>1, <2>5
      <3> QED BY <1>4, <2>1, <2>2, <2>3, <2>4, <3>1, <3>2
    <2>6. CASE l.loading
      <3>1. ~MayLoad(k)
        BY <2>3, <2>6 DEF MayLoad
      <3>2. lists' = [lists EXCEPT ![n] = k] /\ UNCHANGED gets
        BY <2>1, <3>1
      <3>3. l # NoList /\ ListSound(n, l, gets)
        BY <1>1, <2>6, EmptyList DEF l
      <3>4. ListSound(n, k, gets)
        BY <2>2, <2>3, <2>4, <2>6, <3>3 DEF ListSound
      <3> QED BY <1>1, <1>2, <2>3, <3>2, <3>4, ListMoves
    <2> QED BY <1>3, <2>5, <2>6
  <1> QED BY <1>6, <1>7

LEMMA PageSafe ==
  ASSUME ListsInv, NEW g \in gets, PageListed(g) \/ PageFailed(g)
  PROVE  ListsInv'
  <1>1. /\ \A h \in gets : GetOK(h)
        /\ \A n \in BOOLEAN : ListSound(n, lists[n], gets)
        /\ lists \in [BOOLEAN -> AnyList] /\ totals \in [Filters -> 0..MaxRows]
        /\ CollectionTyped
    BY DEF ListsInv, CollectionTyped
  <1>2. /\ g.kind = "page" /\ UNCHANGED <<totals, saved, chips, setup>> /\ gets' = gets \ {g}
        /\ g.narrow \in BOOLEAN /\ g.filter \in Filters /\ g.own \in BOOLEAN /\ g.offset \in Nat
    BY <1>1, FieldsOfGet DEF PageListed, PageFailed
  <1>3. SettingsTyped'
    BY <1>1, <1>2 DEF CollectionTyped, SettingsTyped
  <1>4. CASE ~g.own
    <2>1. UNCHANGED lists
      BY <1>4 DEF PageListed, PageFailed
    <2> QED BY <1>1, <1>2, <1>3, <2>1, ListsStay
  <1>5. CASE g.own
    <2> DEFINE n == g.narrow
               l == lists[n]
    <2>1. n \in BOOLEAN /\ l \in AnyList /\ ListSound(n, l, gets)
      BY <1>1, <1>2
    <2>2. g \in Paging(n, gets)
      BY <1>2, <1>5 DEF Paging
    <2>3. /\ Paging(n, gets') = {} /\ Numbered(l)
          /\ ~l.crossed => g.filter = l.filter /\ g.offset = Len(l.rows)
      BY <1>2, <2>1, <2>2 DEF ListSound, Paging
    <2>4. l.rows \in Seq(AnyRows) /\ l.exhausted \in BOOLEAN
      <3> HIDE DEF l
      <3>1. l.rows \in Seq(AnyRows)
        BY <2>1 DEF AnyList, ListsOf
      <3>2. l.exhausted \in BOOLEAN
        BY <2>1 DEF AnyList, ListsOf
      <3> QED BY <3>1, <3>2
    <2>5. ASSUME NEW m \in AnyList, Numbered(m), lists' = [lists EXCEPT ![n] = m]
          PROVE  ListsInv'
      <3>1. ListSound(n, m, gets')
        BY <2>3, <2>5 DEF ListSound
      <3>2. /\ \A h \in gets' : GetOK(h)
            /\ \A h \in gets' : h.narrow # n /\ h.own /\ h.kind \in {"first", "page"} => h \in gets
        BY <1>1, <1>2
      <3> HIDE DEF n, l
      <3> QED BY <1>2, <1>3, <2>1, <2>5, <3>1, <3>2, ListMoves
    <2>6. CASE PageListed(g)
      <3> DEFINE more == Page(g.filter, g.offset)
                 rows == l.rows \o more
                 no == FALSE
                 ends == l.exhausted \/ Len(more) < PageSize \/ Len(rows) >= totals[g.filter]
                 m == AsFilled(l, rows, no, ends)
      <3>1. lists' = [lists EXCEPT ![n] = m]
        BY <1>5, <2>6 DEF PageListed, AsFilled
      <3>2. /\ more \in Seq(AnyRows)
            /\ \A i \in 1..Len(more) : more[i] = <<g.filter, g.offset + i>>
        BY <1>1, <1>2, PageFacts
      <3>3. no \in BOOLEAN /\ ends \in BOOLEAN
        BY <2>4
      <3> HIDE DEF more, no, ends, l, n
      <3>4. /\ rows \in Seq(AnyRows) /\ Len(rows) = Len(l.rows) + Len(more)
            /\ \A i \in 1..Len(l.rows) : rows[i] = l.rows[i]
            /\ \A i \in 1..Len(rows) : i > Len(l.rows) => rows[i] = more[i - Len(l.rows)]
            /\ Len(l.rows) \in Nat /\ Len(more) \in Nat
        BY <2>4, <3>2
      <3> HIDE DEF rows
      <3>5. m \in AnyList /\ m.rows = rows /\ m.filter = l.filter /\ m.crossed = l.crossed
        BY <2>1, <3>3, <3>4, ListFilled DEF AnyList
      <3> HIDE DEF m
      <3>6. Numbered(m)
        <4> SUFFICES ASSUME ~l.crossed, NEW i \in 1..Len(rows) PROVE rows[i] = <<l.filter, i>>
          BY <3>5 DEF Numbered
        <4>1. CASE i \in 1..Len(l.rows)
          BY <2>3, <3>4, <4>1 DEF Numbered
        <4>2. CASE i > Len(l.rows)
          <5> DEFINE j == i - Len(l.rows)
          <5>1. j \in 1..Len(more) /\ Len(l.rows) + j = i /\ rows[i] = more[j]
            BY <3>4, <4>2
          <5> HIDE DEF j
          <5>2. more[j] = <<g.filter, g.offset + j>>
            BY <3>2, <5>1
          <5> QED BY <2>3, <5>1, <5>2
        <4> QED BY <3>4, <4>1, <4>2
      <3> QED BY <2>5, <3>1, <3>5, <3>6
    <2>7. CASE PageFailed(g)
      <3> DEFINE yes == TRUE
                 no == FALSE
                 m == AsLoaded(l, no, yes)
      <3>1. lists' = [lists EXCEPT ![n] = m]
        BY <1>1, <1>5, <2>1, <2>7 DEF PageFailed, AsLoaded
      <3>2. yes \in BOOLEAN /\ no \in BOOLEAN
        OBVIOUS
      <3> HIDE DEF yes, no, l
      <3>3. m \in AnyList /\ m.rows = l.rows /\ m.filter = l.filter /\ m.crossed = l.crossed
        BY <2>1, <3>2, ListLoaded DEF AnyList
      <3> HIDE DEF m
      <3>4. Numbered(m)
        BY <2>3, <3>3 DEF Numbered
      <3> QED BY <2>5, <3>1, <3>3, <3>4
    <2> QED BY <2>6, <2>7
  <1> QED BY <1>2, <1>4, <1>5

\* A row is selected.
LEMMA SelectGives ==
  ASSUME CollectionTyped, NEW i \in DOMAIN lists[FALSE].rows, SelectRow(i)
  PROVE  /\ UNCHANGED <<totals, lists, saved, setup>> /\ chips' = [chips EXCEPT ![FALSE] = NoChips]
         /\ On("home", FALSE)
         /\ \A h \in gets' : /\ GetOK(h) /\ (h.own /\ h.kind \in {"first", "page"} => h \in gets)
                             /\ Harmless(h)
  <1>1. /\ \A h \in gets : GetOK(h)
        /\ lists \in [BOOLEAN -> AnyList] /\ saved \in Bodies
    BY DEF CollectionTyped
  <1> DEFINE l == lists[FALSE]
             rows == l.rows
             row == rows[i]
             desk == FALSE
             detail == "detail"
             my == "my"
             zero == 0
             id == CHOOSE k \in Free : TRUE
             asking == Asking(row)
             olds == Replaced(gets)
             new == Get(id, desk, detail, my, zero, asking)
  <1>2. /\ UNCHANGED <<totals, lists, saved, setup>> /\ chips' = [chips EXCEPT ![FALSE] = NoChips]
        /\ On("home", FALSE)
    BY DEF SelectRow, OnList
  <1>3. gets' = olds \cup {new} /\ i \in DOMAIN rows /\ id \in 1..MaxGets
    BY DEF SelectRow, Free
  <1>4. l \in AnyList
    BY <1>1
  <1>5. /\ desk \in BOOLEAN /\ detail \in Kinds /\ my \in Filters /\ zero \in Nat
        /\ Payload(detail) = Askings /\ detail \in Loading /\ detail \notin {"first", "page"}
    BY Payloads
  <1>6. \A h \in olds : \E g \in gets :
          /\ GetOK(h) /\ h.kind = g.kind /\ h.value = g.value
          /\ h.kind # "chip" => h = g
    BY <1>1, ReplacedGives
  <1> HIDE DEF l, desk, detail, my, zero, id, olds
  <1>7. rows \in Seq(AnyRows)
    BY <1>4 DEF AnyList, ListsOf
  <1> HIDE DEF rows
  <1>8. row \in AnyRows
    BY <1>3, <1>7
  <1> HIDE DEF row
  <1>9. /\ asking \in Askings /\ asking.saw = saved
        /\ asking.doubt = \E g \in gets : g.kind \in Changing
    BY <1>1, <1>8, AskingSound
  <1> HIDE DEF asking
  <1>10. GetOK(new) /\ new.kind = detail /\ new.value = asking
    BY <1>3, <1>5, <1>9, GetSound
  <1> HIDE DEF new
  <1>11. GetOK(new) /\ new.kind \notin {"first", "page"} /\ Queried(new)
    BY <1>5, <1>9, <1>10 DEF Queried
  <1>12. ASSUME NEW h \in olds
         PROVE  GetOK(h) /\ (h.own /\ h.kind \in {"first", "page"} => h \in gets) /\ Harmless(h)
    BY <1>6 DEF Harmless, Carried
  <1>13. GetOK(new) /\ (new.own /\ new.kind \in {"first", "page"} => new \in gets) /\ Harmless(new)
    BY <1>11 DEF Harmless
  <1> HIDE DEF new
  <1>14. ASSUME NEW h \in gets'
         PROVE  GetOK(h) /\ (h.own /\ h.kind \in {"first", "page"} => h \in gets) /\ Harmless(h)
    <2>1. h \in olds \/ h = new
      BY <1>3
    <2> QED BY <1>12, <1>13, <2>1
  <1> QED BY <1>2, <1>14

\* The detail arrives, or an error: the chips of the desktop show it, or are in doubt.
LEMMA DetailGives ==
  ASSUME CollectionTyped, NEW g \in gets, DetailArrived(g)
  PROVE  /\ g.kind = "detail" /\ UNCHANGED <<totals, lists, saved, setup>>
         /\ IF ~g.own THEN gets' = gets \ {g} /\ UNCHANGED chips
            ELSE /\ gets' = Replaced(gets \ {g})
                 /\ \E c \in ChipRows :
                      /\ chips' = [chips EXCEPT ![FALSE] = c]
                      /\ c.open = chips[FALSE].open
                      /\ \/ c.doubt
                         \/ /\ On("home", FALSE) /\ c.doubt = g.value.doubt
                            /\ c.level \in {g.value.saw.level, saved.level} /\ c.shown = c.level
         /\ \A h \in gets' : /\ GetOK(h) /\ (h.own /\ h.kind \in {"first", "page"} => h \in gets)
                             /\ Carried(h)
  <1>1. /\ \A h \in gets : GetOK(h)
        /\ chips \in [BOOLEAN -> ChipRows] /\ saved \in Bodies
    BY DEF CollectionTyped
  <1>2. g.kind = "detail" /\ UNCHANGED <<totals, lists, saved, setup>>
    BY DEF DetailArrived
  <1>3. g.value \in Askings
    BY <1>1, <1>2, FieldsOfGet, Payloads
  <1>4. CASE ~g.own
    <2>1. gets' = gets \ {g} /\ UNCHANGED chips
      BY <1>4 DEF DetailArrived
    <2> QED BY <1>1, <1>2, <1>4, <2>1 DEF Carried
  <1>5. CASE g.own
    <2> DEFINE b == chips[FALSE]
               old == b.open
               v == g.value
               rest == gets \ {g}
    <2>1. gets' = Replaced(rest)
      BY <1>5 DEF DetailArrived
    <2>2. \A h \in gets' : \E k \in rest :
             GetOK(h) /\ h.kind = k.kind /\ h.value = k.value /\ (h.kind # "chip" => h = k)
      BY <1>1, <2>1, ReplacedGives
    <2>3. PICK at \in Answers(g) : \E row \in {v.row, NoRow} :
            chips' = [chips EXCEPT ![FALSE] =
                        IF row = OwnRow /\ On("home", FALSE) THEN Repainted(@.open, at.level, v.doubt)
                        ELSE [@ EXCEPT !.doubt = TRUE]]
      BY <1>5 DEF DetailArrived
    <2>4. b \in ChipRows /\ v.saw \in Bodies /\ v.doubt \in BOOLEAN
      BY <1>1, <1>3 DEF Askings
    <2>5. at.level \in {v.saw.level, saved.level} /\ at.level \in Levels
      BY <1>1, <2>4 DEF Answers, Bodies
    <2> DEFINE level == at.level
               doubt == v.doubt
               yes == TRUE
               fresh == Repainted(old, level, doubt)
               unsure == [b EXCEPT !.doubt = yes]
    <2>6. old \in BOOLEAN /\ yes \in BOOLEAN /\ yes
      BY <2>4 DEF ChipRows
    <2>7. fresh \in ChipRows /\ fresh.open = old /\ fresh.level = level /\ fresh.shown = level
          /\ fresh.doubt = doubt
      <3> HIDE DEF level, doubt, old
      <3> QED BY <2>4, <2>5, <2>6 DEF Repainted, ChipRows, level, doubt
    <2>8. unsure \in ChipRows /\ unsure.open = old /\ unsure.doubt
      <3> HIDE DEF yes, b
      <3>1. unsure \in ChipRows /\ unsure.open = b.open /\ unsure.doubt = yes
        BY <2>4, <2>6 DEF ChipRows
      <3> QED BY <2>6, <3>1
    <2>9. \/ On("home", FALSE) /\ chips' = [chips EXCEPT ![FALSE] = fresh]
          \/ chips' = [chips EXCEPT ![FALSE] = unsure]
      <3>1. PICK row \in {v.row, NoRow} :
              chips' = [chips EXCEPT ![FALSE] =
                        IF row = OwnRow /\ On("home", FALSE) THEN Repainted(@.open, at.level, v.doubt)
                        ELSE [@ EXCEPT !.doubt = TRUE]]
        BY <2>3
      <3>2. CASE row = OwnRow /\ On("home", FALSE)
        BY <3>1, <3>2
      <3>3. CASE ~(row = OwnRow /\ On("home", FALSE))
        <4>1. chips' = [chips EXCEPT ![FALSE] = [@ EXCEPT !.doubt = TRUE]]
          BY <3>1, <3>3
        <4> QED BY <4>1
      <3> QED BY <3>2, <3>3
    <2> HIDE DEF fresh, unsure
    <2>10. \E c \in ChipRows :
             /\ chips' = [chips EXCEPT ![FALSE] = c]
             /\ c.open = old
             /\ \/ c.doubt
                \/ /\ On("home", FALSE) /\ c.doubt = g.value.doubt
                   /\ c.level \in {g.value.saw.level, saved.level} /\ c.shown = c.level
      <3>1. CASE On("home", FALSE) /\ chips' = [chips EXCEPT ![FALSE] = fresh]
        <4>1. fresh.level \in {g.value.saw.level, saved.level}
          BY <2>5, <2>7
        <4> QED BY <2>7, <3>1, <4>1
      <3>2. CASE chips' = [chips EXCEPT ![FALSE] = unsure]
        BY <2>8, <3>2
      <3> QED BY <2>9, <3>1, <3>2
    <2>11. \A h \in gets' : /\ GetOK(h) /\ (h.own /\ h.kind \in {"first", "page"} => h \in gets)
                            /\ Carried(h)
      BY <2>2 DEF Carried
    <2> HIDE DEF old
    <2> QED BY <1>2, <1>5, <2>1, <2>10, <2>11 DEF old, b
  <1> QED BY <1>4, <1>5

LEMMA DetailSafe ==
  ASSUME ListsInv,
         \/ \E i \in DOMAIN lists[FALSE].rows : SelectRow(i)
         \/ \E g \in gets : DetailArrived(g)
  PROVE  ListsInv'
  <1>1. CollectionTyped /\ saved \in Bodies /\ chips \in [BOOLEAN -> ChipRows] /\ setup \in Setups
    BY DEF ListsInv, CollectionTyped
  <1>2. ASSUME NEW c \in ChipRows, chips' = [chips EXCEPT ![FALSE] = c]
        PROVE  chips' \in [BOOLEAN -> ChipRows]
    BY <1>1, <1>2
  <1>3. ASSUME NEW i \in DOMAIN lists[FALSE].rows, SelectRow(i) PROVE ListsInv'
    <2>1. /\ UNCHANGED <<totals, lists, saved, setup>> /\ chips' = [chips EXCEPT ![FALSE] = NoChips]
          /\ \A h \in gets' : GetOK(h) /\ (h.own /\ h.kind \in {"first", "page"} => h \in gets)
      BY <1>1, <1>3, SelectGives
    <2>2. SettingsTyped'
      BY <1>1, <1>2, <2>1, EmptyChips DEF SettingsTyped
    <2> QED BY <2>1, <2>2, ListsStay
  <1>4. ASSUME NEW g \in gets, DetailArrived(g) PROVE ListsInv'
    <2>1. /\ UNCHANGED <<totals, lists, saved, setup>>
          /\ \A h \in gets' : GetOK(h) /\ (h.own /\ h.kind \in {"first", "page"} => h \in gets)
      BY <1>1, <1>4, DetailGives
    <2>2. UNCHANGED chips \/ \E c \in ChipRows : chips' = [chips EXCEPT ![FALSE] = c]
      BY <1>1, <1>4, DetailGives
    <2>3. SettingsTyped'
      BY <1>1, <1>2, <2>1, <2>2 DEF SettingsTyped
    <2> QED BY <2>1, <2>3, ListsStay
  <1> QED BY <1>3, <1>4

(***************************************************************************)
(* The settings: what each step does to the records.                       *)
(***************************************************************************)
AsChips(c, open, level, shows, doubt) ==
  [c EXCEPT !.open = open, !.level = level, !.shown = shows, !.doubt = doubt]
AsSetup(s, armed, saving, doubt) == [s EXCEPT !.armed = armed, !.saving = saving, !.doubt = doubt]
AsTyped(s, title, level, armed, doubt) ==
  [s EXCEPT !.title = title, !.level = level, !.armed = armed, !.doubt = doubt]
AsKept(s, was, armed, saving) == [s EXCEPT !.was = was, !.armed = armed, !.saving = saving]

LEMMA ChipsFields ==
  ASSUME NEW c \in ChipRows, NEW open \in BOOLEAN, NEW level \in Levels, NEW shows \in Levels,
         NEW doubt \in BOOLEAN
  PROVE  LET d == AsChips(c, open, level, shows, doubt) IN
         /\ d \in ChipRows /\ d.open = open /\ d.level = level /\ d.shown = shows /\ d.doubt = doubt
  BY DEF ChipRows, AsChips

LEMMA ChipsParts ==
  ASSUME NEW c \in ChipRows
  PROVE  /\ c.open \in BOOLEAN /\ c.level \in Levels /\ c.shown \in Levels /\ c.doubt \in BOOLEAN
         /\ \A open \in BOOLEAN : [c EXCEPT !.open = open] = AsChips(c, open, c.level, c.shown, c.doubt)
         /\ \A open \in BOOLEAN, shows \in Levels :
              [c EXCEPT !.open = open, !.shown = shows] = AsChips(c, open, c.level, shows, c.doubt)
  BY DEF ChipRows, AsChips

\* Chips as they are painted.
LEMMA RepaintedFields ==
  ASSUME NEW open \in BOOLEAN, NEW level \in Levels, NEW doubt \in BOOLEAN
  PROVE  LET c == Repainted(open, level, doubt) IN
         /\ c \in ChipRows /\ c.open = open /\ c.level = level /\ c.shown = level /\ c.doubt = doubt
  BY DEF Repainted, ChipRows

LEMMA SetupFields ==
  ASSUME NEW s \in Setups, NEW armed \in BOOLEAN, NEW saving \in BOOLEAN, NEW doubt \in BOOLEAN
  PROVE  LET t == AsSetup(s, armed, saving, doubt) IN
         /\ t \in Setups /\ t.open = s.open /\ t.title = s.title /\ t.level = s.level /\ t.was = s.was
         /\ t.armed = armed /\ t.saving = saving /\ t.doubt = doubt
  BY DEF Setups, AsSetup

LEMMA TypedFields ==
  ASSUME NEW s \in Setups, NEW title \in 0..MaxTitles, NEW level \in Levels, NEW armed \in BOOLEAN,
         NEW doubt \in BOOLEAN
  PROVE  LET t == AsTyped(s, title, level, armed, doubt) IN
         /\ t \in Setups /\ t.open = s.open /\ t.title = title /\ t.level = level /\ t.was = s.was
         /\ t.armed = armed /\ t.saving = s.saving /\ t.doubt = doubt
  BY DEF Setups, AsTyped

LEMMA KeptFields ==
  ASSUME NEW s \in Setups, NEW was \in Bodies, NEW armed \in BOOLEAN, NEW saving \in BOOLEAN
  PROVE  LET t == AsKept(s, was, armed, saving) IN
         /\ t \in Setups /\ t.open = s.open /\ t.title = s.title /\ t.level = s.level /\ t.was = was
         /\ t.armed = armed /\ t.saving = saving /\ t.doubt = s.doubt
  BY DEF Setups, AsKept

\* A level or a title is stored.
LEMMA BodyFields ==
  ASSUME NEW b \in Bodies
  PROVE  /\ b.title \in 0..MaxTitles /\ b.level \in Levels
         /\ \A level \in Levels :
              /\ [b EXCEPT !.level = level] \in Bodies
              /\ [b EXCEPT !.level = level].level = level
              /\ [b EXCEPT !.level = level].title = b.title
         /\ \A title \in 0..MaxTitles :
              /\ [b EXCEPT !.title = title] \in Bodies
              /\ [b EXCEPT !.title = title].title = title
              /\ [b EXCEPT !.title = title].level = b.level
         /\ \A c \in Bodies : b.title = c.title /\ b.level = c.level => b = c
  BY DEF Bodies

\* The tab with the chips is opened.
LEMMA OpenChipsGives ==
  ASSUME CollectionTyped, OpenChips
  PROVE  \E c \in ChipRows :
           /\ chips' = [chips EXCEPT ![FALSE] = c]
           /\ c.open /\ c.level = chips[FALSE].level /\ c.shown = c.level /\ c.doubt = chips[FALSE].doubt
           /\ On("home", FALSE) /\ UNCHANGED <<totals, lists, saved, setup, gets, routerVars>>
  <1> DEFINE yes == TRUE
             no == FALSE
             b == chips[no]
             level == b.level
             doubt == b.doubt
             c == AsChips(b, yes, level, level, doubt)
  <1>1. chips \in [BOOLEAN -> ChipRows] /\ yes \in BOOLEAN /\ yes /\ no \in BOOLEAN /\ b \in ChipRows
    BY DEF CollectionTyped
  <1>2. chips' = [chips EXCEPT ![no].open = yes, ![no].shown = level]
    BY DEF OpenChips
  <1>3. On("home", FALSE) /\ UNCHANGED <<totals, lists, saved, setup, gets, routerVars>>
    BY DEF OpenChips
  <1> HIDE DEF yes, no, level
  <1>4. chips' = [chips EXCEPT ![no] = [b EXCEPT !.open = yes, !.shown = level]]
    BY <1>1, <1>2
  <1> HIDE DEF b
  <1>5. level \in Levels /\ doubt \in BOOLEAN /\ [b EXCEPT !.open = yes, !.shown = level] = c
    BY <1>1, ChipsParts DEF level
  <1> HIDE DEF doubt
  <1> HIDE DEF c
  <1>6. c \in ChipRows /\ c.open = yes /\ c.level = level /\ c.shown = level /\ c.doubt = doubt
    <2>1. b \in ChipRows /\ yes \in BOOLEAN /\ level \in Levels /\ doubt \in BOOLEAN
      BY <1>1, <1>5
    <2>2. c = AsChips(b, yes, level, level, doubt)
      BY DEF c
    <2> QED BY ONLY <2>1, <2>2, ChipsFields
  <1> QED BY <1>1, <1>3, <1>4, <1>5, <1>6 DEF level, doubt, b, no

\* It is left: presses that are under way will find other chips.
LEMMA LeaveChipsGives ==
  ASSUME CollectionTyped, LeaveChips
  PROVE  /\ On("home", FALSE) /\ UNCHANGED <<totals, lists, saved, setup, routerVars>>
         /\ \E c \in ChipRows :
              /\ chips' = [chips EXCEPT ![FALSE] = c]
              /\ ~c.open /\ c.level = chips[FALSE].level /\ c.doubt = chips[FALSE].doubt
         /\ \A h \in gets' : \E g \in gets :
              /\ GetOK(h) /\ h.kind = g.kind /\ h.narrow = g.narrow /\ h.own = g.own
              /\ h.kind # "chip" => h = g
              /\ h.kind = "chip" => h.value.was = g.value.was /\ h.value.level = g.value.level
         /\ \A g \in gets : \E h \in gets' : h.kind = g.kind
         /\ (\A g, h \in gets : g.kind = "chip" /\ h.kind = "chip" => g = h)
            => \A g, h \in gets' : g.kind = "chip" /\ h.kind = "chip" => g = h
  <1> DEFINE no == FALSE
             b == chips[no]
             level == b.level
             shows == b.shown
             doubt == b.doubt
             c == AsChips(b, no, level, shows, doubt)
             After(g) == IF g.kind = "chip" /\ ~g.narrow THEN [g EXCEPT !.value.seen = no] ELSE g
  <1>1. /\ chips \in [BOOLEAN -> ChipRows] /\ no \in BOOLEAN /\ ~no /\ b \in ChipRows
        /\ \A g \in gets : GetOK(g)
    BY DEF CollectionTyped
  <1>2. chips' = [chips EXCEPT ![no].open = no]
    BY DEF LeaveChips
  <1>3. On("home", FALSE) /\ UNCHANGED <<totals, lists, saved, setup, routerVars>>
    BY DEF LeaveChips
  <1>4. gets' = {After(g) : g \in gets}
    BY DEF LeaveChips
  <1> HIDE DEF no
  <1>5. chips' = [chips EXCEPT ![no] = [b EXCEPT !.open = no]]
    BY <1>1, <1>2
  <1> HIDE DEF b
  <1>6. level \in Levels /\ shows \in Levels /\ doubt \in BOOLEAN /\ [b EXCEPT !.open = no] = c
    BY <1>1, ChipsParts
  <1> HIDE DEF doubt, level, shows
  <1>7. c \in ChipRows /\ c.open = no /\ c.level = level /\ c.doubt = doubt
    BY <1>1, <1>6, ChipsFields
  <1> HIDE DEF c
  <1>8. ASSUME NEW g \in gets
        PROVE  LET h == After(g) IN
               /\ GetOK(h) /\ h.kind = g.kind /\ h.narrow = g.narrow /\ h.own = g.own
               /\ h.kind # "chip" => h = g
               /\ h.kind = "chip" => h.value.was = g.value.was /\ h.value.level = g.value.level
    <2>1. CASE g.kind = "chip" /\ ~g.narrow
      <3> DEFINE p == g.value
                 v == [p EXCEPT !.seen = no]
                 h == [g EXCEPT !.value = v]
      <3>1. After(g) = h /\ p \in Presses
        BY <1>1, <2>1, FieldsOfGet, Payloads DEF GetOK, Fetches
      <3> HIDE DEF p
      <3>2. v \in Presses /\ v.was = p.was /\ v.level = p.level
        BY <1>1, <3>1 DEF Presses
      <3> HIDE DEF v
      <3>3. GetOK(h) /\ h.kind = g.kind /\ h.narrow = g.narrow /\ h.own = g.own /\ h.value = v
        BY <1>1, <2>1, <3>2, ValueSound, Payloads
      <3> HIDE DEF h
      <3> QED BY <2>1, <3>1, <3>2, <3>3 DEF p
    <2>2. CASE ~(g.kind = "chip" /\ ~g.narrow)
      BY <1>1, <2>2
    <2> QED BY <2>1, <2>2
  <1> HIDE DEF After
  <1>9. \A h \in gets' : \E g \in gets :
              /\ GetOK(h) /\ h.kind = g.kind /\ h.narrow = g.narrow /\ h.own = g.own
              /\ h.kind # "chip" => h = g
              /\ h.kind = "chip" => h.value.was = g.value.was /\ h.value.level = g.value.level
    BY <1>4, <1>8
  <1>10. \A g \in gets : \E h \in gets' : h.kind = g.kind
    BY <1>4, <1>8
  <1>11. ASSUME \A g, h \in gets : g.kind = "chip" /\ h.kind = "chip" => g = h,
                NEW g \in gets', NEW h \in gets', g.kind = "chip", h.kind = "chip"
         PROVE  g = h
    BY <1>4, <1>8, <1>11
  <1>12. \E d \in ChipRows :
              /\ chips' = [chips EXCEPT ![FALSE] = d]
              /\ ~d.open /\ d.level = chips[FALSE].level /\ d.doubt = chips[FALSE].doubt
    BY <1>1, <1>5, <1>6, <1>7 DEF level, doubt, b, no
  <1> QED BY <1>3, <1>9, <1>10, <1>11, <1>12

LEMMA PressGives ==
  ASSUME CollectionTyped, NEW n \in BOOLEAN, NEW level \in Levels, PressChip(n, level)
  PROVE  \E c, g :
           /\ c \in ChipRows /\ chips' = [chips EXCEPT ![n] = c] /\ chips[n].open
           /\ c.open /\ c.level = level /\ c.shown = level
           /\ c.doubt = (chips[n].doubt \/ Pending(n, {"chip"}))
           /\ GetOK(g) /\ gets' = {Doubted(h) : h \in gets} \cup {g}
           /\ g.narrow = n /\ g.own /\ g.kind = "chip"
           /\ g.value.was = chips[n].level /\ g.value.level = level
           /\ UNCHANGED <<totals, lists, saved, setup, routerVars>>
  <1>1. chips \in [BOOLEAN -> ChipRows] /\ \A g \in gets : GetOK(g)
    BY DEF CollectionTyped
  <1> DEFINE b == chips[n]
             yes == TRUE
             was == b.level
             doubt == b.doubt \/ Pending(n, {"chip"})
             c == Repainted(yes, level, doubt)
             value == [was |-> was, level |-> level, seen |-> yes]
  <1>2. b \in ChipRows /\ was \in Levels /\ b.doubt \in BOOLEAN /\ yes \in BOOLEAN /\ yes
    BY <1>1, ChipsParts
  <1>3. doubt \in BOOLEAN
    BY <1>2 DEF Pending
  <1>4. chips' = [chips EXCEPT ![n] = c] /\ b.open
    BY <1>1 DEF PressChip
  <1>5. Store(n, "chip", value) /\ UNCHANGED <<totals, lists, saved, setup, routerVars>>
    BY DEF PressChip
  <1> HIDE DEF was, yes, doubt
  <1>6. value \in Presses /\ value.was = was /\ value.level = level
    BY <1>2 DEF Presses
  <1> HIDE DEF value
  <1>7. "chip" \in Kinds /\ value \in Payload("chip")
    BY <1>6, Payloads
  <1>8. PICK g : /\ GetOK(g) /\ gets' = {Doubted(h) : h \in gets} \cup {g}
                 /\ g.narrow = n /\ g.own /\ g.kind = "chip" /\ g.value = value
    BY <1>1, <1>5, <1>7, StoreTyped
  <1>9. c \in ChipRows /\ c.open = yes /\ c.level = level /\ c.shown = level /\ c.doubt = doubt
    BY <1>2, <1>3, RepaintedFields
  <1> HIDE DEF c
  <1> QED BY <1>2, <1>4, <1>5, <1>6, <1>8, <1>9 DEF b, doubt, was

\* A level is stored by the server.
LEMMA ChipSavedGives ==
  ASSUME CollectionTyped, NEW g \in gets, ChipSaved(g)
  PROVE  /\ GetOK(g) /\ g.kind = "chip" /\ gets' = gets \ {g}
         /\ saved' \in Bodies /\ saved'.level = g.value.level /\ saved'.title = saved.title
         /\ UNCHANGED <<totals, lists, chips, setup, routerVars>>
  <1>1. GetOK(g) /\ saved \in Bodies
    BY DEF CollectionTyped
  <1>2. g.value \in Presses
    BY <1>1, FieldsOfGet, Payloads DEF ChipSaved
  <1> DEFINE level == g.value.level
  <1>3. level \in Levels /\ saved' = [saved EXCEPT !.level = level]
    BY <1>2 DEF ChipSaved, Presses
  <1> HIDE DEF level
  <1>4. saved' \in Bodies /\ saved'.level = level /\ saved'.title = saved.title
    BY <1>1, <1>3, BodyFields
  <1> QED BY <1>1, <1>4 DEF level, ChipSaved

LEMMA ChipFailedGives ==
  ASSUME CollectionTyped, NEW g \in gets, NEW lost \in BOOLEAN, ChipFailed(g, lost)
  PROVE  /\ GetOK(g) /\ g.kind = "chip" /\ gets' = gets \ {g}
         /\ saved' \in Bodies /\ saved'.title = saved.title /\ (~lost => saved' = saved)
         /\ IF g.own
              THEN \E c \in ChipRows :
                     /\ chips' = [chips EXCEPT ![g.narrow] = c]
                     /\ c.open = chips[g.narrow].open /\ c.level = g.value.was
                     /\ g.value.seen => c.shown = c.level
                     /\ ~c.doubt => ~chips[g.narrow].doubt /\ ~lost /\ (c.open => g.value.seen)
                     /\ chips[g.narrow].doubt => c.doubt
              ELSE UNCHANGED chips
         /\ UNCHANGED <<totals, lists, setup, routerVars>>
  <1>1. GetOK(g) /\ saved \in Bodies /\ chips \in [BOOLEAN -> ChipRows]
    BY DEF CollectionTyped
  <1>2. g.value \in Presses /\ g.narrow \in BOOLEAN
    BY <1>1, FieldsOfGet, Payloads DEF ChipFailed
  <1> DEFINE v == g.value
             level == v.level
             before == v.was
             seen == v.seen
             b == chips[g.narrow]
             open == b.open
             shows == IF seen THEN before ELSE b.shown
             doubt == b.doubt \/ lost \/ (open /\ ~seen)
             c == AsChips(b, open, before, shows, doubt)
  <1>3. level \in Levels /\ before \in Levels /\ seen \in BOOLEAN
    BY <1>2 DEF Presses
  <1>4. b \in ChipRows
    BY <1>1, <1>2
  <1>5. b.shown \in Levels /\ b.doubt \in BOOLEAN /\ open \in BOOLEAN
    BY <1>4, ChipsParts
  <1>6. saved' = IF lost THEN [saved EXCEPT !.level = level] ELSE saved
    BY DEF ChipFailed
  <1>7. doubt \in BOOLEAN /\ shows \in Levels
    BY <1>3, <1>5
  <1>8. g.own => chips' = [chips EXCEPT ![g.narrow] = c]
    <2> SUFFICES ASSUME g.own PROVE chips' = [chips EXCEPT ![g.narrow] = c]
      OBVIOUS
    <2>1. chips' = [chips EXCEPT ![g.narrow] = TakenBack([b EXCEPT !.doubt = doubt], v)]
      BY DEF ChipFailed
    <2> DEFINE d == [b EXCEPT !.doubt = doubt]
    <2>2. TakenBack(d, v) = c
      <3> HIDE DEF doubt, b
      <3>1. d \in ChipRows /\ d.shown = b.shown /\ d.open = b.open /\ d.doubt = doubt
        BY <1>4, <1>7 DEF ChipRows
      <3>2. TakenBack(d, v) = [d EXCEPT !.level = before, !.shown = shows]
        BY <3>1 DEF TakenBack
      <3> HIDE DEF shows, before
      <3>3. [d EXCEPT !.level = before, !.shown = shows] = c
        BY <1>4, <1>5, <1>7 DEF AsChips, ChipRows
      <3> QED BY <3>2, <3>3
    <2> HIDE DEF d, c
    <2> QED BY <2>1, <2>2 DEF d
  <1> HIDE DEF doubt, before, level, b, shows, open
  <1>9. c \in ChipRows /\ c.open = open /\ c.level = before /\ c.shown = shows /\ c.doubt = doubt
    BY <1>3, <1>4, <1>5, <1>7, ChipsFields
  <1> HIDE DEF c
  <1>10. saved' \in Bodies /\ saved'.title = saved.title /\ (~lost => saved' = saved)
    BY <1>1, <1>3, <1>6, BodyFields
  <1>11. g.kind = "chip" /\ gets' = gets \ {g} /\ UNCHANGED <<totals, lists, setup, routerVars>>
    BY DEF ChipFailed
  <1>12. ~g.own => UNCHANGED chips
    BY DEF ChipFailed
  <1>13. seen => shows = before
    BY DEF shows
  <1>14. /\ ~doubt => ~b.doubt /\ ~lost /\ (open => seen)
         /\ b.doubt => doubt
    BY <1>5 DEF doubt
  <1> QED BY <1>1, <1>8, <1>9, <1>10, <1>11, <1>12, <1>13, <1>14 DEF before, b, open

\* The test of the edit screen arrives: the phone paints its screen, the desktop fills its form.
LEMMA LoadedGives ==
  ASSUME CollectionTyped, NEW g \in gets, SettingsLoaded(g)
  PROVE  /\ g.kind = "load" /\ UNCHANGED <<totals, lists, saved>>
         /\ \A h \in gets' : /\ GetOK(h) /\ (h.own /\ h.kind \in {"first", "page"} => h \in gets)
                             /\ Carried(h)
         /\ \/ UNCHANGED <<chips, setup, shown>> /\ gets' = gets \ {g}
            \/ /\ UNCHANGED <<chips, shown>> /\ gets' = gets \ {g} /\ On("edit", FALSE)
               /\ setup' \in Setups /\ setup'.open /\ ~setup'.saving /\ setup'.doubt = g.value.doubt
               /\ setup'.was \in {g.value.saw, saved}
            \/ /\ shown' = ChipsPlace(TRUE)
               /\ setup' \in Setups /\ ~setup'.open
               /\ \E c \in ChipRows :
                    /\ c.open /\ c.shown = c.level /\ c.doubt = g.value.doubt
                    /\ c.level \in {g.value.saw.level, saved.level}
                    /\ chips' = [n \in BOOLEAN |-> IF n THEN c ELSE NoChips]
  <1>1. /\ \A h \in gets : GetOK(h)
        /\ chips \in [BOOLEAN -> ChipRows] /\ saved \in Bodies /\ setup \in Setups
    BY DEF CollectionTyped
  <1>2. g.kind = "load" /\ UNCHANGED <<totals, lists, saved>>
    BY DEF SettingsLoaded
  <1> DEFINE v == g.value
             saw == v.saw
             doubt == v.doubt
  <1>3. v \in Askings
    BY <1>1, <1>2, FieldsOfGet, Payloads
  <1>4. saw \in Bodies /\ doubt \in BOOLEAN
    BY <1>3 DEF Askings
  <1>5. gets' = gets \ {g}
        => \A h \in gets' : /\ GetOK(h) /\ (h.own /\ h.kind \in {"first", "page"} => h \in gets)
                            /\ Carried(h)
    BY <1>1 DEF Carried
  <1>6. CASE ~g.own
    <2>1. UNCHANGED <<chips, setup, shown>> /\ gets' = gets \ {g}
      BY <1>6 DEF SettingsLoaded, routerVars
    <2> QED BY <1>2, <1>5, <2>1
  <1>7. CASE g.own /\ ~g.narrow
    <2>1. PICK b \in {saw, saved} :
            setup' = IF On("edit", FALSE)
                       THEN [NoSetup EXCEPT !.open = TRUE, !.title = b.title, !.level = b.level,
                                            !.was = b, !.doubt = doubt]
                       ELSE setup
      BY <1>7 DEF SettingsLoaded, Answers
    <2>2. UNCHANGED <<chips, shown>> /\ gets' = gets \ {g}
      BY <1>7 DEF SettingsLoaded, Painting, routerVars
    <2>3. CASE ~On("edit", FALSE)
      BY <1>2, <1>5, <2>1, <2>2, <2>3
    <2>4. CASE On("edit", FALSE)
      <3> DEFINE yes == TRUE
                 title0 == b.title
                 level0 == b.level
                 s == [NoSetup EXCEPT !.open = yes, !.title = title0, !.level = level0, !.was = b,
                                      !.doubt = doubt]
      <3>1. setup' = s /\ yes \in BOOLEAN /\ yes
        BY <2>1, <2>4
      <3>2. b \in Bodies /\ title0 \in 0..MaxTitles /\ level0 \in Levels
        BY <1>1, <1>4, BodyFields
      <3> HIDE DEF yes, title0, level0, doubt, saw
      <3>3. s \in Setups /\ s.open = yes /\ s.was = b /\ s.doubt = doubt /\ s.saving = NoSetup.saving
        BY <1>4, <3>1, <3>2, EmptySetup DEF Setups
      <3> HIDE DEF s
      <3>4. setup' \in Setups /\ setup'.open /\ ~setup'.saving /\ setup'.doubt = doubt /\ setup'.was = b
        BY <3>1, <3>3, EmptySetup
      <3> QED BY <1>2, <1>5, <2>1, <2>2, <2>4, <3>4 DEF doubt, saw
    <2> QED BY <2>3, <2>4
  <1>8. CASE g.own /\ g.narrow
    <2>1. PICK b \in {saw, saved} :
            chips' = [n \in BOOLEAN |-> IF n THEN Repainted(TRUE, b.level, doubt) ELSE NoChips]
      BY <1>8 DEF SettingsLoaded, Answers
    <2>2. /\ setup' = NoSetup /\ gets' = {Abandoned(h) : h \in gets \ {g}}
          /\ shown' = ChipsPlace(TRUE)
      BY <1>8 DEF SettingsLoaded, Painting, Paint, ChipsPlace
    <2> DEFINE yes == TRUE
               level0 == b.level
               c == Repainted(yes, level0, doubt)
    <2>3. yes \in BOOLEAN /\ yes /\ level0 \in {saw.level, saved.level} /\ level0 \in Levels
      BY <1>1, <1>4, BodyFields
    <2>4. chips' = [n \in BOOLEAN |-> IF n THEN c ELSE NoChips]
      BY <2>1
    <2> HIDE DEF yes, level0, doubt
    <2>5. c \in ChipRows /\ c.open = yes /\ c.level = level0 /\ c.shown = level0 /\ c.doubt = doubt
      BY <1>4, <2>3, RepaintedFields
    <2> HIDE DEF c
    <2>6. ASSUME NEW h \in gets'
          PROVE  GetOK(h) /\ (h.own /\ h.kind \in {"first", "page"} => h \in gets) /\ Carried(h)
      <3>1. PICK k \in gets : h = Abandoned(k)
        BY <2>2
      <3> QED BY <1>1, <3>1, AbandonedGives DEF Carried
    <2>7. setup' \in Setups /\ ~setup'.open
      BY <2>2, EmptySetup
    <2>8. \E d \in ChipRows :
                    /\ d.open /\ d.shown = d.level /\ d.doubt = g.value.doubt
                    /\ d.level \in {g.value.saw.level, saved.level}
                    /\ chips' = [n \in BOOLEAN |-> IF n THEN d ELSE NoChips]
      BY <2>3, <2>4, <2>5 DEF doubt, saw
    <2> QED BY <1>2, <2>2, <2>6, <2>7, <2>8
  <1> QED BY <1>6, <1>7, <1>8

\* The user types a title or picks a level.
LEMMA EditGives ==
  ASSUME CollectionTyped,
         (\E i \in 0..MaxTitles : TypeTitle(i)) \/ (\E l \in Levels : PickLevel(l))
  PROVE  /\ setup' \in Setups /\ setup.open /\ setup'.open /\ setup'.was = setup.was
         /\ setup'.saving = setup.saving /\ setup'.doubt = (setup.doubt \/ setup.saving)
         /\ UNCHANGED <<totals, lists, saved, chips, gets, routerVars>>
  <1>1. setup \in Setups
    BY DEF CollectionTyped
  <1>2. /\ setup.title \in 0..MaxTitles /\ setup.level \in Levels /\ setup.doubt \in BOOLEAN
        /\ setup.saving \in BOOLEAN
    BY <1>1, SetupParts
  <1> DEFINE doubt == setup.doubt \/ setup.saving
  <1>3. doubt \in BOOLEAN
    BY <1>2
  <1>4. ASSUME NEW title \in 0..MaxTitles, NEW level \in Levels, NEW s,
               s = [setup EXCEPT !.title = title, !.level = level],
               EditSetup(s)
        PROVE  /\ setup' \in Setups /\ setup.open /\ setup'.open /\ setup'.was = setup.was
               /\ setup'.saving = setup.saving /\ setup'.doubt = doubt
               /\ UNCHANGED <<totals, lists, saved, chips, gets, routerVars>>
    <2> DEFINE armed == Dirty(s)
               t == AsTyped(setup, title, level, armed, doubt)
    <2>1. armed \in BOOLEAN /\ s.doubt = setup.doubt
      BY <1>1, <1>4 DEF Dirty, Setups
    <2>2. setup' = t
      <3>1. setup' = [s EXCEPT !.armed = armed, !.doubt = doubt]
        BY <1>4, <2>1 DEF EditSetup
      <3> HIDE DEF armed, doubt
      <3>2. [s EXCEPT !.armed = armed, !.doubt = doubt] = t
        BY <1>1, <1>4 DEF AsTyped, Setups
      <3> QED BY <3>1, <3>2
    <2> HIDE DEF armed, doubt
    <2>3. /\ t \in Setups /\ t.open = setup.open /\ t.was = setup.was
          /\ t.saving = setup.saving /\ t.doubt = doubt
      BY <1>1, <1>3, <2>1, TypedFields
    <2> HIDE DEF t
    <2>4. setup.open /\ UNCHANGED <<totals, lists, saved, chips, gets, routerVars>>
      BY <1>4 DEF EditSetup
    <2> QED BY <2>2, <2>3, <2>4
  <1>5. ASSUME NEW i \in 0..MaxTitles, TypeTitle(i) 
        PROVE  \E title \in 0..MaxTitles, level \in Levels : \E s :
                 s = [setup EXCEPT !.title = title, !.level = level] /\ EditSetup(s)
    <2> DEFINE level == setup.level
    <2>1. [setup EXCEPT !.title = i] = [setup EXCEPT !.title = i, !.level = level]
      BY <1>1 DEF Setups
    <2> QED BY <1>2, <1>5, <2>1 DEF TypeTitle
  <1>6. ASSUME NEW l \in Levels, PickLevel(l) 
        PROVE  \E title \in 0..MaxTitles, level \in Levels : \E s :
                 s = [setup EXCEPT !.title = title, !.level = level] /\ EditSetup(s)
    <2> DEFINE title == setup.title
    <2>1. [setup EXCEPT !.level = l] = [setup EXCEPT !.title = title, !.level = l]
      BY <1>1 DEF Setups
    <2> QED BY <1>2, <1>6, <2>1 DEF PickLevel
  <1> QED BY <1>4, <1>5, <1>6

\* The form: what is on it is taken as saved.
LEMMA AllSavedGives ==
  ASSUME NEW s \in Setups
  PROVE  LET t == AllSaved(s) IN
         /\ t \in Setups /\ t.open = s.open /\ t.title = s.title /\ t.level = s.level
         /\ t.was \in Bodies /\ t.was.title = s.title /\ t.was.level = s.level
         /\ ~t.armed /\ ~t.saving /\ t.doubt = s.doubt
  <1> DEFINE no == FALSE
             title0 == s.title
             level0 == s.level
             was == [title |-> title0, level |-> level0]
             t == AsKept(s, was, no, no)
  <1>1. no \in BOOLEAN /\ ~no /\ title0 \in 0..MaxTitles /\ level0 \in Levels
    BY SetupParts
  <1>2. AllSaved(s) = t
    BY DEF AllSaved, AsKept
  <1> HIDE DEF no, title0, level0
  <1>3. was \in Bodies /\ was.title = title0 /\ was.level = level0
    BY <1>1 DEF Bodies
  <1> HIDE DEF was
  <1>4. /\ t \in Setups /\ t.open = s.open /\ t.title = s.title /\ t.level = s.level
        /\ t.was = was /\ t.armed = no /\ t.saving = no /\ t.doubt = s.doubt
    BY <1>1, <1>3, KeptFields
  <1> HIDE DEF t
  <1> QED BY <1>1, <1>2, <1>3, <1>4 DEF title0, level0

LEMMA FormFields ==
  ASSUME NEW s \in Setups
  PROVE  /\ OnForm(s) \in Forms /\ OnForm(s).title = s.title /\ OnForm(s).level = s.level
         /\ ~OnForm(s).more
  <1> DEFINE no == FALSE
             title0 == s.title
             level0 == s.level
             f == [title |-> title0, level |-> level0, more |-> no]
  <1>1. no \in BOOLEAN /\ ~no /\ title0 \in 0..MaxTitles /\ level0 \in Levels
    BY SetupParts
  <1>2. OnForm(s) = f
    BY DEF OnForm
  <1> HIDE DEF no, title0, level0
  <1>3. f \in Forms /\ f.title = title0 /\ f.level = level0 /\ f.more = no
    BY <1>1 DEF Forms
  <1> HIDE DEF f
  <1> QED BY <1>1, <1>2, <1>3 DEF title0, level0

LEMMA SaveGives ==
  ASSUME CollectionTyped, SaveSetup
  PROVE  /\ setup.open /\ setup.armed
         /\ UNCHANGED <<totals, lists, saved, chips, routerVars>>
         /\ \/ ~Dirty(setup) /\ setup' = AllSaved(setup) /\ UNCHANGED gets
            \/ /\ Dirty(setup)
               /\ setup' \in Setups /\ setup'.open /\ setup'.title = setup.title
               /\ setup'.level = setup.level /\ setup'.was = setup.was /\ ~setup'.armed
               /\ setup'.saving /\ setup'.doubt = (setup.doubt \/ setup.saving)
               /\ \E g : /\ GetOK(g) /\ gets' = {Doubted(h) : h \in gets} \cup {g} /\ ~g.narrow /\ g.own
                         /\ g.kind = IF setup.title # setup.was.title THEN "title" ELSE "level"
                         /\ g.value = OnForm(setup)
  <1>1. setup \in Setups /\ \A g \in gets : GetOK(g)
    BY DEF CollectionTyped
  <1>2. setup.open /\ setup.armed /\ UNCHANGED <<totals, lists, saved, chips, routerVars>>
    BY DEF SaveSetup
  <1> DEFINE next == Step(setup, {"title", "level"})
             desk == FALSE
  <1>3. CASE next = "done"
    <2>1. ~Dirty(setup)
      BY <1>3 DEF Step, Dirty
    <2> QED BY <1>2, <1>3, <2>1 DEF SaveSetup
  <1>4. CASE next # "done"
    <2> DEFINE yes == TRUE
               no == FALSE
               doubt == setup.doubt \/ setup.saving
               t == AsSetup(setup, no, yes, doubt)
               form == OnForm(setup)
    <2>1. Dirty(setup) /\ next = IF setup.title # setup.was.title THEN "title" ELSE "level"
      BY <1>4 DEF Step, Dirty
    <2>2. setup' = t /\ Store(desk, next, form)
      BY <1>4 DEF SaveSetup, AsSetup, OnForm
    <2>3. yes \in BOOLEAN /\ yes /\ no \in BOOLEAN /\ ~no /\ doubt \in BOOLEAN
      BY <1>1, SetupParts
    <2>4. desk \in BOOLEAN /\ ~desk /\ next \in Kinds
      BY <2>1, Payloads
    <2>5. form \in Payload(next)
      BY <1>1, <2>1, FormFields, Payloads
    <2> HIDE DEF next, desk, yes, no, doubt, form
    <2>6. PICK g : /\ GetOK(g) /\ gets' = {Doubted(h) : h \in gets} \cup {g}
                   /\ g.narrow = desk /\ g.own /\ g.kind = next /\ g.value = form
      BY <1>1, <2>2, <2>4, <2>5, StoreTyped
    <2>7. /\ t \in Setups /\ t.open = setup.open /\ t.title = setup.title /\ t.level = setup.level
          /\ t.was = setup.was /\ t.armed = no /\ t.saving = yes /\ t.doubt = doubt
      <3>1. setup \in Setups /\ no \in BOOLEAN /\ yes \in BOOLEAN /\ doubt \in BOOLEAN
        BY <1>1, <2>3
      <3> QED BY ONLY <3>1, SetupFields
    <2> HIDE DEF t
    <2>8. /\ GetOK(g) /\ gets' = {Doubted(h) : h \in gets} \cup {g} /\ ~g.narrow /\ g.own
          /\ g.kind = IF setup.title # setup.was.title THEN "title" ELSE "level"
          /\ g.value = OnForm(setup)
      BY <2>1, <2>4, <2>6 DEF form
    <2>9. /\ setup' \in Setups /\ setup'.open /\ setup'.title = setup.title
          /\ setup'.level = setup.level /\ setup'.was = setup.was /\ ~setup'.armed
          /\ setup'.saving /\ setup'.doubt = (setup.doubt \/ setup.saving)
      BY <1>2, <2>2, <2>3, <2>7 DEF doubt
    <2> QED BY <1>2, <2>1, <2>8, <2>9
  <1> QED BY <1>3, <1>4

\* The level or the title that a request carries is stored.
LEMMA StoresGives ==
  ASSUME CollectionTyped, NEW g \in gets, g.kind \in {"title", "level"}, Saves(g, TRUE)
  PROVE  /\ saved' \in Bodies
         /\ saved'.title = IF g.kind = "title" THEN g.value.title ELSE saved.title
         /\ saved'.level = IF g.kind = "level" THEN g.value.level ELSE saved.level
  <1>1. GetOK(g) /\ saved \in Bodies
    BY DEF CollectionTyped
  <1> DEFINE v == g.value
             title == v.title
             level == v.level
  <1>2. v \in Forms
    BY <1>1, FieldsOfGet, Payloads
  <1>3. saved' = [saved EXCEPT ![g.kind] = v[g.kind]]
    BY DEF Saves
  <1> HIDE DEF v
  <1>4. title \in 0..MaxTitles /\ level \in Levels
    BY <1>2 DEF Forms
  <1>5. CASE g.kind = "title"
    <2>1. saved' = [saved EXCEPT !.title = title]
      BY <1>3, <1>5
    <2> HIDE DEF title
    <2>2. saved' \in Bodies /\ saved'.title = title /\ saved'.level = saved.level
      BY <1>1, <1>4, <2>1, BodyFields
    <2> QED BY <1>5, <2>2 DEF title, v
  <1>6. CASE g.kind = "level"
    <2>1. saved' = [saved EXCEPT !.level = level]
      BY <1>3, <1>6
    <2> HIDE DEF level
    <2>2. saved' \in Bodies /\ saved'.level = level /\ saved'.title = saved.title
      BY <1>1, <1>4, <2>1, BodyFields
    <2> QED BY <1>6, <2>2 DEF level, v
  <1> QED BY <1>5, <1>6

LEMMA SavesGives ==
  ASSUME CollectionTyped, NEW g \in gets, g.kind \in {"title", "level"}, NEW done \in BOOLEAN,
         Saves(g, done)
  PROVE  saved' \in Bodies /\ (~done => saved' = saved)
  <1>1. CASE ~done
    BY <1>1 DEF Saves, CollectionTyped
  <1>2. CASE done
    <2>1. Saves(g, TRUE)
      BY <1>2 DEF Saves
    <2> QED BY <1>2, <2>1, StoresGives
  <1> QED BY <1>1, <1>2

LEMMA FormSavedGives ==
  ASSUME CollectionTyped, NEW g \in gets, FormSaved(g)
  PROVE  /\ g.kind \in {"title", "level"} /\ Saves(g, TRUE)
         /\ UNCHANGED <<totals, lists, chips, routerVars>>
         /\ \/ /\ g.own /\ g.kind = "title" /\ setup.level # setup.was.level /\ UNCHANGED setup
               /\ \E h : /\ GetOK(h) /\ gets' = (gets \ {g}) \cup {h} /\ ~h.narrow /\ h.own
                         /\ h.kind = "level" /\ h.value = OnForm(setup)
            \/ /\ ~g.own /\ UNCHANGED setup
               /\ \E h : GetOK(h) /\ gets' = (gets \ {g}) \cup {h} /\ ~h.own /\ h.kind = "level"
            \/ /\ g.own => g.kind = "level" \/ setup.level = setup.was.level
               /\ gets' = gets \ {g}
               /\ setup' = IF g.own THEN AllSaved(setup) ELSE setup
  <1>1. setup \in Setups /\ GetOK(g) /\ g.id \in 1..MaxGets
    BY FieldsOfGet DEF CollectionTyped
  <1>2. g.kind \in {"title", "level"} /\ Saves(g, TRUE) /\ UNCHANGED <<totals, lists, chips, routerVars>>
    BY DEF FormSaved
  <1> DEFINE next == Step(setup, Remaining(g))
             desk == FALSE
             form == OnForm(setup)
  <1>3. next \in {"level", "done"} /\ (next = "level" <=> g.kind = "title" /\ setup.level # setup.was.level)
    BY <1>2 DEF Step, Remaining
  <1>4. CASE g.own /\ next # "done"
    <2> DEFINE h == Get(g.id, desk, "level", "my", 0, form)
    <2>1. gets' = (gets \ {g}) \cup {h} /\ UNCHANGED setup
      BY <1>3, <1>4 DEF FormSaved, OnForm
    <2>2. /\ desk \in BOOLEAN /\ ~desk /\ "level" \in Kinds /\ "my" \in Filters /\ 0 \in Nat
          /\ form \in Payload("level")
      BY <1>1, FormFields, Payloads
    <2> HIDE DEF desk, form, next
    <2>3. GetOK(h) /\ h.narrow = desk /\ h.own /\ h.kind = "level" /\ h.value = form
      BY <1>1, <2>2, GetSound
    <2> HIDE DEF h
    <2> QED BY <1>2, <1>3, <1>4, <2>1, <2>2, <2>3 DEF form
  <1>5. CASE ~(g.own /\ next # "done") /\ ~g.own /\ g.value.more
    <2> DEFINE no == FALSE
               f == g.value
               b == [f EXCEPT !.more = no]
               h == [g EXCEPT !.kind = "level", !.value = b]
               payloads == UNION {Payload(k) : k \in Kinds}
    <2>1. gets' = (gets \ {g}) \cup {[g EXCEPT !.kind = "level", !.value.more = no]} /\ UNCHANGED setup
      BY <1>5 DEF FormSaved
    <2>2. [g EXCEPT !.kind = "level", !.value.more = no] = h
      <3> HIDE DEF no
      <3> QED BY <1>1 DEF GetOK, Fetches
    <2>3. f \in Forms /\ no \in BOOLEAN
      BY <1>1, <1>2, FieldsOfGet, Payloads
    <2> HIDE DEF f, no
    <2>4. b \in Forms
      BY <2>3 DEF Forms
    <2> HIDE DEF b
    <2>5. b \in payloads /\ b \in Payload("level") /\ "level" \in Kinds
      BY <2>4, Payloads
    <2>6. g \in [id: 1..MaxGets, narrow: BOOLEAN, own: BOOLEAN, filter: Filters, offset: Nat,
                 kind: Kinds, value: payloads]
      BY <1>1 DEF GetOK, Fetches
    <2> HIDE DEF payloads
    <2>7. /\ h \in [id: 1..MaxGets, narrow: BOOLEAN, own: BOOLEAN, filter: Filters, offset: Nat,
                    kind: Kinds, value: payloads]
          /\ h.kind = "level" /\ h.value = b /\ h.own = g.own
      BY <2>5, <2>6
    <2> HIDE DEF h
    <2>8. GetOK(h)
      BY <2>5, <2>7 DEF GetOK, Fetches, payloads
    <2> HIDE DEF next
    <2> QED BY <1>2, <1>5, <2>1, <2>2, <2>7, <2>8
  <1>6. CASE ~(g.own /\ next # "done") /\ ~(~g.own /\ g.value.more)
    <2>1. gets' = gets \ {g} /\ setup' = IF g.own THEN AllSaved(setup) ELSE setup
      BY <1>6 DEF FormSaved
    <2>2. g.own => g.kind = "level" \/ setup.level = setup.was.level
      BY <1>2, <1>3, <1>6
    <2> HIDE DEF next
    <2> QED BY <1>2, <2>1, <2>2
  <1> QED BY <1>4, <1>5, <1>6

LEMMA FormFailedGives ==
  ASSUME CollectionTyped, NEW g \in gets, NEW lost \in BOOLEAN, FormFailed(g, lost)
  PROVE  /\ g.kind \in {"title", "level"} /\ Saves(g, lost) /\ gets' = gets \ {g}
         /\ UNCHANGED <<totals, lists, chips, routerVars>>
         /\ IF g.own
              THEN /\ setup' \in Setups /\ setup'.open = setup.open /\ setup'.title = setup.title
                   /\ setup'.level = setup.level /\ setup'.was = setup.was /\ ~setup'.saving
                   /\ setup'.doubt = (setup.doubt \/ lost \/ (g.kind = "level" /\ g.value.title # setup.was.title))
              ELSE UNCHANGED setup
  <1>1. setup \in Setups
    BY DEF CollectionTyped
  <1>2. /\ g.kind \in {"title", "level"} /\ Saves(g, lost) /\ gets' = gets \ {g}
        /\ UNCHANGED <<totals, lists, chips, routerVars>>
    BY DEF FormFailed
  <1> DEFINE yes == TRUE
             no == FALSE
             doubt == setup.doubt \/ lost \/ (g.kind = "level" /\ g.value.title # setup.was.title)
             t == AsSetup(setup, yes, no, doubt)
  <1>3. CASE ~g.own
    BY <1>2, <1>3 DEF FormFailed
  <1>4. CASE g.own
    <2>1. setup' = t
      BY <1>4 DEF FormFailed, AsSetup
    <2>2. yes \in BOOLEAN /\ no \in BOOLEAN /\ ~no /\ doubt \in BOOLEAN
      BY <1>1, SetupParts
    <2> HIDE DEF yes, no, doubt
    <2>3. /\ t \in Setups /\ t.open = setup.open /\ t.title = setup.title /\ t.level = setup.level
          /\ t.was = setup.was /\ t.armed = yes /\ t.saving = no /\ t.doubt = doubt
      BY <1>1, <2>2, SetupFields
    <2> HIDE DEF t
    <2> QED BY <1>2, <1>4, <2>1, <2>2, <2>3 DEF doubt
  <1> QED BY <1>3, <1>4

LEMMA RenameGives ==
  ASSUME CollectionTyped, NEW i \in 0..MaxTitles, Rename(i)
  PROVE  /\ On("edit", TRUE)
         /\ \E g : /\ GetOK(g) /\ gets' = {Doubted(h) : h \in gets} \cup {g}
                   /\ g.kind = "rename"
         /\ UNCHANGED <<totals, lists, saved, chips, setup, routerVars>>
  <1> DEFINE yes == TRUE
  <1>1. \A g \in gets : GetOK(g)
    BY DEF CollectionTyped
  <1>2. Store(yes, "rename", i)
    BY DEF Rename
  <1>3. yes \in BOOLEAN /\ "rename" \in Kinds /\ i \in Payload("rename")
    BY Payloads
  <1> HIDE DEF yes
  <1>4. \E g : GetOK(g) /\ gets' = {Doubted(h) : h \in gets} \cup {g} /\ g.kind = "rename"
    BY <1>1, <1>2, <1>3, StoreTyped
  <1> QED BY <1>4 DEF Rename

LEMMA RenamedGives ==
  ASSUME CollectionTyped, NEW g \in gets, NEW done \in BOOLEAN, Renamed(g, done)
  PROVE  /\ g.kind = "rename" /\ gets' = gets \ {g}
         /\ saved' \in Bodies /\ saved'.level = saved.level
         /\ UNCHANGED <<totals, lists, chips, setup, placeVars>>
  <1>1. GetOK(g) /\ saved \in Bodies
    BY DEF CollectionTyped
  <1>2. g.kind = "rename" /\ gets' = gets \ {g} /\ UNCHANGED <<totals, lists, chips, setup, placeVars>>
    BY DEF Renamed
  <1> DEFINE title == g.value
  <1>3. title \in 0..MaxTitles
    BY <1>1, <1>2, FieldsOfGet, Payloads
  <1>4. saved' = saved \/ saved' = [saved EXCEPT !.title = title]
    BY DEF Renamed
  <1> HIDE DEF title
  <1>5. /\ [saved EXCEPT !.title = title] \in Bodies
        /\ [saved EXCEPT !.title = title].level = saved.level
    BY <1>1, <1>3, BodyFields
  <1>6. saved' \in Bodies /\ saved'.level = saved.level
    BY <1>1, <1>4, <1>5
  <1> QED BY <1>2, <1>6

LEMMA LeaveGives ==
  ASSUME CollectionTyped, LeaveSettings
  PROVE  /\ ShutSettings
         /\ \A h \in gets' : /\ GetOK(h) /\ (h.own /\ h.kind \in {"first", "page"} => h \in gets)
                             /\ Carried(h)
  <1>1. ShutSettings /\ gets' = {Abandoned(g) : g \in gets}
    BY DEF LeaveSettings
  <1>2. ASSUME NEW h \in gets'
        PROVE  GetOK(h) /\ (h.own /\ h.kind \in {"first", "page"} => h \in gets) /\ Carried(h)
    <2>1. PICK g \in gets : h = Abandoned(g)
      BY <1>1
    <2> QED BY <2>1, AbandonedGives DEF CollectionTyped, Carried
  <1> QED BY <1>1, <1>2

\* The requests after a save.
LEMMA StoredTyped ==
  ASSUME \A g \in gets : GetOK(g), NEW g, GetOK(g), gets' = {Doubted(h) : h \in gets} \cup {g},
         g.kind \in Changing
  PROVE  /\ \A h \in gets' : /\ GetOK(h) /\ (h.own /\ h.kind \in {"first", "page"} => h \in gets)
                             /\ h.kind \in Loading => h.value.doubt
         /\ \A h \in gets' : h.kind \in Changing => h \in gets \/ h = g
         /\ \A h \in gets : h.kind \in Changing => h \in gets'
  <1>1. "first" \notin Loading \cup Changing /\ "page" \notin Loading \cup Changing /\ Loading \cap Changing = {}
    BY Payloads
  <1>2. ASSUME NEW h \in gets, NEW k, k = Doubted(h)
        PROVE  /\ GetOK(k) /\ k.kind = h.kind /\ (h.kind \notin Loading => k = h)
               /\ h.kind \in Loading => k.value.doubt
    BY <1>2, DoubtedGives
  <1>3. ASSUME NEW h \in gets'
        PROVE  /\ GetOK(h) /\ (h.own /\ h.kind \in {"first", "page"} => h \in gets)
               /\ h.kind \in Loading => h.value.doubt
               /\ h.kind \in Changing => h \in gets \/ h = g
    <2>1. CASE h = g
      BY <1>1, <2>1
    <2>2. CASE \E k \in gets : h = Doubted(k)
      BY <1>1, <1>2, <2>2
    <2> QED BY <2>1, <2>2
  <1>4. ASSUME NEW h \in gets, h.kind \in Changing PROVE h \in gets'
    <2>1. Doubted(h) = h
      BY <1>1, <1>2, <1>4
    <2> QED BY <2>1
  <1> QED BY <1>3, <1>4

\* The settings do not touch the lists.
LEMMA SettingsAside == ASSUME ListsInv, SettingsStep PROVE ListsInv'
  <1>1. /\ CollectionTyped /\ \A g \in gets : GetOK(g)
        /\ saved \in Bodies /\ chips \in [BOOLEAN -> ChipRows] /\ setup \in Setups
    BY DEF ListsInv, CollectionTyped
  <1>2. ASSUME UNCHANGED <<totals, lists>>,
               saved' \in Bodies, chips' \in [BOOLEAN -> ChipRows], setup' \in Setups,
               \A g \in gets' : GetOK(g) /\ (g.own /\ g.kind \in {"first", "page"} => g \in gets)
        PROVE  ListsInv'
    BY <1>2, ListsStay DEF SettingsTyped
  <1>3. ASSUME NEW n \in BOOLEAN, NEW c \in ChipRows, chips' = [chips EXCEPT ![n] = c]
        PROVE  chips' \in [BOOLEAN -> ChipRows]
    BY <1>1, <1>3
  <1>4. ASSUME NEW g, GetOK(g), gets' = {Doubted(h) : h \in gets} \cup {g}, g.kind \in Changing
        PROVE  \A h \in gets' : GetOK(h) /\ (h.own /\ h.kind \in {"first", "page"} => h \in gets)
    BY <1>1, <1>4, StoredTyped
  <1>5. ASSUME OpenChips PROVE ListsInv'
    <2>1. PICK c \in ChipRows : /\ chips' = [chips EXCEPT ![FALSE] = c]
                                /\ UNCHANGED <<totals, lists, saved, setup, gets>>
      BY <1>1, <1>5, OpenChipsGives
    <2> QED BY <1>1, <1>2, <1>3, <2>1
  <1>6. ASSUME LeaveChips PROVE ListsInv'
    <2>1. PICK c \in ChipRows : chips' = [chips EXCEPT ![FALSE] = c]
      BY <1>1, <1>6, LeaveChipsGives
    <2>2. /\ UNCHANGED <<totals, lists, saved, setup>>
          /\ \A h \in gets' : GetOK(h) /\ (h.own /\ h.kind \in {"first", "page"} => h \in gets)
      BY <1>1, <1>6, LeaveChipsGives
    <2> QED BY <1>1, <1>2, <1>3, <2>1, <2>2
  <1>7. ASSUME NEW n \in BOOLEAN, NEW l \in Levels, PressChip(n, l) PROVE ListsInv'
    <2>1. PICK c, g :
            /\ c \in ChipRows /\ chips' = [chips EXCEPT ![n] = c]
            /\ GetOK(g) /\ gets' = {Doubted(h) : h \in gets} \cup {g} /\ g.kind = "chip"
            /\ UNCHANGED <<totals, lists, saved, setup>>
      BY <1>1, <1>7, PressGives
    <2>2. g.kind \in Changing
      BY <2>1, Payloads
    <2> QED BY <1>1, <1>2, <1>3, <1>4, <2>1, <2>2
  <1>8. ASSUME (\E i \in 0..MaxTitles : TypeTitle(i)) \/ (\E l \in Levels : PickLevel(l))
        PROVE  ListsInv'
    <2>1. setup' \in Setups /\ UNCHANGED <<totals, lists, saved, chips, gets>>
      BY <1>1, <1>8, EditGives
    <2> QED BY <1>1, <1>2, <2>1
  <1>9. ASSUME SaveSetup PROVE ListsInv'
    <2>1. /\ UNCHANGED <<totals, lists, saved, chips>> /\ setup' \in Setups
          /\ \/ gets' = gets
             \/ \E g : /\ GetOK(g) /\ gets' = {Doubted(h) : h \in gets} \cup {g}
                       /\ g.kind \in {"title", "level"}
      BY <1>1, <1>9, SaveGives, AllSavedGives
    <2>2. {"title", "level"} \subseteq Changing
      BY Payloads
    <2> QED BY <1>1, <1>2, <1>4, <2>1, <2>2
  <1>10. ASSUME NEW g \in gets, NEW lost \in BOOLEAN, ChipSaved(g) \/ ChipFailed(g, lost) PROVE ListsInv'
    <2>1. saved' \in Bodies /\ gets' = gets \ {g} /\ UNCHANGED <<totals, lists, setup>>
      BY <1>1, <1>10, ChipSavedGives, ChipFailedGives
    <2>2. chips' \in [BOOLEAN -> ChipRows]
      <3>1. UNCHANGED chips \/ \E c \in ChipRows : chips' = [chips EXCEPT ![g.narrow] = c]
        BY <1>1, <1>10, ChipSavedGives, ChipFailedGives
      <3> QED BY <1>1, <3>1
    <2> QED BY <1>1, <1>2, <2>1, <2>2
  <1>11. ASSUME NEW g \in gets, FormSaved(g) PROVE ListsInv'
    <2>1. UNCHANGED <<totals, lists, chips>>
      BY <1>1, <1>11, FormSavedGives
    <2>2. saved' \in Bodies
      BY <1>1, <1>11, FormSavedGives, StoresGives
    <2>3. setup' \in Setups
      BY <1>1, <1>11, FormSavedGives, AllSavedGives
    <2>4. \/ gets' = gets \ {g}
          \/ \E h : GetOK(h) /\ gets' = (gets \ {g}) \cup {h} /\ h.kind = "level"
      BY <1>1, <1>11, FormSavedGives
    <2> QED BY <1>1, <1>2, <2>1, <2>2, <2>3, <2>4
  <1>12. ASSUME NEW g \in gets, NEW lost \in BOOLEAN, FormFailed(g, lost) PROVE ListsInv'
    <2>1. /\ UNCHANGED <<totals, lists, chips>> /\ gets' = gets \ {g} /\ setup' \in Setups
          /\ g.kind \in {"title", "level"} /\ Saves(g, lost)
      BY <1>1, <1>12, FormFailedGives
    <2>2. saved' \in Bodies
      BY <1>1, <2>1, SavesGives
    <2> QED BY <1>1, <1>2, <2>1, <2>2
  <1>13. ASSUME NEW i \in 0..MaxTitles, Rename(i) PROVE ListsInv'
    <2>1. /\ UNCHANGED <<totals, lists, saved, chips, setup>>
          /\ \E g : /\ GetOK(g) /\ gets' = {Doubted(h) : h \in gets} \cup {g}
                    /\ g.kind = "rename"
      BY <1>1, <1>13, RenameGives
    <2>2. "rename" \in Changing
      BY Payloads
    <2> QED BY <1>1, <1>2, <1>4, <2>1, <2>2
  <1>14. ASSUME NEW g \in gets, NEW done \in BOOLEAN, Renamed(g, done) PROVE ListsInv'
    <2>1. saved' \in Bodies /\ gets' = gets \ {g} /\ UNCHANGED <<totals, lists, chips, setup>>
      BY <1>1, <1>14, RenamedGives
    <2> QED BY <1>1, <1>2, <2>1
  <1>15. ASSUME NEW g \in gets, SettingsFailed(g) PROVE ListsInv'
    <2>1. gets' = gets \ {g} /\ UNCHANGED <<totals, lists, saved, chips, setup>>
      BY <1>15 DEF SettingsFailed
    <2> QED BY <1>1, <1>2, <2>1
  <1>16. ASSUME NEW g \in gets, SettingsLoaded(g) PROVE ListsInv'
    <2>1. /\ UNCHANGED <<totals, lists, saved>>
          /\ \A h \in gets' : GetOK(h) /\ (h.own /\ h.kind \in {"first", "page"} => h \in gets)
      BY <1>1, <1>16, LoadedGives
    <2>2. \/ UNCHANGED <<chips, setup>>
          \/ UNCHANGED chips /\ setup' \in Setups
          \/ /\ setup' \in Setups
             /\ \E c \in ChipRows : chips' = [n \in BOOLEAN |-> IF n THEN c ELSE NoChips]
      BY <1>1, <1>16, LoadedGives
    <2>3. setup' \in Setups /\ chips' \in [BOOLEAN -> ChipRows]
      BY <1>1, <2>2, EmptyChips
    <2> QED BY <1>1, <1>2, <2>1, <2>3
  <1> QED BY <1>5, <1>6, <1>7, <1>8, <1>9, <1>10, <1>11, <1>12, <1>13, <1>14, <1>15, <1>16
     DEF SettingsStep

LEMMA LeaveAside ==
  ASSUME ListsInv, UNCHANGED <<totals, lists, saved>>, ShutSettings,
         \A h \in gets' : GetOK(h) /\ (h.own /\ h.kind \in {"first", "page"} => h \in gets)
  PROVE  ListsInv'
  <1>1. saved \in Bodies
    BY DEF ListsInv, CollectionTyped
  <1>2. SettingsTyped'
    BY <1>1, ShutGives DEF SettingsTyped
  <1> QED BY <1>2, ListsStay

LEMMA ListsHeld == ListsInv /\ UNCHANGED collectionVars => ListsInv'
  <1> SUFFICES ASSUME ListsInv, UNCHANGED collectionVars PROVE ListsInv'
    OBVIOUS
  <1>1. UNCHANGED <<totals, lists, saved, chips, setup, gets>>
    BY DEF collectionVars
  <1>2. SettingsTyped' /\ \A g \in gets : GetOK(g)
    BY <1>1 DEF SettingsTyped, ListsInv, CollectionTyped
  <1> QED BY <1>1, <1>2, ListsStay

\* A screen is mounted or left: the settings are shut, and what is under way was, or is a load.
LEMMA MountShuts ==
  ASSUME RouterTypeOK, ListsInv, Mount
  PROVE  /\ ListsInv' /\ UNCHANGED saved
         /\ UNCHANGED <<collectionVars, shown>> \/ (ShutSettings /\ \A h \in gets' : Harmless(h))
  <1>1. CollectionTyped /\ setup \in Setups /\ saved \in Bodies /\ \A g \in gets : GetOK(g)
    BY DEF ListsInv, CollectionTyped
  <1>2. PICK i \in imports :
          /\ ModuleLoaded(i)
          /\ IF Mounts(i) THEN Opens(ScreenOf(i), i.narrow)
             ELSE UNCHANGED <<badge, wizardVars, editorVars, collectionVars, inboxVars, peopleVars>>
    BY DEF Mount
  <1>3. i.narrow \in BOOLEAN
    BY DEF RouterTypeOK
  <1>4. CASE ~Mounts(i)
    <2>1. UNCHANGED collectionVars /\ UNCHANGED shown
      BY <1>2, <1>4 DEF ModuleLoaded
    <2>2. UNCHANGED saved
      BY <2>1 DEF collectionVars
    <2> QED BY <2>1, <2>2, ListsHeld
  <1>5. CASE HomeScreen(i.narrow)
    BY <1>3, <1>5, HomeSafe
  <1>6. CASE SettingsScreen(i.narrow)
    <2>1. /\ ShutSettings /\ UNCHANGED <<totals, lists, saved>>
          /\ \A h \in gets' : /\ GetOK(h) /\ (h.own /\ h.kind \in {"first", "page"} => h \in gets)
                              /\ Harmless(h)
      BY <1>1, <1>3, <1>6, ScreenGives
    <2> QED BY <2>1, LeaveAside
  <1>7. CASE LeaveSettings /\ UNCHANGED <<totals, lists, saved>>
    BY <1>1, <1>7, LeaveGives, LeaveAside DEF Harmless
  <1>8. Mounts(i) => \/ HomeScreen(i.narrow) \/ SettingsScreen(i.narrow)
                     \/ LeaveSettings /\ UNCHANGED <<totals, lists, saved>>
    BY <1>2 DEF Opens
  <1> QED BY <1>4, <1>5, <1>6, <1>7, <1>8

LEMMA RouteShuts ==
  ASSUME ListsInv, Route
  PROVE  /\ ListsInv' /\ UNCHANGED saved
         /\ UNCHANGED <<collectionVars, shown>> \/ (ShutSettings /\ \A h \in gets' : Harmless(h))
  <1>1. /\ UNCHANGED <<totals, lists, pane, saved>>
        /\ UNCHANGED <<chips, setup, gets, shown>> \/ LeaveSettings
    BY DEF Route
  <1>2. UNCHANGED <<chips, setup, gets, shown>> => UNCHANGED <<collectionVars, shown>>
    BY <1>1 DEF collectionVars
  <1>3. CASE LeaveSettings
    BY <1>1, <1>3, LeaveGives, LeaveAside DEF ListsInv, Harmless
  <1> QED BY <1>1, <1>2, <1>3, ListsHeld

LEMMA ListsInvStep ==
  RouterTypeOK /\ ListsInv /\ [ScreensNext]_screensVars => ListsInv'
  <1> SUFFICES ASSUME RouterTypeOK, ListsInv, [ScreensNext]_screensVars PROVE ListsInv'
    OBVIOUS
  <1>1. CASE UNCHANGED collectionVars
    BY <1>1, ListsHeld
  <1>2. CASE Mount \/ Route
    BY <1>2, MountShuts, RouteShuts
  <1>3. CASE ListStep
    BY <1>3, LoadSafe, FirstSafe, PageSafe, DetailSafe DEF ListStep
  <1>4. CASE SettingsStep
    BY <1>4, SettingsAside
  <1>5. CASE UNCHANGED screensVars
    BY <1>1, <1>5 DEF screensVars
  <1> QED BY <1>1, <1>2, <1>3, <1>4, <1>5 DEF ScreensNext

LEMMA ListsInvInit == CollectionInit => ListsInv
  <1> SUFFICES ASSUME CollectionInit PROVE ListsInv
    OBVIOUS
  <1> DEFINE zero == 0
             private == "private"
  <1>1. /\ totals \in [Filters -> 0..MaxRows] /\ lists = [n \in BOOLEAN |-> NoList]
        /\ saved = [title |-> zero, level |-> private] /\ chips = [n \in BOOLEAN |-> NoChips]
        /\ setup = NoSetup /\ gets = {}
    BY DEF CollectionInit
  <1>2. zero \in 0..MaxTitles /\ private \in Levels
    BY CollectionBounds DEF Levels
  <1> HIDE DEF zero, private
  <1>3. saved \in Bodies
    BY <1>1, <1>2 DEF Bodies
  <1>4. lists \in [BOOLEAN -> AnyList] /\ chips \in [BOOLEAN -> ChipRows] /\ setup \in Setups
    BY <1>1, EmptyList, EmptyChips, EmptySetup
  <1>5. CollectionTyped
    BY <1>1, <1>3, <1>4 DEF CollectionTyped
  <1>6. ASSUME NEW n \in BOOLEAN PROVE ListSound(n, lists[n], gets)
    <2>1. lists[n] = NoList /\ Paging(n, gets) = {}
      BY <1>1 DEF Paging
    <2>2. Len(<<>>) = 0
      OBVIOUS
    <2>3. Numbered(NoList)
      BY <2>2, EmptyList DEF Numbered
    <2> QED BY <2>1, <2>3 DEF ListSound
  <1> QED BY <1>5, <1>6 DEF ListsInv

LEMMA ScreensLists == ScreensSpec => []ListsInv
  <1>1. ScreensInit => ListsInv
    BY ListsInvInit DEF ScreensInit
  <1> QED BY <1>1, ListsInvStep, ScreensPlaces, PTL DEF ScreensSpec

\* However pages, first pages and renderings of the list overtake each other, a list whose
\* filter was not changed while a page was under way holds the tests of its filter from the
\* first on, none left out and none twice (loadMore, the filter chips and the first page on
\* either breakpoint).
THEOREM ListsSound == ScreensSpec => []ListFaithful
  <1>1. ListsInv => ListFaithful
    <2> SUFFICES ASSUME ListsInv, NEW n \in BOOLEAN, ~lists[n].crossed, NEW i \in DOMAIN lists[n].rows
                 PROVE  lists[n].rows[i] = <<lists[n].filter, i>>
      BY DEF ListFaithful
    <2> DEFINE l == lists[n]
    <2>1. l \in AnyList /\ Numbered(l)
      BY DEF ListsInv, CollectionTyped, ListSound
    <2> HIDE DEF l
    <2>2. l.rows \in Seq(AnyRows)
      BY <2>1 DEF AnyList, ListsOf
    <2>3. ~l.crossed /\ i \in 1..Len(l.rows)
      BY <2>2 DEF l
    <2>4. l.rows[i] = <<l.filter, i>>
      BY <2>1, <2>3 DEF Numbered
    <2> QED BY <2>4 DEF l
  <1> QED BY <1>1, ScreensLists, PTL

(***************************************************************************)
(* Where the settings are open.                                            *)
(***************************************************************************)

LEMMA PlaceFacts ==
  /\ ChipsPlace(TRUE) \notin Covered \cup {ChipsPlace(FALSE), SetupPlace}
  /\ ChipsPlace(FALSE) \notin Covered \cup {ChipsPlace(TRUE), SetupPlace}
  /\ SetupPlace \notin Covered \cup {ChipsPlace(TRUE), ChipsPlace(FALSE)}
  /\ \A p \in LateScreens \ {"edit"} : [page |-> p, narrow |-> TRUE] \in Covered
  <1> DEFINE yes == TRUE
             no == FALSE
             Place(p, b) == [page |-> p, narrow |-> b]
  <1>1. yes \in BOOLEAN /\ no \in BOOLEAN /\ yes # no
    OBVIOUS
  <1>2. \A p, q, b, c : Place(p, b) = Place(q, c) => p = q /\ b = c
    <2> SUFFICES ASSUME NEW p, NEW q, NEW b, NEW c, Place(p, b) = Place(q, c) PROVE p = q /\ b = c
      OBVIOUS
    <2>1. Place(p, b).page = p /\ Place(q, c).page = q
      OBVIOUS
    <2>2. Place(p, b).narrow = b /\ Place(q, c).narrow = c
      OBVIOUS
    <2> HIDE DEF Place
    <2> QED BY <2>1, <2>2
  <1> DEFINE A == ChipsPlace(TRUE)
             B == ChipsPlace(FALSE)
  <1>3. /\ A = Place("edit", yes) /\ B = Place("home", no)
        /\ SetupPlace = Place("edit", no) /\ Covered = {Place(p, yes) : p \in LateScreens} \ {A}
    BY DEF ChipsPlace, SetupPlace, Covered, LatePlaces
  <1>4. \A p : [page |-> p, narrow |-> TRUE] = Place(p, yes)
    OBVIOUS
  <1> HIDE DEF A, B, yes, no, Place
  <1>5. A \notin Covered \cup {B, SetupPlace}
    BY <1>1, <1>2, <1>3
  <1>6. B \notin Covered \cup {A, SetupPlace}
    BY <1>1, <1>2, <1>3
  <1>7. SetupPlace \notin Covered \cup {A, B}
    BY <1>1, <1>2, <1>3
  <1>8. ASSUME NEW p \in LateScreens \ {"edit"} PROVE Place(p, yes) \in Covered
    <2>1. Place(p, yes) # A
      BY <1>2, <1>3
    <2> QED BY <1>3, <2>1
  <1> QED BY <1>4, <1>5, <1>6, <1>7, <1>8 DEF A, B

\* A step that shows the same screen, or one that covers it, and what it brings to life on its own.
LEMMA PlacesKept ==
  ASSUME PlacesInv, shown' = shown \/ shown' \in Covered,
         setup'.open => setup.open \/ shown' = SetupPlace,
         \A n \in BOOLEAN : Live(chips'[n]) => Live(chips[n]) \/ shown' = ChipsPlace(n)
  PROVE  PlacesInv'
  BY DEF PlacesInv

LEMMA StrayedShows == Strayed => shown' = shown \/ shown' \in Covered
  <1>1. CASE UNCHANGED routerVars
    BY <1>1 DEF routerVars
  <1>2. ASSUME NEW p, Wander(p) PROVE shown' = shown
    BY <1>2 DEF Wander, placeVars
  <1>3. ASSUME NEW p \in LateScreens \ {"edit"}, Repaint(p, TRUE) PROVE shown' \in Covered
    BY <1>3, PlaceFacts DEF Repaint, Paint
  <1> QED BY <1>1, <1>2, <1>3 DEF Strayed

\* On a screen with settings those of the others are neither open nor taken for the truth.
LEMMA Elsewhere ==
  ASSUME PlacesInv
  PROVE  /\ On("home", FALSE) => ~Live(chips[TRUE]) /\ ~setup.open
         /\ On("edit", TRUE) => ~Live(chips[FALSE]) /\ ~setup.open
         /\ On("edit", FALSE) => ~Live(chips[TRUE]) /\ ~Live(chips[FALSE])
  <1>1. /\ On("home", FALSE) => shown = ChipsPlace(FALSE)
        /\ On("edit", TRUE) => shown = ChipsPlace(TRUE)
        /\ On("edit", FALSE) => shown = SetupPlace
    BY DEF On, ChipsPlace, SetupPlace
  <1>2. /\ Live(chips[TRUE]) => shown \in Covered \cup {ChipsPlace(TRUE)}
        /\ Live(chips[FALSE]) => shown \in Covered \cup {ChipsPlace(FALSE)}
        /\ setup.open => shown \in Covered \cup {SetupPlace}
    BY DEF PlacesInv
  <1> DEFINE A == ChipsPlace(TRUE)
             B == ChipsPlace(FALSE)
  <1>3. /\ A \notin Covered \cup {B, SetupPlace} /\ B \notin Covered \cup {A, SetupPlace}
        /\ SetupPlace \notin Covered \cup {A, B}
    BY PlaceFacts
  <1> HIDE DEF A, B
  <1> QED BY <1>1, <1>2, <1>3 DEF A, B

\* The chips of one breakpoint are replaced.
LEMMA OtherChips ==
  ASSUME CollectionTyped, NEW n \in BOOLEAN, NEW c, chips' = [chips EXCEPT ![n] = c]
  PROVE  chips'[n] = c /\ \A m \in BOOLEAN : m # n => chips'[m] = chips[m]
  BY DEF CollectionTyped

(***************************************************************************)
(* What the settings show.                                                 *)
(***************************************************************************)

LEMMA KindFacts ==
  /\ Storing = {"chip", "title", "level"} /\ Changing = {"chip", "title", "level", "rename"}
  /\ Loading = {"detail", "load"}
  /\ "first" \notin Changing /\ "page" \notin Changing /\ "detail" \notin Changing
  BY DEF Storing, Changing, Loading

LEMMA FormSame ==
  ASSUME NEW s, NEW t, s.title = t.title, s.level = t.level PROVE OnForm(s) = OnForm(t)
  <1> DEFINE no == FALSE
  <1>1. OnForm(s) = [title |-> s.title, level |-> s.level, more |-> no]
    BY DEF OnForm
  <1>2. OnForm(t) = [title |-> t.title, level |-> t.level, more |-> no]
    BY DEF OnForm
  <1> HIDE DEF no
  <1> QED BY <1>1, <1>2

\* The loads after a step that stores nothing.
LEMMA LoadsKept ==
  ASSUME LoadsSound(gets, saved), UNCHANGED saved, \A h \in gets' : Harmless(h)
  PROVE  LoadsSound(gets', saved')
  <1> SUFFICES ASSUME NEW h \in gets', h.kind \in Loading, ~h.value.doubt
               PROVE  h.value.saw = saved /\ \A k \in gets' : k.kind \notin Changing
    BY DEF LoadsSound
  <1>1. h.value.saw = saved /\ \A g \in gets : g.kind \notin Changing
    <2>1. CASE Carried(h)
      BY <2>1 DEF Carried, LoadsSound
    <2>2. CASE Queried(h)
      BY <2>2 DEF Queried
    <2> QED BY <2>1, <2>2 DEF Harmless
  <1>2. ASSUME NEW k \in gets' PROVE k.kind \notin Changing
    <2>1. Carried(k) \/ Queried(k) \/ k.kind \notin Changing
      BY DEF Harmless
    <2> QED BY <1>1, <2>1, KindFacts DEF Carried, Queried
  <1> QED BY <1>1, <1>2

\* And after one that stores something, or has it under way.
LEMMA LoadsDoubted ==
  ASSUME \A h \in gets' : h.kind \in Loading => h.value.doubt PROVE LoadsSound(gets', saved')
  BY DEF LoadsSound

LEMMA LoadsBusy ==
  ASSUME LoadsSound(gets, saved), NEW g \in gets, g.kind \in Changing,
         \A h \in gets' : h.kind \in Loading => h \in gets
  PROVE  LoadsSound(gets', saved')
  BY DEF LoadsSound

\* A step that changes neither what the server has nor the requests that will change it, but
\* those of chips of the desktop that are in doubt.
OfTab(g) == g.kind = "chip" /\ ~g.narrow
SameChanging == /\ \A g \in gets' : g.kind \in Changing => g \in gets
                /\ \A g \in gets : g.kind \in Changing => g \in gets'
LEMMA SettingsQuiet ==
  ASSUME SettingsInv, PlacesInv', LoadsSound(gets', saved'), UNCHANGED <<saved, setup>>,
         \A n \in BOOLEAN : chips'[n] = chips[n] \/ chips'[n].doubt,
         \/ SameChanging
         \/ /\ chips'[FALSE].doubt
            /\ \A g \in gets' : g.kind \in Changing => g \in gets \/ \E h \in gets : OfTab(h)
            /\ \A g \in gets : g.kind \in Changing => g \in gets' \/ OfTab(g)
  PROVE  SettingsInv'
  <1>1. ASSUME NEW n \in BOOLEAN PROVE ChipsSound(n, chips'[n], gets', saved.level)
    <2>1. ChipsSound(n, chips[n], gets, saved.level)
      BY DEF SettingsInv
    <2> SUFFICES ASSUME ~chips'[n].doubt PROVE ChipsSound(n, chips'[n], gets', saved.level)
      BY DEF ChipsSound
    <2>2. chips'[n] = chips[n]
      OBVIOUS
    <2>3. SameChanging
      <3>1. CASE chips'[FALSE].doubt
        <4>1. n = TRUE
          BY <3>1
        <4>2. \A g \in gets : ~OfTab(g)
          BY <2>1, <2>2, <4>1, KindFacts DEF ChipsSound, OfTab
        <4> QED BY <4>2 DEF SameChanging
      <3> QED BY <3>1
    <2> QED BY <2>1, <2>2, <2>3, KindFacts DEF ChipsSound, SameChanging
  <1>2. SetupSound(setup, gets', saved)
    <2>1. SetupSound(setup, gets, saved)
      BY DEF SettingsInv
    <2> SUFFICES ASSUME setup.open, ~setup.doubt PROVE SetupSound(setup, gets', saved)
      BY DEF SetupSound
    <2>2. \A g \in gets : ~OfTab(g)
      BY <2>1, KindFacts DEF SetupSound, OfTab
    <2>3. SameChanging
      BY <2>2 DEF SameChanging
    <2> QED BY <2>1, <2>3 DEF SetupSound, SameChanging
  <1> QED BY <1>1, <1>2 DEF SettingsInv

LEMMA SettingsClosed ==
  ASSUME PlacesInv', LoadsSound(gets', saved'), \A n \in BOOLEAN : chips'[n].doubt, ~setup'.open
  PROVE  SettingsInv'
  BY DEF SettingsInv, ChipsSound, SetupSound

\* A step of the chips of one breakpoint while the form is closed and the other chips are not live.
LEMMA ChipsMove ==
  ASSUME CollectionTyped, PlacesInv', LoadsSound(gets', saved'), ~setup'.open,
         NEW n \in BOOLEAN, NEW c, chips' = [chips EXCEPT ![n] = c],
         \A m \in BOOLEAN : m # n => chips[m].doubt,
         ChipsSound(n, c, gets', saved'.level)
  PROVE  SettingsInv'
  <1>1. chips'[n] = c /\ \A m \in BOOLEAN : m # n => chips'[m] = chips[m]
    BY OtherChips
  <1>2. \A m \in BOOLEAN : ChipsSound(m, chips'[m], gets', saved'.level)
    BY <1>1 DEF ChipsSound
  <1>3. SetupSound(setup', gets', saved')
    BY DEF SetupSound
  <1> QED BY <1>2, <1>3 DEF SettingsInv

\* A step of the form while no chips are live.
LEMMA SetupMoves ==
  ASSUME PlacesInv', LoadsSound(gets', saved'), \A n \in BOOLEAN : chips'[n].doubt,
         SetupSound(setup', gets', saved')
  PROVE  SettingsInv'
  BY DEF SettingsInv, ChipsSound

LEMMA OpenChipsTrue == ASSUME CollectionTyped, SettingsInv, OpenChips PROVE SettingsInv'
  <1>1. PICK c \in ChipRows :
           /\ chips' = [chips EXCEPT ![FALSE] = c]
           /\ c.open /\ c.level = chips[FALSE].level /\ c.shown = c.level /\ c.doubt = chips[FALSE].doubt
           /\ On("home", FALSE) /\ UNCHANGED <<saved, setup, gets, routerVars>>
    BY OpenChipsGives
  <1>2. /\ shown' = ChipsPlace(FALSE) /\ shown' = shown /\ UNCHANGED <<saved, setup, gets>>
        /\ ~setup.open /\ ~Live(chips[TRUE])
    BY <1>1, Elsewhere DEF On, ChipsPlace, routerVars, SettingsInv
  <1>3. \A m \in BOOLEAN : m # FALSE => chips'[m] = chips[m] /\ chips[m].doubt /\ ~Live(chips[m])
    BY <1>1, <1>2, OtherChips DEF Live
  <1>4. PlacesInv'
    BY <1>2, <1>3, PlacesKept DEF SettingsInv
  <1>5. ChipsSound(FALSE, c, gets', saved'.level)
    <2>1. ChipsSound(FALSE, chips[FALSE], gets, saved.level)
      BY DEF SettingsInv
    <2> QED BY <1>1, <1>2, <2>1 DEF ChipsSound
  <1>6. LoadsSound(gets', saved')
    BY <1>2 DEF SettingsInv
  <1> QED BY <1>1, <1>2, <1>3, <1>4, <1>5, <1>6, ChipsMove

LEMMA LeaveChipsTrue == ASSUME CollectionTyped, SettingsInv, LeaveChips PROVE SettingsInv'
  <1>1. PICK c \in ChipRows :
           /\ chips' = [chips EXCEPT ![FALSE] = c]
           /\ ~c.open /\ c.level = chips[FALSE].level /\ c.doubt = chips[FALSE].doubt
    BY LeaveChipsGives
  <1>2. On("home", FALSE) /\ UNCHANGED <<saved, setup>> /\ shown' = shown
    BY LeaveChipsGives DEF routerVars
  <1>3. ~setup.open /\ ~Live(chips[TRUE])
    BY <1>2, Elsewhere DEF SettingsInv
  <1>4. \A m \in BOOLEAN : m # FALSE => chips'[m] = chips[m] /\ chips[m].doubt
    BY <1>1, <1>3, OtherChips DEF Live
  <1>5. \A m \in BOOLEAN : Live(chips'[m]) => Live(chips[m])
    BY <1>1, <1>4, OtherChips DEF Live
  <1>6. PlacesInv'
    BY <1>2, <1>5, PlacesKept DEF SettingsInv
  <1>7. \A h \in gets' : Harmless(h)
    <2>1. \A h \in gets' : \E g \in gets : h.kind = g.kind /\ (h.kind # "chip" => h = g)
      BY LeaveChipsGives
    <2> QED BY <2>1, KindFacts DEF Harmless, Carried
  <1>8. LoadsSound(gets', saved')
    BY <1>2, <1>7, LoadsKept DEF SettingsInv
  <1>9. ChipsSound(FALSE, c, gets', saved'.level)
    <2> SUFFICES ASSUME ~c.doubt PROVE ChipsSound(FALSE, c, gets', saved.level)
      BY <1>2 DEF ChipsSound
    <2>1. ChipsSound(FALSE, chips[FALSE], gets, saved.level) /\ ~chips[FALSE].doubt
      BY <1>1 DEF SettingsInv
    <2>2. /\ \A g \in gets : g.kind \in Storing =>
               /\ g.kind = "chip" /\ g.narrow = FALSE /\ g.own /\ g.value.was = saved.level
               /\ g.value.level = c.level
          /\ \A g, h \in gets : g.kind = "chip" /\ h.kind = "chip" => g = h
          /\ (\A g \in gets : g.kind # "chip") => c.level = saved.level
      BY <1>1, <2>1 DEF ChipsSound
    <2>3. \A g, h \in gets' : g.kind = "chip" /\ h.kind = "chip" => g = h
      BY <2>2, LeaveChipsGives
    <2>4. (\A g \in gets' : g.kind # "chip") => c.level = saved.level
      <3>1. \A g \in gets : \E h \in gets' : h.kind = g.kind
        BY LeaveChipsGives
      <3> QED BY <2>2, <3>1
    <2>5. ASSUME NEW h \in gets', h.kind \in Storing
          PROVE  /\ h.kind = "chip" /\ h.narrow = FALSE /\ h.own /\ h.value.was = saved.level
                 /\ h.value.level = c.level
      <3>1. PICK g \in gets :
              /\ h.kind = g.kind /\ h.narrow = g.narrow /\ h.own = g.own
              /\ h.kind = "chip" => h.value.was = g.value.was /\ h.value.level = g.value.level
        BY LeaveChipsGives
      <3>2. /\ g.kind = "chip" /\ g.narrow = FALSE /\ g.own /\ g.value.was = saved.level
            /\ g.value.level = c.level
        BY <2>2, <2>5, <3>1
      <3> QED BY <3>1, <3>2
    <2> QED BY <1>1, <2>3, <2>4, <2>5 DEF ChipsSound
  <1> QED BY <1>1, <1>2, <1>3, <1>4, <1>6, <1>8, <1>9, ChipsMove

LEMMA PressTrue ==
  ASSUME CollectionTyped, SettingsInv, NEW n \in BOOLEAN, NEW level \in Levels, PressChip(n, level)
  PROVE  SettingsInv'
  <1>1. PICK c, g :
           /\ c \in ChipRows /\ chips' = [chips EXCEPT ![n] = c] /\ chips[n].open
           /\ c.open /\ c.level = level /\ c.shown = level
           /\ c.doubt = (chips[n].doubt \/ Pending(n, {"chip"}))
           /\ GetOK(g) /\ gets' = {Doubted(h) : h \in gets} \cup {g}
           /\ g.narrow = n /\ g.own /\ g.kind = "chip"
           /\ g.value.was = chips[n].level /\ g.value.level = level
           /\ UNCHANGED <<saved, setup, routerVars>>
    BY PressGives
  <1>2. /\ \A h \in gets' : h.kind \in Loading => h.value.doubt
        /\ \A h \in gets' : h.kind \in Changing => h \in gets \/ h = g
    BY <1>1, StoredTyped, KindFacts DEF CollectionTyped
  <1>3. UNCHANGED <<saved, setup, shown>>
    BY <1>1 DEF routerVars
  <1>4. ~setup.open /\ \A m \in BOOLEAN : m # n => chips[m].doubt
    <2>1. On(IF n THEN "edit" ELSE "home", n)
      BY DEF PressChip
    <2>2. CASE n = TRUE
      BY <2>1, <2>2, Elsewhere DEF SettingsInv, Live
    <2>3. CASE n = FALSE
      BY <2>1, <2>3, Elsewhere DEF SettingsInv, Live
    <2> QED BY <2>2, <2>3
  <1>5. PlacesInv'
    <2>1. \A m \in BOOLEAN : Live(chips'[m]) => Live(chips[m])
      BY <1>1, OtherChips DEF Live
    <2> QED BY <1>3, <2>1, PlacesKept DEF SettingsInv
  <1>6. ChipsSound(n, c, gets', saved'.level)
    <2> SUFFICES ASSUME ~c.doubt PROVE ChipsSound(n, c, gets', saved.level)
      BY <1>3 DEF ChipsSound
    <2>1. ChipsSound(n, chips[n], gets, saved.level) /\ ~chips[n].doubt
      BY <1>1 DEF SettingsInv
    <2>2. \A h \in gets : ~(h.narrow = n /\ h.kind = "chip")
      BY <1>1 DEF Pending
    <2>3. \A h \in gets : h.kind \notin Storing
      BY <2>1, <2>2 DEF ChipsSound
    <2>4. chips[n].level = saved.level
      BY <2>1, <2>3, KindFacts DEF ChipsSound
    <2>5. g \in gets' /\ \A h \in gets' : h.kind \in Storing => h = g
      BY <1>1, <1>2, <2>3, KindFacts
    <2> QED BY <1>1, <2>4, <2>5, KindFacts DEF ChipsSound
  <1> QED BY <1>1, <1>2, <1>3, <1>4, <1>5, <1>6, LoadsDoubted, ChipsMove

\* The level of a press is stored, refused, or its answer is lost.
LEMMA PressedTrue ==
  ASSUME CollectionTyped, SettingsInv, NEW g \in gets,
         ChipSaved(g) \/ \E lost \in BOOLEAN : ChipFailed(g, lost)
  PROVE  SettingsInv'
  <1>1. g.kind = "chip" /\ gets' = gets \ {g} /\ UNCHANGED <<setup, routerVars>> /\ g.narrow \in BOOLEAN
    BY ChipSavedGives, ChipFailedGives, FieldsOfGet
  <1>2. LoadsSound(gets', saved')
    BY <1>1, LoadsBusy, KindFacts DEF SettingsInv
  <1>3. SetupSound(setup, gets', saved')
    <2>1. SetupSound(setup, gets, saved)
      BY DEF SettingsInv
    <2>2. ~(setup.open /\ ~setup.doubt)
      BY <1>1, <2>1, KindFacts DEF SetupSound
    <2> QED BY <2>2 DEF SetupSound
  <1>4. \/ UNCHANGED chips
        \/ \E c : /\ chips' = [chips EXCEPT ![g.narrow] = c] /\ c.open = chips[g.narrow].open
                  /\ chips[g.narrow].doubt => c.doubt
    BY ChipSavedGives, ChipFailedGives
  <1>5. PlacesInv'
    <2>1. \A m \in BOOLEAN : Live(chips'[m]) => Live(chips[m])
      <3>1. CASE UNCHANGED chips
        BY <3>1
      <3>2. ASSUME NEW c, chips' = [chips EXCEPT ![g.narrow] = c], c.open = chips[g.narrow].open,
                   chips[g.narrow].doubt => c.doubt
            PROVE  \A m \in BOOLEAN : Live(chips'[m]) => Live(chips[m])
        <4>1. chips'[g.narrow] = c /\ \A m \in BOOLEAN : m # g.narrow => chips'[m] = chips[m]
          BY <1>1, <3>2, OtherChips
        <4> QED BY <3>2, <4>1 DEF Live
      <3> QED BY <1>4, <3>1, <3>2
    <2> QED BY <1>1, <2>1, PlacesKept DEF SettingsInv, routerVars
  <1>6. ASSUME NEW n \in BOOLEAN PROVE ChipsSound(n, chips'[n], gets', saved'.level)
    <2>1. ChipsSound(n, chips[n], gets, saved.level)
      BY DEF SettingsInv
    <2>2. ~chips[n].doubt =>
            /\ g.own /\ g.narrow = n /\ g.value.was = saved.level /\ g.value.level = chips[n].level
            /\ \A h \in gets' : h.kind \notin Storing
            /\ chips[n].open => chips[n].shown = chips[n].level
      BY <1>1, <2>1, KindFacts DEF ChipsSound
    <2>3. CASE ChipSaved(g)
      <3>1. saved'.level = g.value.level /\ UNCHANGED chips
        BY <2>3, ChipSavedGives
      <3> QED BY <2>2, <3>1, KindFacts DEF ChipsSound
    <2>4. ASSUME NEW lost \in BOOLEAN, ChipFailed(g, lost) PROVE ChipsSound(n, chips'[n], gets', saved'.level)
      <3>1. ~lost => saved' = saved
        BY <2>4, ChipFailedGives
      <3>2. CASE ~g.own
        <4>1. UNCHANGED chips
          BY <2>4, <3>2, ChipFailedGives
        <4> QED BY <2>2, <3>2, <4>1 DEF ChipsSound
      <3>3. CASE g.own
        <4>1. PICK c \in ChipRows :
                     /\ chips' = [chips EXCEPT ![g.narrow] = c]
                     /\ c.open = chips[g.narrow].open /\ c.level = g.value.was
                     /\ g.value.seen => c.shown = c.level
                     /\ ~c.doubt => ~chips[g.narrow].doubt /\ ~lost /\ (c.open => g.value.seen)
          BY <2>4, <3>3, ChipFailedGives
        <4>2. chips'[g.narrow] = c /\ (n # g.narrow => chips'[n] = chips[n])
          BY <1>1, <4>1, OtherChips
        <4>3. CASE g.narrow = n
          <5> SUFFICES ASSUME ~c.doubt PROVE ChipsSound(n, c, gets', saved'.level)
            BY <4>2, <4>3 DEF ChipsSound
          <5>1. saved' = saved /\ ~chips[n].doubt /\ (c.open => c.shown = c.level)
            BY <3>1, <4>1, <4>3
          <5>2. c.level = saved.level /\ \A h \in gets' : h.kind \notin Storing
            BY <2>2, <4>1, <5>1
          <5> QED BY <5>1, <5>2, KindFacts DEF ChipsSound
        <4>4. CASE g.narrow # n
          BY <2>2, <4>2, <4>4 DEF ChipsSound
        <4> QED BY <4>3, <4>4
      <3> QED BY <3>2, <3>3
    <2> QED BY <2>3, <2>4
  <1> QED BY <1>1, <1>2, <1>3, <1>5, <1>6 DEF SettingsInv

\* The test of an edit screen arrives.
LEMMA LoadedTrue ==
  ASSUME CollectionTyped, SettingsInv, NEW g \in gets, SettingsLoaded(g) PROVE SettingsInv'
  <1>1. g.kind = "load" /\ UNCHANGED saved /\ \A h \in gets' : Harmless(h)
    BY LoadedGives DEF Harmless
  <1>2. LoadsSound(gets', saved')
    BY <1>1, LoadsKept DEF SettingsInv
  <1>3. ~g.value.doubt => /\ g.value.saw = saved
                          /\ \A h \in gets' : h.kind \notin Changing
    <2>1. ~g.value.doubt => g.value.saw = saved /\ \A h \in gets : h.kind \notin Changing
      BY <1>1, KindFacts DEF SettingsInv, LoadsSound
    <2>2. \A h \in gets' : Carried(h)
      BY LoadedGives
    <2> QED BY <2>1, <2>2 DEF Carried
  <1>4. CASE UNCHANGED <<chips, setup, shown>> /\ gets' = gets \ {g}
    <2>1. PlacesInv'
      BY <1>4, PlacesKept DEF SettingsInv
    <2>2. SameChanging
      BY <1>1, <1>4, KindFacts DEF SameChanging
    <2> QED BY <1>1, <1>2, <1>4, <2>1, <2>2, SettingsQuiet
  <1>5. CASE /\ UNCHANGED <<chips, shown>> /\ On("edit", FALSE)
             /\ ~setup'.saving /\ setup'.doubt = g.value.doubt /\ setup'.was \in {g.value.saw, saved}
    <2>1. \A n \in BOOLEAN : chips'[n].doubt
      BY <1>5, Elsewhere DEF SettingsInv, Live
    <2>2. shown' = SetupPlace
      BY <1>5 DEF On, SetupPlace
    <2>3. PlacesInv'
      BY <1>5, <2>2, PlacesKept DEF SettingsInv
    <2>4. SetupSound(setup', gets', saved')
      BY <1>1, <1>3, <1>5 DEF SetupSound
    <2> QED BY <1>2, <2>1, <2>3, <2>4, SetupMoves
  <1>6. ASSUME shown' = ChipsPlace(TRUE), ~setup'.open, NEW c, c.shown = c.level, c.doubt = g.value.doubt,
               c.level \in {g.value.saw.level, saved.level},
               chips' = [n \in BOOLEAN |-> IF n THEN c ELSE NoChips]
        PROVE  SettingsInv'
    <2>1. chips'[TRUE] = c /\ chips'[FALSE].doubt /\ ~chips'[FALSE].open
      BY <1>6, EmptyChips
    <2>2. PlacesInv'
      BY <1>6, <2>1 DEF PlacesInv, Live
    <2>3. ChipsSound(TRUE, c, gets', saved'.level)
      BY <1>1, <1>3, <1>6, KindFacts DEF ChipsSound
    <2>4. \A n \in BOOLEAN : ChipsSound(n, chips'[n], gets', saved'.level)
      BY <2>1, <2>3 DEF ChipsSound
    <2>5. SetupSound(setup', gets', saved')
      BY <1>6 DEF SetupSound
    <2> QED BY <1>2, <2>2, <2>4, <2>5 DEF SettingsInv
  <1> QED BY <1>4, <1>5, <1>6, LoadedGives

LEMMA LoadFailedTrue ==
  ASSUME SettingsInv, NEW g \in gets, SettingsFailed(g) PROVE SettingsInv'
  <1>1. /\ g.kind = "load" /\ gets' = gets \ {g} /\ UNCHANGED <<saved, chips, setup, shown>>
    BY DEF SettingsFailed, placeVars
  <1>2. PlacesInv'
    BY <1>1, PlacesKept DEF SettingsInv
  <1>3. LoadsSound(gets', saved') /\ SameChanging
    BY <1>1, KindFacts DEF SettingsInv, LoadsSound, SameChanging
  <1> QED BY <1>1, <1>2, <1>3, SettingsQuiet

LEMMA EditTrue ==
  ASSUME CollectionTyped, SettingsInv,
         (\E i \in 0..MaxTitles : TypeTitle(i)) \/ (\E l \in Levels : PickLevel(l))
  PROVE  SettingsInv'
  <1>1. /\ setup.open /\ setup'.was = setup.was /\ setup'.saving = setup.saving
        /\ setup'.doubt = (setup.doubt \/ setup.saving)
        /\ UNCHANGED <<saved, chips, gets>> /\ shown' = shown
    BY EditGives DEF routerVars
  <1>2. On("edit", FALSE)
    BY DEF TypeTitle, PickLevel, EditSetup
  <1>3. \A n \in BOOLEAN : chips'[n].doubt
    BY <1>1, <1>2, Elsewhere DEF SettingsInv, Live
  <1>4. PlacesInv'
    BY <1>1, PlacesKept DEF SettingsInv
  <1>5. LoadsSound(gets', saved')
    BY <1>1 DEF SettingsInv
  <1>6. SetupSound(setup', gets', saved')
    <2> SUFFICES ASSUME ~setup'.doubt PROVE SetupSound(setup', gets', saved')
      BY DEF SetupSound
    <2>1. SetupSound(setup, gets, saved)
      BY DEF SettingsInv
    <2>2. ~setup.saving /\ ~setup.doubt
      BY <1>1
    <2>3. setup.was = saved /\ \A g \in gets : g.kind \notin Changing
      BY <1>1, <2>1, <2>2 DEF SetupSound
    <2> QED BY <1>1, <2>2, <2>3 DEF SetupSound
  <1> QED BY <1>3, <1>4, <1>5, <1>6, SetupMoves

LEMMA SaveTrue == ASSUME CollectionTyped, SettingsInv, SaveSetup PROVE SettingsInv'
  <1>1. /\ setup.open /\ setup.armed /\ UNCHANGED <<saved, chips>> /\ shown' = shown
        /\ setup \in Setups /\ saved \in Bodies /\ setup.was \in Bodies
        /\ \A g \in gets : GetOK(g)
    BY SaveGives, SetupParts DEF CollectionTyped, routerVars
  <1>2. \A n \in BOOLEAN : chips'[n].doubt
    BY <1>1, Elsewhere DEF SettingsInv, Live, SaveSetup
  <1>3. ~setup.doubt => /\ ~setup.saving /\ setup.was = saved
                        /\ \A g \in gets : g.kind \notin Changing
    BY <1>1 DEF SettingsInv, SetupSound
  <1>4. PlacesInv'
    BY <1>1, PlacesKept DEF SettingsInv
  <1>5. CASE ~Dirty(setup) /\ setup' = AllSaved(setup) /\ UNCHANGED gets
    <2>1. /\ setup'.was \in Bodies /\ setup'.was.title = setup.title /\ setup'.was.level = setup.level
          /\ ~setup'.saving /\ setup'.doubt = setup.doubt
      BY <1>1, <1>5, AllSavedGives
    <2>2. setup'.was = setup.was
      BY <1>1, <1>5, <2>1, BodyFields DEF Dirty
    <2>3. SetupSound(setup', gets', saved')
      BY <1>1, <1>3, <1>5, <2>1, <2>2 DEF SetupSound
    <2>4. LoadsSound(gets', saved')
      BY <1>1, <1>5 DEF SettingsInv
    <2> QED BY <1>2, <1>4, <2>3, <2>4, SetupMoves
  <1>6. CASE ~(~Dirty(setup) /\ setup' = AllSaved(setup) /\ UNCHANGED gets)
    <2>1. /\ Dirty(setup) /\ setup'.title = setup.title /\ setup'.level = setup.level
          /\ setup'.was = setup.was /\ ~setup'.armed
          /\ setup'.saving /\ setup'.doubt = (setup.doubt \/ setup.saving)
          /\ \E g : /\ GetOK(g) /\ gets' = {Doubted(h) : h \in gets} \cup {g} /\ g.own
                    /\ g.kind = IF setup.title # setup.was.title THEN "title" ELSE "level"
                    /\ g.value = OnForm(setup)
      BY <1>6, SaveGives
    <2>2. PICK g : /\ GetOK(g) /\ gets' = {Doubted(h) : h \in gets} \cup {g} /\ g.own
                   /\ g.kind = IF setup.title # setup.was.title THEN "title" ELSE "level"
                   /\ g.value = OnForm(setup)
      BY <2>1
    <2>3. OnForm(setup') = OnForm(setup)
      BY <2>1, FormSame
    <2>4. /\ \A h \in gets' : h.kind \in Loading => h.value.doubt
          /\ \A h \in gets' : h.kind \in Changing => h \in gets \/ h = g
      BY <1>1, <2>2, StoredTyped, KindFacts
    <2>5. SetupSound(setup', gets', saved')
      <3> SUFFICES ASSUME ~setup'.doubt PROVE SetupSound(setup', gets', saved')
        BY DEF SetupSound
      <3>1. setup.was = saved /\ \A h \in gets : h.kind \notin Changing
        BY <1>3, <2>1
      <3>2. \A h \in gets' : h.kind \in Changing => h = g
        BY <2>4, <3>1
      <3>3. /\ g.kind \in {"title", "level"} /\ g.value = OnForm(setup')
            /\ saved.level = setup'.was.level
            /\ IF g.kind = "title" THEN saved = setup'.was ELSE saved.title = setup'.title
        BY <2>1, <2>2, <2>3, <3>1
      <3> QED BY <1>1, <2>1, <2>2, <3>2, <3>3 DEF SetupSound
    <2> QED BY <1>2, <1>4, <2>4, <2>5, LoadsDoubted, SetupMoves
  <1> QED BY <1>5, <1>6

\* The answer to one request of a save.  In a form without doubt it is the only one.
LEMMA FormAnswer ==
  ASSUME CollectionTyped, SettingsInv, NEW g \in gets, g.kind \in {"title", "level"}
  PROVE  /\ g.kind \in Changing /\ g.kind \in Storing
         /\ setup.open /\ ~setup.doubt =>
              /\ setup.saving /\ g.own /\ g.value = OnForm(setup) /\ saved.level = setup.was.level
              /\ IF g.kind = "title" THEN saved = setup.was ELSE saved.title = setup.title
              /\ \A h \in gets \ {g} : h.kind \notin Changing
         /\ \A n \in BOOLEAN : chips[n].doubt
         /\ \A h \in gets : h.kind \in Loading => h.value.doubt
  <1>1. g.kind \in Changing /\ g.kind \in Storing
    BY KindFacts
  <1>2. SetupSound(setup, gets, saved)
    BY DEF SettingsInv
  <1>3. ASSUME setup.open, ~setup.doubt
        PROVE  /\ setup.saving /\ g.own /\ g.value = OnForm(setup) /\ saved.level = setup.was.level
               /\ IF g.kind = "title" THEN saved = setup.was ELSE saved.title = setup.title
               /\ \A h \in gets \ {g} : h.kind \notin Changing
    BY <1>1, <1>2, <1>3 DEF SetupSound
  <1>4. ASSUME NEW n \in BOOLEAN PROVE chips[n].doubt
    <2>1. ChipsSound(n, chips[n], gets, saved.level)
      BY DEF SettingsInv
    <2>2. g.kind # "chip"
      OBVIOUS
    <2>3. chips[n].doubt \in BOOLEAN
      BY ChipsParts DEF CollectionTyped
    <2> QED BY <1>1, <2>1, <2>2, <2>3 DEF ChipsSound
  <1>5. \A h \in gets : h.kind \in Loading => h.value.doubt
    BY <1>1 DEF SettingsInv, LoadsSound
  <1> QED BY <1>1, <1>3, <1>4, <1>5

LEMMA FormSavedTrue ==
  ASSUME CollectionTyped, SettingsInv, NEW g \in gets, FormSaved(g)
  PROVE  SettingsInv'
  <1>1. g.kind \in {"title", "level"} /\ UNCHANGED chips /\ Saves(g, TRUE)
    BY FormSavedGives
  <1>2. /\ g.kind \in Changing
        /\ setup.open /\ ~setup.doubt =>
              /\ setup.saving /\ g.own /\ g.value = OnForm(setup) /\ saved.level = setup.was.level
              /\ IF g.kind = "title" THEN saved = setup.was ELSE saved.title = setup.title
              /\ \A h \in gets \ {g} : h.kind \notin Changing
        /\ \A n \in BOOLEAN : chips[n].doubt
        /\ \A h \in gets : h.kind \in Loading => h.value.doubt
    BY <1>1, FormAnswer
  <1>3. /\ saved' \in Bodies
        /\ saved'.title = IF g.kind = "title" THEN g.value.title ELSE saved.title
        /\ saved'.level = IF g.kind = "level" THEN g.value.level ELSE saved.level
    BY <1>1, StoresGives
  <1>4. \A n \in BOOLEAN : ChipsSound(n, chips'[n], gets', saved'.level)
    BY <1>1, <1>2 DEF ChipsSound
  <1>5. setup \in Setups /\ saved \in Bodies
    BY DEF CollectionTyped
  <1>6. OnForm(setup).title = setup.title /\ OnForm(setup).level = setup.level
    BY <1>5, FormFields
  <1>7. SetupSound(setup', gets', saved')
    <2>1. CASE /\ g.own /\ g.kind = "title" /\ UNCHANGED setup
               /\ \E h : /\ gets' = (gets \ {g}) \cup {h} /\ h.own
                         /\ h.kind = "level" /\ h.value = OnForm(setup)
      <3> SUFFICES ASSUME setup.open, ~setup.doubt PROVE SetupSound(setup', gets', saved')
        BY <2>1 DEF SetupSound
      <3>1. PICK h : /\ gets' = (gets \ {g}) \cup {h} /\ h.own
                     /\ h.kind = "level" /\ h.value = OnForm(setup)
        BY <2>1
      <3>2. /\ setup.saving /\ saved'.level = setup.was.level /\ saved'.title = setup.title
            /\ \A k \in gets' : k.kind \in Changing => k = h
        BY <1>2, <1>3, <1>6, <2>1, <3>1
      <3>3. setup.saving => ~setup.armed
        BY DEF SettingsInv, SetupSound
      <3> QED BY <2>1, <3>1, <3>2, <3>3 DEF SetupSound
    <2>2. CASE ~g.own /\ UNCHANGED setup
      BY <1>2, <2>2 DEF SetupSound
    <2>3. CASE /\ g.own => g.kind = "level" \/ setup.level = setup.was.level
               /\ gets' = gets \ {g}
               /\ setup' = IF g.own THEN AllSaved(setup) ELSE setup
      <3>1. CASE ~g.own
        BY <1>2, <2>3, <3>1 DEF SetupSound
      <3>2. CASE g.own
        <4>1. /\ setup'.open = setup.open /\ setup'.doubt = setup.doubt /\ ~setup'.saving
              /\ setup'.was \in Bodies /\ setup'.was.title = setup.title /\ setup'.was.level = setup.level
          BY <1>5, <2>3, <3>2, AllSavedGives
        <4> SUFFICES ASSUME setup.open, ~setup.doubt PROVE SetupSound(setup', gets', saved')
          BY <4>1 DEF SetupSound
        <4>2. saved'.title = setup.title /\ saved'.level = setup.level
          BY <1>1, <1>2, <1>3, <1>6, <2>3, <3>2
        <4>3. setup'.was = saved'
          BY <1>3, <4>1, <4>2, BodyFields
        <4>4. \A h \in gets' : h.kind \notin Changing
          BY <1>2, <2>3
        <4> QED BY <4>1, <4>3, <4>4 DEF SetupSound
      <3> QED BY <3>1, <3>2
    <2> QED BY <2>1, <2>2, <2>3, FormSavedGives
  <1>8. LoadsSound(gets', saved')
    <2>1. \A h \in gets' : h \in gets \/ h.kind = "level"
      BY FormSavedGives
    <2> QED BY <1>2, <2>1, KindFacts, LoadsDoubted
  <1>9. setup' = setup \/ setup' = AllSaved(setup)
    BY FormSavedGives
  <1>10. PlacesInv'
    <2>1. shown' = shown /\ (setup'.open => setup.open)
      BY <1>5, <1>9, FormSavedGives, AllSavedGives DEF routerVars
    <2> QED BY <1>1, <2>1, PlacesKept DEF SettingsInv
  <1> QED BY <1>4, <1>7, <1>8, <1>10 DEF SettingsInv

LEMMA FormFailedTrue ==
  ASSUME CollectionTyped, SettingsInv, NEW g \in gets, NEW lost \in BOOLEAN,
         FormFailed(g, lost)
  PROVE  SettingsInv'
  <1>1. g.kind \in {"title", "level"} /\ UNCHANGED chips /\ Saves(g, lost) /\ gets' = gets \ {g}
    BY FormFailedGives
  <1>2. /\ setup.open /\ ~setup.doubt =>
              /\ g.own /\ g.value = OnForm(setup) /\ saved.level = setup.was.level
              /\ IF g.kind = "title" THEN saved = setup.was ELSE saved.title = setup.title
              /\ \A h \in gets \ {g} : h.kind \notin Changing
        /\ \A n \in BOOLEAN : chips[n].doubt
        /\ \A h \in gets : h.kind \in Loading => h.value.doubt
    BY <1>1, FormAnswer
  <1>3. \A n \in BOOLEAN : ChipsSound(n, chips'[n], gets', saved'.level)
    BY <1>1, <1>2 DEF ChipsSound
  <1>4. setup \in Setups /\ saved \in Bodies /\ setup.was \in Bodies
    BY SetupParts DEF CollectionTyped
  <1>5. SetupSound(setup', gets', saved')
    <2>1. CASE ~g.own
      <3>1. UNCHANGED setup
        BY <2>1, FormFailedGives
      <3> QED BY <1>2, <2>1, <3>1 DEF SetupSound
    <2>2. CASE g.own
      <3>1. /\ setup'.open = setup.open /\ setup'.was = setup.was /\ ~setup'.saving
            /\ setup'.doubt = (setup.doubt \/ lost \/ (g.kind = "level" /\ g.value.title # setup.was.title))
        BY <2>2, FormFailedGives
      <3> SUFFICES ASSUME setup.open, ~setup'.doubt PROVE SetupSound(setup', gets', saved')
        BY <3>1 DEF SetupSound
      <3>2. ~setup.doubt /\ ~lost /\ (g.kind = "level" => g.value.title = setup.was.title)
        BY <3>1
      <3>3. saved' = saved
        BY <1>1, <3>2, SavesGives
      <3>4. OnForm(setup).title = setup.title
        BY <1>4, FormFields
      <3>5. setup.was = saved
        <4>1. CASE g.kind = "title"
          BY <1>2, <3>2, <4>1
        <4>2. CASE g.kind = "level"
          BY <1>2, <1>4, <3>2, <3>4, <4>2, BodyFields
        <4> QED BY <1>1, <4>1, <4>2
      <3>6. \A h \in gets' : h.kind \notin Changing
        BY <1>1, <1>2, <3>2
      <3> QED BY <3>1, <3>3, <3>5, <3>6 DEF SetupSound
    <2> QED BY <2>1, <2>2
  <1>6. LoadsSound(gets', saved')
    BY <1>1, <1>2, LoadsDoubted
  <1>7. PlacesInv'
    <2>1. shown' = shown /\ (setup'.open => setup.open)
      BY FormFailedGives DEF routerVars
    <2> QED BY <1>1, <2>1, PlacesKept DEF SettingsInv
  <1> QED BY <1>3, <1>5, <1>6, <1>7 DEF SettingsInv

\* The phone's title does not concern the chips, and no form is open beside it.
LEMMA RenameTrue ==
  ASSUME CollectionTyped, SettingsInv,
         \/ \E i \in 0..MaxTitles : Rename(i)
         \/ \E g \in gets, done \in BOOLEAN : Renamed(g, done)
  PROVE  SettingsInv'
  <1>1. ASSUME NEW i \in 0..MaxTitles, Rename(i)
        PROVE  /\ UNCHANGED <<saved, chips, setup, shown>> /\ ~setup.open
               /\ \A h \in gets' : h.kind \in Loading => h.value.doubt
               /\ \A h \in gets' : h.kind \in Storing => h \in gets
               /\ \A h \in gets : h.kind \in Storing => h \in gets'
    <2>1. PICK g : /\ GetOK(g) /\ gets' = {Doubted(h) : h \in gets} \cup {g}
                   /\ g.kind = "rename"
      BY <1>1, RenameGives
    <2>2. On("edit", TRUE) /\ UNCHANGED <<saved, chips, setup, shown>>
      BY <1>1, RenameGives DEF routerVars
    <2>3. ~setup.open
      BY <2>2, Elsewhere DEF SettingsInv
    <2>4. /\ \A h \in gets' : h.kind \in Loading => h.value.doubt
          /\ \A h \in gets' : h.kind \in Changing => h \in gets \/ h = g
          /\ \A h \in gets : h.kind \in Changing => h \in gets'
      BY <2>1, StoredTyped, KindFacts DEF CollectionTyped
    <2> QED BY <2>1, <2>2, <2>3, <2>4, KindFacts
  <1>2. ASSUME NEW g \in gets, NEW done \in BOOLEAN, Renamed(g, done)
        PROVE  /\ g.kind = "rename" /\ gets' = gets \ {g} /\ saved'.level = saved.level
               /\ UNCHANGED <<chips, setup, shown>>
    BY <1>2, RenamedGives DEF placeVars
  <1>3. /\ saved'.level = saved.level /\ UNCHANGED <<chips, setup, shown>>
        /\ \A g \in gets' : g.kind \in Storing => g \in gets
        /\ \A g \in gets : g.kind \in Storing => g \in gets'
    BY <1>1, <1>2, KindFacts
  <1>4. ASSUME NEW n \in BOOLEAN PROVE ChipsSound(n, chips'[n], gets', saved'.level)
    <2>1. ChipsSound(n, chips[n], gets, saved.level)
      BY DEF SettingsInv
    <2> QED BY <1>3, <2>1, KindFacts DEF ChipsSound
  <1>5. LoadsSound(gets', saved')
    <2>1. ASSUME NEW g \in gets, NEW done \in BOOLEAN, Renamed(g, done) PROVE LoadsSound(gets', saved')
      BY <1>2, <2>1, LoadsBusy, KindFacts DEF SettingsInv
    <2> QED BY <1>1, <2>1, LoadsDoubted
  <1>6. ~(setup.open /\ ~setup.doubt)
    BY <1>1, <1>2, KindFacts DEF SettingsInv, SetupSound
  <1>7. PlacesInv'
    BY <1>3, PlacesKept DEF SettingsInv
  <1> QED BY <1>3, <1>4, <1>5, <1>6, <1>7 DEF SettingsInv, SetupSound

LEMMA GetFields ==
  \A id, narrow, kind, f, offset, value :
    LET g == Get(id, narrow, kind, f, offset, value) IN g.kind = kind /\ g.value = value
  <1> SUFFICES ASSUME NEW id, NEW narrow, NEW kind, NEW f, NEW offset, NEW value
               PROVE  LET g == Get(id, narrow, kind, f, offset, value) IN
                      g.kind = kind /\ g.value = value
    OBVIOUS
  <1> DEFINE yes == TRUE
  <1>1. Get(id, narrow, kind, f, offset, value) =
          [id |-> id, narrow |-> narrow, own |-> yes, kind |-> kind, filter |-> f,
           offset |-> offset, value |-> value]
    BY DEF Get
  <1> HIDE DEF yes
  <1> QED BY <1>1

\* The lists leave what is under way for the settings alone.
LEMMA ListsHarmless ==
  ASSUME NEW g \in gets, FirstListed(g) \/ FirstFailed(g) \/ PageListed(g) \/ PageFailed(g)
  PROVE  /\ UNCHANGED <<saved, chips, setup>> /\ SameChanging /\ \A h \in gets' : Harmless(h)
  <1>1. UNCHANGED <<saved, chips, setup>> /\ g.kind \in {"first", "page"}
    BY DEF FirstListed, FirstFailed, PageListed, PageFailed
  <1>2. ASSUME gets' = gets \ {g} PROVE SameChanging /\ \A h \in gets' : Harmless(h)
    BY <1>1, <1>2, KindFacts DEF SameChanging, Harmless, Carried
  <1> DEFINE no == FALSE
             my == "my"
             zero == 0
             id == g.id
             Busy == \E h \in gets : h.kind \in Changing
             RowAsking(row) == [row |-> row, saw |-> saved, doubt |-> Busy]
             Detail(row) == Get(id, no, "detail", my, zero, RowAsking(row))
  <1>3. gets' = gets \ {g} \/ \E row : gets' = (gets \ {g}) \cup {Detail(row)}
    BY DEF FirstListed, FirstFailed, PageListed, PageFailed, Asking
  <1> HIDE DEF no, my, zero, id, Busy
  <1>4. ASSUME NEW row, gets' = (gets \ {g}) \cup {Detail(row)}
        PROVE  SameChanging /\ \A h \in gets' : Harmless(h)
    <2> DEFINE a == RowAsking(row)
               d == Detail(row)
    <2>1. a.saw = saved /\ a.doubt = Busy
      OBVIOUS
    <2> HIDE DEF RowAsking
    <2>2. d.kind = "detail" /\ d.value = a
      BY GetFields
    <2> HIDE DEF a, Detail
    <2>3. gets' = (gets \ {g}) \cup {d}
      BY <1>4
    <2> HIDE DEF d
    <2>4. Queried(d)
      BY <2>1, <2>2, KindFacts DEF Queried, Busy
    <2>5. \A h \in gets \ {g} : Harmless(h)
      BY DEF Harmless, Carried
    <2>6. \A h \in gets' : Harmless(h)
      BY <2>3, <2>4, <2>5 DEF Harmless
    <2> QED BY <1>1, <2>2, <2>3, <2>6, KindFacts DEF SameChanging
  <1> QED BY <1>1, <1>2, <1>3, <1>4

LEMMA ListsAside ==
  ASSUME CollectionTyped, SettingsInv, ListStep PROVE SettingsInv'
  <1>1. shown' = shown \/ shown' \in Covered
    BY CollectionWanders, StrayedShows
  <1>2. ASSUME UNCHANGED <<saved, chips, setup>>, SameChanging, \A h \in gets' : Harmless(h)
        PROVE  SettingsInv'
    <2>1. PlacesInv'
      BY <1>1, <1>2, PlacesKept DEF SettingsInv
    <2>2. LoadsSound(gets', saved')
      BY <1>2, LoadsKept DEF SettingsInv
    <2> QED BY <1>2, <2>1, <2>2, SettingsQuiet
  <1>3. ASSUME NEW narrow, NEW f, NEW offset, NEW value, Send(narrow, "page", f, offset, value)
        PROVE  SameChanging /\ \A h \in gets' : Harmless(h)
    <2>1. PICK g : gets' = gets \cup {g} /\ g.kind = "page"
      BY <1>3, GetFields DEF Send
    <2> QED BY <2>1, KindFacts DEF SameChanging, Harmless, Carried
  <1>4. UNCHANGED gets => SameChanging /\ \A h \in gets' : Harmless(h)
    BY DEF SameChanging, Harmless, Carried
  <1>5. ASSUME NEW n \in BOOLEAN, LoadMore(n) \/ \E f \in Filters : ChooseFilter(n, f)
        PROVE  SettingsInv'
    BY <1>2, <1>3, <1>4, <1>5 DEF LoadMore, ChooseFilter
  <1>6. ASSUME NEW i \in DOMAIN lists[FALSE].rows, SelectRow(i) PROVE SettingsInv'
    <2>1. /\ UNCHANGED <<saved, setup>> /\ chips' = [chips EXCEPT ![FALSE] = NoChips]
          /\ On("home", FALSE) /\ \A h \in gets' : Harmless(h)
      BY <1>6, SelectGives
    <2>2. ~setup.open /\ ~Live(chips[TRUE])
      BY <2>1, Elsewhere DEF SettingsInv
    <2>3. chips'[FALSE] = NoChips /\ chips'[TRUE] = chips[TRUE]
      BY <2>1, OtherChips
    <2>4. \A n \in BOOLEAN : chips'[n].doubt /\ ~Live(chips'[n])
      BY <2>2, <2>3, EmptyChips DEF Live
    <2>5. PlacesInv'
      BY <1>1, <2>1, <2>4, PlacesKept DEF SettingsInv
    <2>6. LoadsSound(gets', saved')
      BY <2>1, LoadsKept DEF SettingsInv
    <2> QED BY <2>1, <2>2, <2>4, <2>5, <2>6, SettingsClosed
  <1>7. ASSUME NEW g \in gets, DetailArrived(g) PROVE SettingsInv'
    <2>1. /\ g.kind = "detail" /\ UNCHANGED <<saved, setup, shown>>
          /\ \A h \in gets' : Carried(h)
      BY <1>7, DetailGives DEF DetailArrived, routerVars
    <2>2. LoadsSound(gets', saved')
      BY <2>1, LoadsKept DEF SettingsInv, Harmless
    <2>3. CASE ~g.own
      <3>1. gets' = gets \ {g} /\ UNCHANGED chips
        BY <1>7, <2>3, DetailGives
      <3>2. SameChanging
        BY <2>1, <3>1, KindFacts DEF SameChanging
      <3>3. PlacesInv'
        BY <2>1, <3>1, PlacesKept DEF SettingsInv
      <3> QED BY <2>1, <2>2, <3>1, <3>2, <3>3, SettingsQuiet
    <2>4. CASE g.own
      <3>1. PICK c \in ChipRows :
              /\ chips' = [chips EXCEPT ![FALSE] = c] /\ c.open = chips[FALSE].open
              /\ \/ c.doubt
                 \/ /\ On("home", FALSE) /\ c.doubt = g.value.doubt
                    /\ c.level \in {g.value.saw.level, saved.level} /\ c.shown = c.level
        BY <1>7, <2>4, DetailGives
      <3>2. gets' = Replaced(gets \ {g})
        BY <1>7, <2>4, DetailGives
      <3>3. chips'[FALSE] = c /\ chips'[TRUE] = chips[TRUE]
        BY <3>1, OtherChips
      <3>4. CASE c.doubt
        <4>1. PlacesInv'
          BY <2>1, <3>1, <3>3, <3>4, PlacesKept DEF SettingsInv, Live
        <4>2. \A h \in gets \ {g} : GetOK(h)
          BY DEF CollectionTyped
        <4>3. \A h \in gets' : h.kind \in Changing => h \in gets \/ \E k \in gets : OfTab(k)
          <5>1. \A h \in gets' : \E k \in gets \ {g} :
                  h.kind = k.kind /\ h.narrow = k.narrow /\ (h.kind # "chip" \/ h.narrow => h = k)
            BY <3>2, <4>2, ReplacedGives
          <5> QED BY <5>1 DEF OfTab
        <4>4. \A h \in gets : h.kind \in Changing => h \in gets' \/ OfTab(h)
          <5>1. \A h \in gets \ {g} : h.kind # "chip" \/ h.narrow => h \in gets'
            BY <3>2, <4>2, ReplacedGives
          <5> QED BY <2>1, <5>1, KindFacts DEF OfTab
        <4> QED BY <2>1, <2>2, <3>3, <3>4, <4>1, <4>3, <4>4, SettingsQuiet
      <3>5. CASE ~c.doubt
        <4>1. On("home", FALSE) /\ ~g.value.doubt /\ c.level \in {g.value.saw.level, saved.level} /\ c.shown = c.level
          BY <3>1, <3>5
        <4>2. ~setup.open /\ ~Live(chips[TRUE])
          BY <4>1, Elsewhere DEF SettingsInv
        <4>3. shown' = ChipsPlace(FALSE)
          BY <2>1, <4>1 DEF On, ChipsPlace
        <4>4. PlacesInv'
          BY <2>1, <3>3, <4>3, PlacesKept DEF SettingsInv
        <4>5. g.value.saw = saved /\ \A h \in gets : h.kind \notin Changing
          BY <2>1, <4>1, KindFacts DEF SettingsInv, LoadsSound
        <4>6. c.level = saved.level /\ \A h \in gets' : h.kind \notin Changing
          BY <2>1, <4>1, <4>5 DEF Carried
        <4>7. ChipsSound(FALSE, c, gets', saved'.level)
          BY <2>1, <4>1, <4>6, KindFacts DEF ChipsSound
        <4>8. \A m \in BOOLEAN : m # FALSE => chips[m].doubt
          BY <4>2 DEF Live
        <4> QED BY <2>1, <2>2, <3>1, <4>2, <4>4, <4>7, <4>8, ChipsMove
      <3> QED BY <3>4, <3>5
    <2> QED BY <2>3, <2>4
  <1>8. ASSUME NEW g \in gets, FirstListed(g) \/ FirstFailed(g) \/ PageListed(g) \/ PageFailed(g)
        PROVE  SettingsInv'
    BY <1>2, <1>8, ListsHarmless
  <1> QED BY <1>5, <1>6, <1>7, <1>8 DEF ListStep

LEMMA SettingsSafe ==
  ASSUME CollectionTyped, SettingsInv, SettingsStep PROVE SettingsInv'
  BY OpenChipsTrue, LeaveChipsTrue, PressTrue, PressedTrue, LoadedTrue, LoadFailedTrue, EditTrue,
     SaveTrue, FormSavedTrue, FormFailedTrue, RenameTrue DEF SettingsStep

LEMMA SettingsHeld ==
  ASSUME SettingsInv, shown' = shown \/ shown' \in Covered, UNCHANGED collectionVars
  PROVE  SettingsInv'
  <1>1. UNCHANGED <<saved, setup, chips, gets>>
    BY DEF collectionVars
  <1>2. PlacesInv'
    BY <1>1, PlacesKept DEF SettingsInv
  <1>3. SameChanging /\ LoadsSound(gets', saved')
    BY <1>1 DEF SameChanging, SettingsInv
  <1> QED BY <1>1, <1>2, <1>3, SettingsQuiet

\* Every step of another part shows what was shown or covers it; a screen that is mounted or left
\* shuts the settings.
LEMMA SettingsInvStep ==
  RouterTypeOK /\ ListsInv /\ SettingsInv /\ [ScreensNext]_screensVars => SettingsInv'
  <1> SUFFICES ASSUME RouterTypeOK, ListsInv, SettingsInv, [ScreensNext]_screensVars
               PROVE  SettingsInv'
    OBVIOUS
  <1>1. CollectionTyped
    BY DEF ListsInv
  <1>2. ASSUME Strayed, UNCHANGED collectionVars PROVE SettingsInv'
    BY <1>2, StrayedShows, SettingsHeld
  <1>3. CASE Mount \/ Route
    <2>1. /\ UNCHANGED saved
          /\ UNCHANGED <<collectionVars, shown>> \/ (ShutSettings /\ \A h \in gets' : Harmless(h))
      BY <1>3, MountShuts, RouteShuts
    <2>2. CASE UNCHANGED <<collectionVars, shown>>
      BY <2>2, SettingsHeld
    <2>3. CASE ShutSettings /\ \A h \in gets' : Harmless(h)
      <3>1. LoadsSound(gets', saved')
        BY <2>1, <2>3, LoadsKept DEF SettingsInv
      <3>2. ~setup'.open /\ \A n \in BOOLEAN : chips'[n].doubt /\ ~chips'[n].open
        BY <2>3, ShutGives, EmptyChips
      <3>3. PlacesInv'
        BY <3>2 DEF PlacesInv, Live
      <3> QED BY <3>1, <3>2, <3>3, SettingsClosed
    <2> QED BY <2>1, <2>2, <2>3
  <1>4. CASE ListStep \/ SettingsStep
    BY <1>1, <1>4, ListsAside, SettingsSafe
  <1>5. CASE OverlayStep /\ UNCHANGED collectionVars
    BY <1>2, <1>5, OverlayWanders
  <1>6. CASE WizardStep /\ UNCHANGED collectionVars
    BY <1>2, <1>6, WizardWanders
  <1>7. CASE (DeskStep \/ PhoneStep \/ OptionStep \/ PictureStep \/ AnswerStep) /\ UNCHANGED collectionVars
    BY <1>2, <1>7, EditorWanders
  <1>8. CASE InboxStep /\ UNCHANGED collectionVars
    BY <1>2, <1>8, InboxWanders
  <1>9. CASE PeopleStep /\ UNCHANGED collectionVars
    BY <1>2, <1>9, PeopleWanders
  <1>10. CASE UNCHANGED screensVars
    BY <1>2, <1>10 DEF screensVars, Strayed
  <1> QED BY <1>3, <1>4, <1>5, <1>6, <1>7, <1>8, <1>9, <1>10 DEF ScreensNext

\* However a load of the pane or of an edit screen, an opening of the tab, lost, refused and late
\* answers fall together, chips and a form that the user has not changed show what the server has
\* when nothing is under way, unless something made them doubtful: a save under way while the test
\* was loaded, two that crossed, a lost answer, a refusal after the tab was opened again, half a
\* save, or typing during one (loadDetail, renderAccessTab, paintAccessRow, save).
THEOREM SettingsSound == ScreensSpec => []SettingsTrue
  <1>1. ScreensInit => SettingsInv
    <2> SUFFICES ASSUME CollectionInit PROVE SettingsInv
      BY DEF ScreensInit
    <2>1. gets = {} /\ ~setup.open /\ \A n \in BOOLEAN : ~chips[n].open /\ chips[n].doubt
      BY EmptyChips, EmptySetup DEF CollectionInit
    <2> QED BY <2>1 DEF SettingsInv, PlacesInv, Live, LoadsSound, ChipsSound, SetupSound
  <1>2. SettingsInv => SettingsTrue
    <2> SUFFICES ASSUME SettingsInv PROVE SettingsTrue
      OBVIOUS
    <2>1. ASSUME NEW n \in BOOLEAN, chips[n].open, ~chips[n].doubt, ~Pending(n, {"chip"})
          PROVE  chips[n].shown = saved.level
      <3>1. ChipsSound(n, chips[n], gets, saved.level)
        BY DEF SettingsInv
      <3>2. \A g \in gets : g.kind # "chip"
        BY <2>1, <3>1, KindFacts DEF ChipsSound, Pending
      <3> QED BY <2>1, <3>1, <3>2 DEF ChipsSound
    <2>2. ASSUME setup.open, ~setup.doubt, ~setup.saving, ~Dirty(setup)
          PROVE  setup.title = saved.title /\ setup.level = saved.level
      BY <2>2 DEF SettingsInv, SetupSound, Dirty
    <2> QED BY <2>1, <2>2 DEF SettingsTrue
  <1> QED BY <1>1, <1>2, SettingsInvStep, ScreensPlaces, ScreensLists, PTL DEF ScreensSpec

(***************************************************************************)
(* Who can read the test.                                                  *)
(***************************************************************************)

LEMMA ErrandFields ==
  ASSUME NEW id \in 1..MaxErrands, NEW kind \in ErrandKinds, NEW who \in SUBSET Readers,
         NEW yes \in BOOLEAN
  PROVE  LET e == Errand(id, kind, who, yes) IN
         /\ e \in AnyErrand
         /\ e.id = id /\ e.own /\ e.kind = kind /\ e.who = who /\ e.yes = yes
  <1> DEFINE own == TRUE
             e == [id |-> id, own |-> own, kind |-> kind, who |-> who, yes |-> yes]
  <1>1. Errand(id, kind, who, yes) = e /\ own \in BOOLEAN /\ own
    BY DEF Errand
  <1> HIDE DEF own
  <1>2. /\ e \in AnyErrand
        /\ e.id = id /\ e.own = own /\ e.kind = kind /\ e.who = who /\ e.yes = yes
    BY <1>1 DEF AnyErrand
  <1> QED BY <1>1, <1>2

\* The fields of a request whose page goes.
OwnedAs(e, own) == [e EXCEPT !.own = own]

LEMMA OwnedFields ==
  ASSUME NEW e \in AnyErrand, NEW own \in BOOLEAN
  PROVE  LET f == OwnedAs(e, own) IN
         /\ f \in AnyErrand
         /\ f.id = e.id /\ f.own = own /\ f.kind = e.kind /\ f.who = e.who /\ f.yes = e.yes
  BY DEF OwnedAs, AnyErrand

\* A request that is sent is the page's and differs from the others.
LEMMA WithGives ==
  ASSUME NEW es \in SUBSET AnyErrand, FreeErrand(es) # {}, NEW kind \in ErrandKinds,
         NEW who \in SUBSET Readers, NEW yes \in BOOLEAN
  PROVE  \E e \in AnyErrand :
           /\ WithErrand(es, kind, who, yes) = es \cup {e}
           /\ e.own /\ e.kind = kind /\ e.who = who /\ e.yes = yes
           /\ \A f \in es : f.id # e.id
  <1> DEFINE id == CHOOSE i \in FreeErrand(es) : TRUE
             e == Errand(id, kind, who, yes)
  <1>1. id \in FreeErrand(es) /\ WithErrand(es, kind, who, yes) = es \cup {e}
    BY DEF WithErrand
  <1>2. id \in 1..MaxErrands /\ \A f \in es : f.id # id
    BY <1>1 DEF FreeErrand
  <1> HIDE DEF id
  <1>3. e \in AnyErrand /\ e.id = id /\ e.own /\ e.kind = kind /\ e.who = who /\ e.yes = yes
    BY <1>2, ErrandFields
  <1> HIDE DEF e
  <1> QED BY <1>1, <1>2, <1>3

\* What the pages leave behind: es are the requests under way with fewer owned.
LeftBehind(es) ==
  /\ \A e \in es : e \in AnyErrand
                   /\ \E f \in errands : /\ e.id = f.id /\ e.kind = f.kind /\ e.who = f.who
                                         /\ e.yes = f.yes
                                         /\ e.own => e.kind \in {"test", "stats"}
  /\ Unique(es)

LEMMA BehindSet ==
  ASSUME PeopleFull, Unique(errands), NEW own \in [errands -> BOOLEAN],
         \A e \in errands : own[e] => e.kind \in {"test", "stats"}
  PROVE  LeftBehind({OwnedAs(e, own[e]) : e \in errands})
  <1> DEFINE es == {OwnedAs(e, own[e]) : e \in errands}
  <1>1. ASSUME NEW e \in errands
        PROVE  LET f == OwnedAs(e, own[e]) IN
               /\ f \in AnyErrand
               /\ f.id = e.id /\ f.own = own[e] /\ f.kind = e.kind /\ f.who = e.who /\ f.yes = e.yes
    BY OwnedFields DEF PeopleFull
  <1>2. \A e \in es : \E f \in errands : e = OwnedAs(f, own[f])
    OBVIOUS
  <1>3. Unique(es)
    BY <1>1, <1>2 DEF Unique
  <1> QED BY <1>1, <1>2, <1>3 DEF LeftBehind

LEMMA LeftGives ==
  ASSUME PeopleFull, Unique(errands)
  PROVE  LeftBehind(ErrandsLeft)
  <1> DEFINE own == [e \in errands |-> e.own /\ e.kind \in {"test", "stats"}]
  <1>1. \A e \in errands : e \in AnyErrand
    BY DEF PeopleFull
  <1>2. own \in [errands -> BOOLEAN]
    OBVIOUS
  <1>3. ErrandsLeft = {OwnedAs(e, own[e]) : e \in errands}
    BY <1>1 DEF ErrandsLeft, OwnedAs, AnyErrand
  <1>4. \A e \in errands : own[e] => e.kind \in {"test", "stats"}
    OBVIOUS
  <1> HIDE DEF own
  <1> QED BY <1>2, <1>3, <1>4, BehindSet

\* The page when it is gone, on another tab, and when the tab is opened.
LEMMA NoPeopleFields ==
  LET p == NoPeople IN
  /\ p \in AnyPeople /\ p.at = "none" /\ p.lists = <<>> /\ p.rows = {}
  <1> DEFINE no == FALSE
             none == "none"
             empty == <<>>
             nobody == {}
  <1>1. no \in BOOLEAN /\ none \in {"none", "visit", "access"} /\ empty \in Seq(SUBSET Readers)
        /\ nobody \in SUBSET Readers
    OBVIOUS
  <1>2. NoPeople = [at |-> none, narrow |-> no, lists |-> empty, rows |-> nobody, doubt |-> no,
                    unsure |-> no]
    BY DEF NoPeople
  <1> HIDE DEF no, none, empty, nobody
  <1>3. /\ NoPeople \in AnyPeople /\ NoPeople.at = none /\ NoPeople.lists = empty
        /\ NoPeople.rows = nobody
    BY <1>1, <1>2 DEF AnyPeople
  <1> QED BY <1>3 DEF none, empty, nobody

TabOf(p, at, narrow, doubt) ==
  [p EXCEPT !.at = at, !.narrow = narrow, !.doubt = doubt, !.unsure = doubt]
PlaceOf(p, at, narrow) == [p EXCEPT !.at = at, !.narrow = narrow]

LEMMA VisitFields ==
  LET p == [NoPeople EXCEPT !.at = "visit", !.narrow = TRUE] IN
  p \in AnyPeople /\ p.at = "visit"
  <1> DEFINE yes == TRUE
             visit == "visit"
  <1>1. yes \in BOOLEAN /\ visit \in {"none", "visit", "access"}
    OBVIOUS
  <1>2. [NoPeople EXCEPT !.at = "visit", !.narrow = TRUE] = PlaceOf(NoPeople, visit, yes)
    BY DEF PlaceOf
  <1> HIDE DEF yes, visit
  <1>3. PlaceOf(NoPeople, visit, yes) \in AnyPeople /\ PlaceOf(NoPeople, visit, yes).at = visit
    BY <1>1, NoPeopleFields DEF PlaceOf, AnyPeople
  <1> QED BY <1>2, <1>3 DEF visit

LEMMA ForgottenOrNot == ASSUME NEW es PROVE Forgotten(es) \in BOOLEAN
  BY DEF Forgotten

LEMMA FreshFields ==
  ASSUME NEW es, NEW narrow \in BOOLEAN
  PROVE  LET p == FreshTab(es, narrow) IN
         /\ p \in AnyPeople /\ p.at = "access" /\ p.narrow = narrow /\ p.lists = <<>>
         /\ p.rows = {} /\ p.doubt = Forgotten(es) /\ p.unsure = Forgotten(es)
  <1> DEFINE access == "access"
             doubt == Forgotten(es)
             p == TabOf(NoPeople, access, narrow, doubt)
  <1>1. access \in {"none", "visit", "access"} /\ FreshTab(es, narrow) = p
    BY DEF FreshTab, TabOf
  <1>3. doubt \in BOOLEAN
    BY ForgottenOrNot
  <1> HIDE DEF access, doubt
  <1>4. NoPeople \in AnyPeople /\ NoPeople.lists = <<>> /\ NoPeople.rows = {}
    BY NoPeopleFields
  <1>5. access \in {"none", "visit", "access"}
    BY <1>1
  <1>2. /\ p \in AnyPeople /\ p.at = access /\ p.narrow = narrow /\ p.lists = NoPeople.lists
        /\ p.rows = NoPeople.rows /\ p.doubt = doubt /\ p.unsure = doubt
    BY <1>3, <1>4, <1>5 DEF TabOf, AnyPeople
  <1> QED BY <1>1, <1>2, <1>4 DEF access, doubt

\* Nothing is claimed when the tab is not open.
LEMMA TabClosed ==
  ASSUME people' \in AnyPeople, sharing' \in AnySharing, errands' \subseteq AnyErrand,
         Unique(errands'), people'.at # "access"
  PROVE  PeopleInv'
  BY DEF PeopleInv, PeopleFull, ReadersSound, AskersSound

LEMMA LeavePeopleSafe ==
  ASSUME PeopleInv, LeavePeople, UNCHANGED sharing
  PROVE  PeopleInv'
  <1>1. LeftBehind(errands') /\ people' = NoPeople
    BY LeftGives DEF PeopleInv, LeavePeople
  <1> QED BY <1>1, NoPeopleFields, TabClosed DEF LeftBehind, PeopleInv, PeopleFull

\* A request added to those that the page has left.
LEMMA WithBehind ==
  ASSUME NEW es, LeftBehind(es), FreeErrand(es) # {}, NEW kind \in ErrandKinds,
         NEW yes \in BOOLEAN
  PROVE  \E e \in AnyErrand : 
           /\ WithErrand(es, kind, {}, yes) = es \cup {e}
           /\ e.own /\ e.kind = kind
           /\ Unique(es \cup {e})
  <1>1. es \in SUBSET AnyErrand /\ {} \in SUBSET Readers
    BY DEF LeftBehind
  <1>2. PICK e \in AnyErrand :
           /\ WithErrand(es, kind, {}, yes) = es \cup {e}
           /\ e.own /\ e.kind = kind
           /\ \A f \in es : f.id # e.id
    BY <1>1, WithGives
  <1>3. Unique(es \cup {e})
    BY <1>2 DEF Unique, LeftBehind
  <1> QED BY <1>2, <1>3

LEMMA CollectionPageSafe ==
  ASSUME PeopleInv, CollectionPage
  PROVE  PeopleInv'
  <1> DEFINE own == [e \in errands |-> e.kind = "stats"]
             es == {[e EXCEPT !.own = e.kind = "stats"] : e \in errands}
             no == FALSE
             test == "test"
  <1>1. \A e \in errands : e \in AnyErrand
    BY DEF PeopleInv, PeopleFull
  <1>2. own \in [errands -> BOOLEAN] /\ \A e \in errands : own[e] => e.kind \in {"test", "stats"}
    OBVIOUS
  <1>3. es = {OwnedAs(e, own[e]) : e \in errands}
    BY <1>1 DEF OwnedAs, AnyErrand
  <1>4. /\ errands' = WithErrand(es, test, {}, no) /\ people' = NoPeople /\ UNCHANGED sharing
        /\ FreeErrand(errands) # {} /\ no \in BOOLEAN /\ test \in ErrandKinds
    BY DEF CollectionPage, ErrandKinds
  <1> HIDE DEF own, es, no, test
  <1>5. LeftBehind(es)
    BY <1>2, <1>3, BehindSet DEF PeopleInv
  <1>6. FreeErrand(es) = FreeErrand(errands)
    <2>1. \A e \in errands : OwnedAs(e, own[e]).id = e.id
      BY <1>1, <1>2, OwnedFields
    <2>2. {e.id : e \in es} = {e.id : e \in errands}
      BY <1>3, <2>1
    <2> QED BY <2>2 DEF FreeErrand
  <1>7. PICK e \in AnyErrand : errands' = es \cup {e} /\ Unique(es \cup {e})
    BY <1>4, <1>5, <1>6, WithBehind
  <1> QED BY <1>4, <1>5, <1>7, NoPeopleFields, TabClosed DEF LeftBehind, PeopleInv, PeopleFull

\* The tab as it opens, its list asked for first: es are left behind, and what else is sent is
\* not a list of the readers.
LEMMA FreshSound ==
  ASSUME NEW es, LeftBehind(es), NEW narrow \in BOOLEAN,
         NEW e \in AnyErrand, e.own, e.kind = "shares",
         NEW more \in SUBSET AnyErrand, \A f \in more : f.own /\ f.kind = "askers",
         people' = FreshTab(es, narrow), errands' = es \cup {e} \cup more, Unique(errands'),
         sharing' \in AnySharing
  PROVE  PeopleInv'
  <1>1. /\ people' \in AnyPeople /\ people'.at = "access" /\ people'.lists = <<>>
        /\ people'.rows = {} /\ people'.doubt = Forgotten(es) /\ people'.unsure = Forgotten(es)
    BY FreshFields
  <1>2. errands' \subseteq AnyErrand
    BY DEF LeftBehind
  <1>3. Forgotten(errands') => Forgotten(es)
    BY DEF Forgotten
  <1>4. SharesOf(errands') = {e}
    <2>1. \A f \in es \cup more : ~(f.own /\ f.kind = "shares")
      BY DEF LeftBehind
    <2> QED BY <2>1 DEF SharesOf
  <1>5. ReadersSound(people', errands', sharing'.members)
    BY <1>1, <1>3, <1>4 DEF ReadersSound
  <1>6. AskersSound(people', errands', sharing'.asking)
    BY <1>1, <1>3 DEF AskersSound
  <1> QED BY <1>1, <1>2, <1>5, <1>6 DEF PeopleInv, PeopleFull

LEMMA OpenPeopleSafe ==
  ASSUME PeopleInv, NEW narrow \in BOOLEAN, OpenPeople(narrow)
  PROVE  PeopleInv'
  <1> DEFINE no == FALSE
             left == ErrandsLeft
             es == WithErrand(left, "shares", {}, no)
  <1>1. LeftBehind(left) /\ no \in BOOLEAN /\ "shares" \in ErrandKinds /\ "askers" \in ErrandKinds
    BY LeftGives DEF PeopleInv, ErrandKinds
  <1>2. /\ FreeErrand(left) # {} /\ (narrow \/ FreeErrand(es) # {})
        /\ errands' = IF narrow THEN es ELSE WithErrand(es, "askers", {}, no)
        /\ people' = FreshTab(left, narrow) /\ UNCHANGED sharing
    BY DEF OpenPeople
  <1>3. sharing' \in AnySharing
    BY <1>2 DEF PeopleInv, PeopleFull
  <1> HIDE DEF no, left
  <1>4. PICK e \in AnyErrand : es = left \cup {e} /\ e.own /\ e.kind = "shares" /\ Unique(left \cup {e})
    BY <1>1, <1>2, WithBehind
  <1>5. es \in SUBSET AnyErrand /\ Unique(es) /\ {} \in SUBSET Readers
    BY <1>1, <1>4 DEF LeftBehind
  <1> HIDE DEF es
  <1>6. CASE narrow
    <2> DEFINE none == {}
    <2>1. errands' = left \cup {e} \cup none /\ none \in SUBSET AnyErrand
          /\ \A f \in none : f.own /\ f.kind = "askers"
      BY <1>2, <1>4, <1>6
    <2> HIDE DEF none
    <2>2. Unique(errands')
      BY <1>2, <1>5, <1>6
    <2> QED BY <1>1, <1>2, <1>3, <1>4, <2>1, <2>2, FreshSound
  <1>7. CASE ~narrow
    <2>1. PICK g \in AnyErrand : 
            /\ errands' = es \cup {g} /\ g.own /\ g.kind = "askers"
            /\ \A f \in es : f.id # g.id
      BY <1>1, <1>2, <1>5, <1>7, WithGives
    <2> DEFINE more == {g}
    <2>2. errands' = left \cup {e} \cup more /\ more \in SUBSET AnyErrand
          /\ \A f \in more : f.own /\ f.kind = "askers"
      BY <1>4, <2>1
    <2> HIDE DEF more
    <2>3. Unique(errands')
      BY <1>5, <2>1 DEF Unique
    <2> QED BY <1>1, <1>2, <1>3, <1>4, <2>2, <2>3, FreshSound
  <1> QED BY <1>6, <1>7

LEMMA StatsSafe ==
  ASSUME PeopleInv, NEW e \in errands, StatsArrived(e)
  PROVE  PeopleInv'
  <1> DEFINE no == FALSE
             yes == TRUE
             es == ErrandsLeft \ {e}
  <1>1. LeftBehind(ErrandsLeft)
    BY LeftGives DEF PeopleInv
  <1>2. LeftBehind(es)
    BY <1>1 DEF LeftBehind, Unique
  <1>3. /\ \/ /\ people' = [NoPeople EXCEPT !.at = "visit", !.narrow = TRUE]
              /\ errands' = es
           \/ /\ people' = FreshTab(es, yes)
              /\ errands' = WithErrand(es, "shares", {}, no)
        /\ UNCHANGED sharing /\ no \in BOOLEAN /\ yes \in BOOLEAN /\ "shares" \in ErrandKinds
    BY DEF StatsArrived, ErrandKinds
  <1>4. sharing' \in AnySharing /\ es \in SUBSET AnyErrand
    BY <1>2, <1>3 DEF PeopleInv, PeopleFull, LeftBehind
  <1>5. FreeErrand(es) # {}
    <2>1. e \in AnyErrand /\ e.kind = "stats"
      BY DEF PeopleInv, PeopleFull, StatsArrived
    <2> DEFINE own == e.own /\ e.kind \in {"test", "stats"}
    <2>2. [e EXCEPT !.own = @ /\ e.kind \in {"test", "stats"}] = e
      BY <2>1 DEF AnyErrand
    <2>3. e \in ErrandsLeft
      BY <2>2 DEF ErrandsLeft
    <2>4. e.id \in 1..MaxErrands
      BY <2>1 DEF AnyErrand
    <2>5. \A g \in es : g.id # e.id
      BY <1>1, <2>3 DEF LeftBehind, Unique
    <2> QED BY <2>4, <2>5 DEF FreeErrand
  <1> HIDE DEF no, yes, es
  <1>6. CASE people' = FreshTab(es, yes) /\ errands' = WithErrand(es, "shares", {}, no)
    <2>1. PICK g \in AnyErrand : 
            WithErrand(es, "shares", {}, no) = es \cup {g} /\ g.own /\ g.kind = "shares"
              /\ Unique(es \cup {g})
      BY <1>2, <1>3, <1>5, WithBehind
    <2> DEFINE none == {}
    <2>2. errands' = es \cup {g} \cup none /\ none \in SUBSET AnyErrand
          /\ \A f \in none : f.own /\ f.kind = "askers"
      BY <1>6, <2>1
    <2> HIDE DEF none
    <2>3. Unique(errands')
      BY <1>6, <2>1
    <2> QED BY <1>2, <1>3, <1>4, <1>6, <2>1, <2>2, <2>3, FreshSound
  <1>7. CASE people' = [NoPeople EXCEPT !.at = "visit", !.narrow = TRUE] /\ errands' = es
    <2>1. people' \in AnyPeople /\ people'.at # "access" /\ Unique(errands')
      BY <1>2, <1>7, VisitFields DEF LeftBehind
    <2> QED BY <1>4, <1>7, <2>1, TabClosed
  <1> QED BY <1>3, <1>6, <1>7

\* Doubt is not taken back, the readers stay, and nobody stops asking.
LEMMA PeopleQuiet ==
  ASSUME PeopleInv, people' \in AnyPeople, people'.at = people.at, people'.narrow = people.narrow,
         people'.lists = people.lists, people'.rows = people.rows,
         people.doubt => people'.doubt, people.unsure => people'.unsure,
         sharing' \in AnySharing, sharing'.members = sharing.members,
         sharing.asking \subseteq sharing'.asking,
         errands' \subseteq AnyErrand, Unique(errands'), SharesOf(errands') = SharesOf(errands),
         Forgotten(errands') => Forgotten(errands)
  PROVE  PeopleInv'
  <1>1. ReadersSound(people', errands', sharing'.members)
    BY DEF PeopleInv, ReadersSound
  <1>2. AskersSound(people', errands', sharing'.asking)
    BY DEF PeopleInv, AskersSound
  <1> QED BY <1>1, <1>2 DEF PeopleInv, PeopleFull

\* A change that an earlier visit asked for is in doubt already.
LEMMA PeopleDoubted ==
  ASSUME PeopleInv, Forgotten(errands), people' \in AnyPeople, people'.at = people.at,
         people.doubt => people'.doubt, people.unsure => people'.unsure,
         sharing' \in AnySharing, errands' \subseteq AnyErrand, Unique(errands')
  PROVE  PeopleInv'
  <1>1. ReadersSound(people', errands', sharing'.members)
    BY DEF PeopleInv, ReadersSound
  <1>2. AskersSound(people', errands', sharing'.asking)
    BY DEF PeopleInv, AskersSound
  <1> QED BY <1>1, <1>2 DEF PeopleInv, PeopleFull

LEMMA SendErrandSafe ==
  ASSUME PeopleInv, NEW kind \in ErrandKinds \ {"shares"}, NEW who \in SUBSET Readers,
         NEW yes \in BOOLEAN, SendErrand(kind, who, yes)
  PROVE  PeopleInv'
  <1>1. errands \in SUBSET AnyErrand /\ FreeErrand(errands) # {} /\ kind \in ErrandKinds
        /\ errands' = WithErrand(errands, kind, who, yes) /\ UNCHANGED <<sharing, people>>
    BY DEF SendErrand, PeopleInv, PeopleFull
  <1>2. PICK e \in AnyErrand : /\ errands' = errands \cup {e} /\ e.own /\ e.kind = kind
                               /\ \A f \in errands : f.id # e.id
    BY <1>1, WithGives
  <1>3. Unique(errands') /\ SharesOf(errands') = SharesOf(errands)
        /\ (Forgotten(errands') => Forgotten(errands))
    BY <1>2 DEF PeopleInv, Unique, SharesOf, Forgotten
  <1> QED BY <1>1, <1>2, <1>3, PeopleQuiet DEF PeopleInv, PeopleFull

LEMMA OwnerAsks ==
  ASSUME PeopleInv, NEW u \in Readers, NEW yes \in BOOLEAN,
         Invite(u) \/ RemoveReader(u) \/ DecideRequest(u, yes)
  PROVE  PeopleInv'
  <1> DEFINE no == FALSE
             who == {u}
  <1>1. \/ SendErrand("invite", who, no) \/ SendErrand("remove", who, no)
        \/ SendErrand("ruling", who, yes)
    BY DEF Invite, RemoveReader, DecideRequest
  <1>2. no \in BOOLEAN /\ who \in SUBSET Readers
    OBVIOUS
  <1>3. /\ "invite" \in ErrandKinds \ {"shares"} /\ "remove" \in ErrandKinds \ {"shares"}
        /\ "ruling" \in ErrandKinds \ {"shares"}
    BY DEF ErrandKinds
  <1> HIDE DEF no, who
  <1> QED BY <1>1, <1>2, <1>3, SendErrandSafe

LEMMA AskAccessSafe ==
  ASSUME PeopleInv, NEW u \in Readers, AskAccess(u)
  PROVE  PeopleInv'
  <1> DEFINE asking == sharing.asking \cup {u}
  <1>1. sharing' = [sharing EXCEPT !.asking = asking] /\ UNCHANGED <<people, errands>>
    BY DEF AskAccess
  <1>2. sharing \in AnySharing /\ asking \in SUBSET Readers
    BY DEF PeopleInv, PeopleFull, AnySharing
  <1> HIDE DEF asking
  <1>3. sharing' \in AnySharing /\ sharing'.members = sharing.members /\ sharing'.asking = asking
    BY <1>1, <1>2 DEF AnySharing
  <1> QED BY <1>1, <1>3, PeopleQuiet DEF asking, PeopleInv, PeopleFull

LEMMA CloseTabSafe ==
  ASSUME PeopleInv, CloseTab
  PROVE  PeopleInv'
  <1>1. /\ LeftBehind(errands') /\ UNCHANGED sharing
        /\ people' = [NoPeople EXCEPT !.at = "visit", !.narrow = TRUE] \/ people' = NoPeople
    BY LeftGives DEF CloseTab, PeopleInv
  <1>2. people' \in AnyPeople /\ people'.at # "access"
    BY <1>1, NoPeopleFields, VisitFields
  <1> QED BY <1>1, <1>2, TabClosed DEF LeftBehind, PeopleInv, PeopleFull

LEMMA TestSafe ==
  ASSUME PeopleInv, NEW e \in errands, TestArrived(e) \/ TestMissing(e)
  PROVE  PeopleInv'
  <1> DEFINE stats == "stats"
             f == [e EXCEPT !.kind = stats]
  <1>1. /\ UNCHANGED <<sharing, people>> /\ e.kind = "test"
        /\ errands' \in {errands \ {e}, (errands \ {e}) \cup (IF e.own THEN {f} ELSE {})}
    BY DEF TestArrived, TestMissing
  <1>2. e \in AnyErrand /\ stats \in ErrandKinds /\ stats \notin {"shares", "invite", "remove", "ruling"}
    BY DEF PeopleInv, PeopleFull, ErrandKinds
  <1> HIDE DEF stats
  <1>3. f \in AnyErrand /\ f.id = e.id /\ f.own = e.own /\ f.kind = stats
    BY <1>2 DEF AnyErrand
  <1> HIDE DEF f
  <1>4. errands' \subseteq AnyErrand /\ Unique(errands')
    BY <1>1, <1>3 DEF PeopleInv, PeopleFull, Unique
  <1>5. SharesOf(errands') = SharesOf(errands)
    BY <1>1, <1>2, <1>3 DEF SharesOf
  <1>6. Forgotten(errands') => Forgotten(errands)
    BY <1>1, <1>2, <1>3 DEF Forgotten
  <1> QED BY <1>1, <1>4, <1>5, <1>6, PeopleQuiet DEF PeopleInv, PeopleFull

\* An answer that is taken away, and what else it leaves under way.
LEMMA AnswerGone ==
  ASSUME PeopleInv, NEW e \in errands
  PROVE  LET es == errands \ {e} IN
         /\ e \in AnyErrand /\ es \subseteq AnyErrand /\ Unique(es)
         /\ SharesOf(es) = SharesOf(errands) \ {e}
         /\ Forgotten(es) => Forgotten(errands)
         /\ e.kind \in {"invite", "remove", "ruling"} /\ ~e.own => Forgotten(errands)
  <1> DEFINE es == errands \ {e}
  <1>1. e \in AnyErrand /\ es \subseteq AnyErrand
    BY DEF PeopleInv, PeopleFull
  <1>2. Unique(es)
    BY DEF PeopleInv, Unique
  <1>3. SharesOf(es) = SharesOf(errands) \ {e}
    BY DEF SharesOf
  <1>4. Forgotten(es) => Forgotten(errands)
    BY DEF Forgotten
  <1>5. e.kind \in {"invite", "remove", "ruling"} /\ ~e.own => Forgotten(errands)
    BY DEF Forgotten
  <1> QED BY <1>1, <1>2, <1>3, <1>4, <1>5

\* The card when its list comes or fails.
CardOf(p, cards, doubt) == [p EXCEPT !.lists = cards, !.doubt = doubt]

LEMMA CardFields ==
  ASSUME NEW p \in AnyPeople, NEW cards \in Seq(SUBSET Readers), NEW doubt \in BOOLEAN
  PROVE  /\ CardOf(p, cards, doubt) \in AnyPeople
         /\ CardOf(p, cards, doubt).at = p.at /\ CardOf(p, cards, doubt).narrow = p.narrow
         /\ CardOf(p, cards, doubt).lists = cards /\ CardOf(p, cards, doubt).rows = p.rows
         /\ CardOf(p, cards, doubt).doubt = doubt /\ CardOf(p, cards, doubt).unsure = p.unsure
  BY DEF CardOf, AnyPeople

LEMMA OneList ==
  ASSUME NEW members \in SUBSET Readers
  PROVE  /\ <<members>> \in Seq(SUBSET Readers)
         /\ Append(<<>>, members) = <<members>>
         /\ \A cards \in Seq(SUBSET Readers) : Append(cards, members) \in Seq(SUBSET Readers)
         /\ <<>> \in Seq(SUBSET Readers)
  OBVIOUS

LEMMA SharesSafe ==
  ASSUME PeopleInv, NEW e \in errands, NEW failed \in BOOLEAN, SharesListed(e, failed)
  PROVE  PeopleInv'
  <1> DEFINE cards == CASE ~failed -> IF people.narrow THEN <<sharing.members>>
                                      ELSE Append(people.lists, sharing.members)
                        [] failed  -> IF people.narrow THEN <<>> ELSE people.lists
             doubt == people.doubt \/ failed
  <1>0. /\ people \in AnyPeople /\ people.lists \in Seq(SUBSET Readers) /\ people.narrow \in BOOLEAN
        /\ people.doubt \in BOOLEAN /\ sharing \in AnySharing /\ sharing.members \in SUBSET Readers
    BY DEF PeopleInv, PeopleFull, AnyPeople, AnySharing
  <1>1. /\ errands' = errands \ {e} /\ UNCHANGED sharing /\ e.kind = "shares"
        /\ people' = IF ~e.own THEN people ELSE CardOf(people, cards, doubt)
    BY DEF SharesListed, CardOf
  <1>2. /\ errands' \subseteq AnyErrand /\ Unique(errands')
        /\ SharesOf(errands') = SharesOf(errands) \ {e}
        /\ Forgotten(errands') => Forgotten(errands)
    BY <1>1, AnswerGone
  <1>3. cards \in Seq(SUBSET Readers) /\ doubt \in BOOLEAN
    BY <1>0, OneList
  <1>4. ~failed /\ (people.narrow \/ people.lists = <<>>) => cards = <<sharing.members>>
    BY <1>0, OneList
  <1> HIDE DEF cards
  <1>5. CASE ~e.own
    <2>1. SharesOf(errands') = SharesOf(errands)
      BY <1>2, <1>5 DEF SharesOf
    <2> QED BY <1>0, <1>1, <1>2, <1>5, <2>1, PeopleQuiet
  <1>6. CASE e.own
    <2>1. /\ people' \in AnyPeople /\ people'.at = people.at /\ people'.lists = cards
          /\ people'.rows = people.rows /\ people'.doubt = doubt /\ people'.unsure = people.unsure
      BY <1>0, <1>1, <1>3, <1>6, CardFields
    <2>2. e \in SharesOf(errands)
      BY <1>1, <1>6 DEF SharesOf
    <2>3. ReadersSound(people', errands', sharing'.members)
      <3> SUFFICES ASSUME people'.at = "access", ~people'.doubt
                   PROVE  ~Forgotten(errands') /\ SharesOf(errands') = {} /\ people'.lists = <<sharing.members>>
        BY <1>1 DEF ReadersSound
      <3>1. people.at = "access" /\ ~people.doubt /\ ~failed
        BY <2>1
      <3>2. /\ ~Forgotten(errands) /\ SharesOf(errands) = {e}
            /\ people.narrow \/ people.lists = <<>>
        BY <2>2, <3>1 DEF PeopleInv, ReadersSound
      <3> QED BY <1>2, <1>4, <2>1, <3>1, <3>2
    <2>4. AskersSound(people', errands', sharing'.asking)
      BY <1>1, <1>2, <2>1 DEF PeopleInv, AskersSound
    <2> QED BY <1>0, <1>1, <1>2, <2>1, <2>3, <2>4 DEF PeopleInv, PeopleFull
  <1> QED BY <1>5, <1>6

RowsOf(p, rows, doubt) == [p EXCEPT !.rows = rows, !.doubt = doubt]

LEMMA RowsFields ==
  ASSUME NEW p \in AnyPeople, NEW rows \in SUBSET Readers, NEW doubt \in BOOLEAN
  PROVE  /\ RowsOf(p, rows, doubt) \in AnyPeople
         /\ RowsOf(p, rows, doubt).at = p.at /\ RowsOf(p, rows, doubt).narrow = p.narrow
         /\ RowsOf(p, rows, doubt).lists = p.lists /\ RowsOf(p, rows, doubt).rows = rows
         /\ RowsOf(p, rows, doubt).doubt = doubt /\ RowsOf(p, rows, doubt).unsure = p.unsure
  BY DEF RowsOf, AnyPeople

LEMMA AskersSafe ==
  ASSUME PeopleInv, NEW e \in errands, NEW failed \in BOOLEAN, AskersListed(e, failed)
  PROVE  PeopleInv'
  <1>0. /\ people \in AnyPeople /\ people.doubt \in BOOLEAN /\ sharing \in AnySharing
        /\ sharing.asking \in SUBSET Readers
    BY DEF PeopleInv, PeopleFull, AnyPeople, AnySharing
  <1>1. /\ errands' = errands \ {e} /\ UNCHANGED sharing /\ e.kind = "askers"
        /\ people' = people \/ people' = RowsOf(people, sharing.asking, people.doubt)
    BY <1>0 DEF AskersListed, RowsOf, AnyPeople
  <1>2. /\ errands' \subseteq AnyErrand /\ Unique(errands')
        /\ SharesOf(errands') = SharesOf(errands)
        /\ Forgotten(errands') => Forgotten(errands)
    BY <1>1, AnswerGone DEF SharesOf
  <1>3. CASE people' = people
    BY <1>0, <1>1, <1>2, <1>3, PeopleQuiet
  <1>4. CASE people' = RowsOf(people, sharing.asking, people.doubt)
    <2>1. /\ people' \in AnyPeople /\ people'.at = people.at /\ people'.lists = people.lists
          /\ people'.narrow = people.narrow
          /\ people'.rows = sharing.asking /\ people'.doubt = people.doubt
          /\ people'.unsure = people.unsure
      BY <1>0, <1>4, RowsFields
    <2>2. ReadersSound(people', errands', sharing'.members)
      BY <1>1, <1>2, <2>1 DEF PeopleInv, ReadersSound
    <2>3. AskersSound(people', errands', sharing'.asking)
      BY <1>1, <1>2, <2>1 DEF PeopleInv, AskersSound
    <2> QED BY <1>0, <1>1, <1>2, <2>1, <2>2, <2>3 DEF PeopleInv, PeopleFull
  <1> QED BY <1>1, <1>3, <1>4

\* What the server does on a request.
LEMMA GrantedGives ==
  ASSUME PeopleInv, NEW e \in errands, Granted(e)
  PROVE  /\ sharing' \in AnySharing
         /\ e.kind # "ruling" => sharing'.asking = sharing.asking
         /\ e.kind = "ruling" => sharing'.asking = sharing.asking \ e.who
         /\ e.kind = "ruling" /\ ~e.yes => sharing'.members = sharing.members
  <1> DEFINE members == IF e.kind = "remove" \/ (e.kind = "ruling" /\ ~e.yes)
                          THEN sharing.members \ (IF e.kind = "remove" THEN e.who ELSE {})
                          ELSE sharing.members \cup e.who
             asking == IF e.kind = "ruling" THEN sharing.asking \ e.who ELSE sharing.asking
  <1>1. sharing' = [members |-> members, asking |-> asking]
    BY DEF Granted
  <1>2. /\ sharing.members \in SUBSET Readers /\ sharing.asking \in SUBSET Readers
        /\ e.who \in SUBSET Readers
    BY DEF PeopleInv, PeopleFull, AnySharing, AnyErrand
  <1>3. members \in SUBSET Readers /\ asking \in SUBSET Readers
    BY <1>2
  <1>4. /\ e.kind # "ruling" => asking = sharing.asking
        /\ e.kind = "ruling" => asking = sharing.asking \ e.who
        /\ e.kind = "ruling" /\ ~e.yes => members = sharing.members
    OBVIOUS
  <1> HIDE DEF members, asking
  <1>5. sharing' \in AnySharing /\ sharing'.members = members /\ sharing'.asking = asking
    BY <1>1, <1>3 DEF AnySharing
  <1> QED BY <1>4, <1>5

LEMMA ReloadSafe ==
  ASSUME PeopleInv, NEW e \in errands, ReloadShares(e)
  PROVE  PeopleInv'
  <1> DEFINE no == FALSE
             f == Errand(e.id, "shares", {}, no)
             doubt == Running({"shares"}) \/ Forgotten(errands)
  <1>0. /\ people \in AnyPeople /\ people.lists \in Seq(SUBSET Readers) /\ people.narrow \in BOOLEAN
        /\ no \in BOOLEAN
    BY DEF PeopleInv, PeopleFull, AnyPeople
  <1>1. /\ errands' = (errands \ {e}) \cup (IF e.own THEN {f} ELSE {})
        /\ people' = IF ~e.own THEN people ELSE CardOf(people, Emptied(people), doubt)
        /\ e.kind \in {"invite", "remove"} /\ Granted(e)
    BY DEF ReloadShares, CardOf
  <1> HIDE DEF no
  <1>2. /\ e \in AnyErrand
        /\ errands \ {e} \subseteq AnyErrand /\ Unique(errands \ {e})
        /\ SharesOf(errands \ {e}) = SharesOf(errands) \ {e}
        /\ Forgotten(errands \ {e}) => Forgotten(errands)
        /\ ~e.own => Forgotten(errands)
    BY <1>1, AnswerGone
  <1>3. sharing' \in AnySharing /\ sharing'.asking = sharing.asking
    BY <1>1, GrantedGives
  <1>4. CASE ~e.own
    <2>1. people' = people /\ errands' = errands \ {e}
      BY <1>1, <1>4
    <2> QED BY <1>0, <1>2, <1>3, <1>4, <2>1, PeopleDoubted
  <1>5. CASE e.own
    <2>1. "shares" \in ErrandKinds /\ {} \in SUBSET Readers /\ e.id \in 1..MaxErrands
      BY <1>2 DEF ErrandKinds, AnyErrand
    <2>2. f \in AnyErrand /\ f.id = e.id /\ f.own /\ f.kind = "shares"
      BY <1>0, <2>1, ErrandFields
    <2> HIDE DEF f
    <2>3. errands' = (errands \ {e}) \cup {f}
      BY <1>1, <1>5
    <2>4. errands' \subseteq AnyErrand /\ Unique(errands')
      BY <1>2, <2>2, <2>3 DEF Unique, PeopleInv
    <2>5. SharesOf(errands') = (SharesOf(errands) \ {e}) \cup {f}
      BY <1>2, <2>2, <2>3 DEF SharesOf
    <2>6. Forgotten(errands') => Forgotten(errands)
      BY <2>2, <2>3 DEF Forgotten
    <2>7. Running({"shares"}) <=> SharesOf(errands) # {}
      BY DEF Running, SharesOf
    <2>8. /\ Emptied(people) \in Seq(SUBSET Readers)
          /\ people.narrow \/ Emptied(people) = <<>>
      BY <1>0, OneList DEF Emptied
    <2>9. doubt \in BOOLEAN
      BY DEF Running, Forgotten
    <2> HIDE DEF doubt
    <2>10. /\ people' \in AnyPeople /\ people'.at = people.at /\ people'.narrow = people.narrow
           /\ people'.lists = Emptied(people) /\ people'.rows = people.rows
           /\ people'.doubt = doubt /\ people'.unsure = people.unsure
      <3> DEFINE cards == Emptied(people)
                 after == CardOf(people, cards, doubt)
      <3>1. people' = after /\ cards \in Seq(SUBSET Readers)
        BY <1>1, <1>5, <2>8
      <3> HIDE DEF cards
      <3>2. /\ after \in AnyPeople /\ after.at = people.at /\ after.narrow = people.narrow
            /\ after.lists = cards /\ after.rows = people.rows
            /\ after.doubt = doubt /\ after.unsure = people.unsure
        BY ONLY <1>0, <2>9, <3>1 DEF CardOf, AnyPeople
      <3> HIDE DEF after
      <3> QED BY <3>1, <3>2 DEF cards
    <2>11. ReadersSound(people', errands', sharing'.members)
      <3> SUFFICES ASSUME ~people'.doubt
                   PROVE  /\ ~Forgotten(errands') /\ SharesOf(errands') = {f}
                          /\ people'.narrow \/ people'.lists = <<>>
        BY DEF ReadersSound
      <3>1. ~Running({"shares"}) /\ ~Forgotten(errands)
        BY <2>10 DEF doubt
      <3> QED BY <2>5, <2>6, <2>7, <2>8, <2>10, <3>1
    <2>12. AskersSound(people', errands', sharing'.asking)
      BY <1>3, <2>6, <2>10 DEF PeopleInv, AskersSound
    <2> QED BY <1>3, <2>4, <2>10, <2>11, <2>12 DEF PeopleInv, PeopleFull
  <1> QED BY <1>4, <1>5

LEMMA DecidedSafe ==
  ASSUME PeopleInv, NEW e \in errands, RequestDecided(e)
  PROVE  PeopleInv'
  <1> DEFINE doubt == people.doubt \/ e.yes
             rows == people.rows \ e.who
  <1>0. /\ people \in AnyPeople /\ people.rows \in SUBSET Readers /\ people.doubt \in BOOLEAN
    BY DEF PeopleInv, PeopleFull, AnyPeople
  <1>1. /\ errands' = errands \ {e} /\ e.kind = "ruling" /\ Granted(e)
        /\ people' = IF ~e.own THEN people ELSE RowsOf(people, rows, doubt)
    BY DEF RequestDecided, RowsOf, RowGone
  <1>2. /\ e \in AnyErrand
        /\ errands' \subseteq AnyErrand /\ Unique(errands')
        /\ SharesOf(errands') = SharesOf(errands) \ {e}
        /\ Forgotten(errands') => Forgotten(errands)
        /\ ~e.own => Forgotten(errands)
    BY <1>1, AnswerGone
  <1>3. /\ sharing' \in AnySharing /\ sharing'.asking = sharing.asking \ e.who
        /\ ~e.yes => sharing'.members = sharing.members
    BY <1>1, GrantedGives
  <1>4. SharesOf(errands') = SharesOf(errands)
    BY <1>1 DEF SharesOf
  <1>5. rows \in SUBSET Readers /\ doubt \in BOOLEAN
    BY <1>0, <1>2 DEF AnyErrand
  <1> HIDE DEF rows
  <1>6. CASE ~e.own
    BY <1>0, <1>1, <1>2, <1>3, <1>6, PeopleDoubted
  <1>7. CASE e.own
    <2>1. /\ people' \in AnyPeople /\ people'.at = people.at /\ people'.narrow = people.narrow
          /\ people'.lists = people.lists /\ people'.rows = rows
          /\ people'.doubt = doubt /\ people'.unsure = people.unsure
      BY <1>0, <1>1, <1>5, <1>7, RowsFields
    <2>2. ReadersSound(people', errands', sharing'.members)
      <3> SUFFICES ASSUME people'.at = "access", ~people'.doubt
                   PROVE  ReadersSound(people', errands', sharing'.members)
        BY DEF ReadersSound
      <3>1. people.at = "access" /\ ~people.doubt /\ ~e.yes
        BY <2>1
      <3> QED BY <1>2, <1>3, <1>4, <2>1, <3>1 DEF PeopleInv, ReadersSound
    <2>3. AskersSound(people', errands', sharing'.asking)
      BY <1>2, <1>3, <2>1 DEF rows, PeopleInv, AskersSound
    <2> QED BY <1>2, <1>3, <2>1, <2>2, <2>3 DEF PeopleInv, PeopleFull
  <1> QED BY <1>6, <1>7

DoubtOf(p, doubt, unsure) == [p EXCEPT !.doubt = doubt, !.unsure = unsure]

LEMMA DoubtFields ==
  ASSUME NEW p \in AnyPeople, NEW doubt \in BOOLEAN, NEW unsure \in BOOLEAN
  PROVE  /\ DoubtOf(p, doubt, unsure) \in AnyPeople
         /\ DoubtOf(p, doubt, unsure).at = p.at /\ DoubtOf(p, doubt, unsure).narrow = p.narrow
         /\ DoubtOf(p, doubt, unsure).lists = p.lists /\ DoubtOf(p, doubt, unsure).rows = p.rows
         /\ DoubtOf(p, doubt, unsure).doubt = doubt /\ DoubtOf(p, doubt, unsure).unsure = unsure
  BY DEF DoubtOf, AnyPeople

LEMMA ErrandFailedSafe ==
  ASSUME PeopleInv, NEW e \in errands, NEW lost \in BOOLEAN, ErrandFailed(e, lost)
  PROVE  PeopleInv'
  <1> DEFINE doubt == people.doubt \/ (lost /\ e.own)
             unsure == people.unsure \/ (lost /\ e.own)
  <1>0. /\ people \in AnyPeople /\ people.unsure \in BOOLEAN /\ people.doubt \in BOOLEAN
        /\ sharing \in AnySharing
    BY DEF PeopleInv, PeopleFull, AnyPeople
  <1>1. /\ errands' = errands \ {e} /\ e.kind \in {"invite", "remove", "ruling"}
        /\ people' = DoubtOf(people, doubt, unsure)
        /\ IF lost THEN Granted(e) ELSE UNCHANGED sharing
    BY DEF ErrandFailed, DoubtOf
  <1>2. /\ e \in AnyErrand
        /\ errands' \subseteq AnyErrand /\ Unique(errands')
        /\ SharesOf(errands') = SharesOf(errands) \ {e}
        /\ Forgotten(errands') => Forgotten(errands)
        /\ ~e.own => Forgotten(errands)
    BY <1>1, AnswerGone
  <1>3. doubt \in BOOLEAN /\ unsure \in BOOLEAN
    BY <1>0, <1>2 DEF AnyErrand
  <1>4. /\ people' \in AnyPeople /\ people'.at = people.at /\ people'.narrow = people.narrow
        /\ people'.lists = people.lists /\ people'.rows = people.rows
        /\ people'.doubt = doubt /\ people'.unsure = unsure
    BY <1>0, <1>1, <1>3, DoubtFields
  <1>5. SharesOf(errands') = SharesOf(errands)
    BY <1>1 DEF SharesOf
  <1>6. CASE ~lost
    BY <1>0, <1>1, <1>2, <1>4, <1>5, <1>6, PeopleQuiet
  <1>7. CASE lost /\ ~e.own
    <2>1. sharing' \in AnySharing
      BY <1>1, <1>7, GrantedGives
    <2> QED BY <1>2, <1>4, <1>7, <2>1, PeopleDoubted
  <1>8. CASE lost /\ e.own
    <2>1. sharing' \in AnySharing
      BY <1>1, <1>8, GrantedGives
    <2>2. ReadersSound(people', errands', sharing'.members) /\ AskersSound(people', errands', sharing'.asking)
      BY <1>4, <1>8 DEF ReadersSound, AskersSound
    <2> QED BY <1>2, <1>4, <2>1, <2>2 DEF PeopleInv, PeopleFull
  <1> QED BY <1>6, <1>7, <1>8

LEMMA PeopleHeld == PeopleInv /\ UNCHANGED peopleVars => PeopleInv'
  BY DEF PeopleInv, PeopleFull, peopleVars

LEMMA PeopleStepSafe == ASSUME PeopleInv, PeopleStep PROVE PeopleInv'
  <1>1. CASE \E narrow \in BOOLEAN : OpenPeople(narrow)
    BY <1>1, OpenPeopleSafe
  <1>2. CASE CloseTab
    BY <1>2, CloseTabSafe
  <1>3. CASE \E u \in Readers : \/ Invite(u) \/ RemoveReader(u) \/ AskAccess(u)
                                \/ \E yes \in BOOLEAN : DecideRequest(u, yes)
    <2>1. PICK u \in Readers : \/ Invite(u) \/ RemoveReader(u) \/ AskAccess(u)
                               \/ \E yes \in BOOLEAN : DecideRequest(u, yes)
      BY <1>3
    <2> DEFINE no == FALSE
    <2>2. no \in BOOLEAN
      OBVIOUS
    <2> HIDE DEF no
    <2>3. Invite(u) \/ RemoveReader(u) => PeopleInv'
      BY <2>2, OwnerAsks
    <2> QED BY <2>1, <2>3, OwnerAsks, AskAccessSafe
  <1>4. CASE \E e \in errands :
               \/ TestArrived(e) \/ TestMissing(e) \/ StatsArrived(e) \/ ReloadShares(e) \/ RequestDecided(e)
               \/ \E f \in BOOLEAN : SharesListed(e, f) \/ AskersListed(e, f) \/ ErrandFailed(e, f)
    BY <1>4, TestSafe, StatsSafe, ReloadSafe, DecidedSafe, SharesSafe, AskersSafe, ErrandFailedSafe
  <1> QED BY <1>1, <1>2, <1>3, <1>4 DEF PeopleStep

LEMMA PeopleInvStep == PeopleInv /\ [ScreensNext]_screensVars => PeopleInv'
  <1> SUFFICES ASSUME PeopleInv, [ScreensNext]_screensVars PROVE PeopleInv'
    OBVIOUS
  <1>1. CASE UNCHANGED peopleVars
    BY <1>1, PeopleHeld
  <1>2. CASE Mount
    <2>1. PICK i \in imports :
            IF Mounts(i) THEN Opens(ScreenOf(i), i.narrow)
            ELSE UNCHANGED <<badge, wizardVars, editorVars, collectionVars, inboxVars, peopleVars>>
      BY <1>2 DEF Mount
    <2>2. \/ UNCHANGED peopleVars
          \/ CollectionPage
          \/ LeavePeople /\ UNCHANGED sharing
      BY <2>1 DEF Opens
    <2> QED BY <1>1, <2>2, CollectionPageSafe, LeavePeopleSafe
  <1>3. CASE Route
    <2>1. UNCHANGED sharing /\ (UNCHANGED <<people, errands>> \/ LeavePeople)
      BY <1>3 DEF Route
    <2>2. UNCHANGED <<people, errands>> => UNCHANGED peopleVars
      BY <2>1 DEF peopleVars
    <2> QED BY <1>1, <2>1, <2>2, LeavePeopleSafe
  <1>4. CASE PeopleStep
    BY <1>4, PeopleStepSafe
  <1>5. CASE UNCHANGED screensVars
    BY <1>1, <1>5 DEF screensVars
  <1> QED BY <1>1, <1>2, <1>3, <1>4, <1>5 DEF ScreensNext

LEMMA PeopleInvInit == PeopleInit => PeopleInv
  <1> SUFFICES ASSUME PeopleInit PROVE PeopleInv
    OBVIOUS
  <1> DEFINE nobody == {}
  <1>1. /\ sharing = [members |-> nobody, asking |-> nobody] /\ people = NoPeople /\ errands = {}
        /\ nobody \in SUBSET Readers
    BY DEF PeopleInit
  <1> HIDE DEF nobody
  <1>2. sharing \in AnySharing
    BY <1>1 DEF AnySharing
  <1>3. people \in AnyPeople /\ people.at = "none"
    BY <1>1, NoPeopleFields
  <1> QED BY <1>1, <1>2, <1>3 DEF PeopleInv, PeopleFull, Unique, ReadersSound, AskersSound

(***************************************************************************)
(* The change requests of the owner.                                       *)
(***************************************************************************)

LEMMA ServerLists == Counted = ServerTally(verdicts) /\ \A status : Matching(status) = ServerList(verdicts, status)
  BY DEF Counted, ServerTally, Matching, ServerList

LEMMA PostFields ==
  ASSUME NEW id \in 1..MaxPosts, NEW narrow \in BOOLEAN, NEW kind \in PostKinds,
         NEW r \in {0} \cup Proposals, NEW what \in Statuses \cup {"all", "none"}, NEW row \in BOOLEAN
  PROVE  LET p == Post(id, narrow, kind, r, what, row) IN
         /\ p \in AnyPost
         /\ p.id = id /\ p.narrow = narrow /\ p.own /\ p.kind = kind /\ p.r = r /\ p.what = what
         /\ p.row = row
  <1> DEFINE own == TRUE
             p == [id |-> id, narrow |-> narrow, own |-> own, kind |-> kind, r |-> r,
                   what |-> what, row |-> row]
  <1>1. Post(id, narrow, kind, r, what, row) = p /\ own \in BOOLEAN /\ own
    BY DEF Post
  <1> HIDE DEF own
  <1>2. /\ p \in AnyPost
        /\ p.id = id /\ p.narrow = narrow /\ p.own = own /\ p.kind = kind /\ p.r = r
        /\ p.what = what /\ p.row = row
    BY <1>1 DEF AnyPost
  <1> QED BY <1>1, <1>2

PostAs(p, own) == [p EXCEPT !.own = own]

LEMMA PostAsFields ==
  ASSUME NEW p \in AnyPost, NEW own \in BOOLEAN
  PROVE  LET q == PostAs(p, own) IN
         /\ q \in AnyPost
         /\ q.id = p.id /\ q.narrow = p.narrow /\ q.own = own /\ q.kind = p.kind /\ q.r = p.r
         /\ q.what = p.what /\ q.row = p.row
  BY DEF PostAs, AnyPost

\* Pages that have left their requests behind: those owned are as they were.
PostsBehind(ps) ==
  /\ \A q \in ps : PostOK(q) /\ \E p \in posts : /\ q.id = p.id /\ q.narrow = p.narrow
                                                 /\ q.kind = p.kind
                                                 /\ q.own => p.own
  /\ \A p, q \in ps : p.id = q.id => p = q

LEMMA PostsBehindSet ==
  ASSUME InboxFull, NEW own \in [posts -> BOOLEAN], \A p \in posts : own[p] => p.own,
         NEW S \in SUBSET posts
  PROVE  PostsBehind({PostAs(p, own[p]) : p \in S})
  <1> DEFINE ps == {PostAs(p, own[p]) : p \in S}
  <1>1. ASSUME NEW p \in posts
        PROVE  LET q == PostAs(p, own[p]) IN
               /\ PostOK(q)
               /\ q.id = p.id /\ q.narrow = p.narrow /\ q.own = own[p] /\ q.kind = p.kind
    BY PostAsFields DEF InboxFull, PostOK
  <1>2. \A q \in ps : \E p \in posts : q = PostAs(p, own[p])
    OBVIOUS
  <1>3. \A p, q \in ps : p.id = q.id => p = q
    BY <1>1, <1>2 DEF InboxFull
  <1> QED BY <1>1, <1>2, <1>3 DEF PostsBehind

(***************************************************************************)
(* What the server lists and counts.                                       *)
(***************************************************************************)
LEMMA CopyOf ==
  ASSUME NEW S \in SUBSET Proposals, NEW c \in [S -> Statuses]
  PROVE  c \in Copies
  BY DEF Copies

LEMMA CopyFacts ==
  ASSUME NEW c \in Copies
  PROVE  DOMAIN c \in SUBSET Proposals /\ c \in [DOMAIN c -> Statuses]
  BY DEF Copies

LEMMA NothingCopied == <<>> \in Copies /\ DOMAIN <<>> = {}
  <1> DEFINE none == {}
  <1>1. <<>> \in [none -> Statuses] /\ none \in SUBSET Proposals
    OBVIOUS
  <1> QED BY <1>1, CopyOf

LEMMA ListingCopy ==
  ASSUME NEW vs \in [Proposals -> Statuses], NEW status
  PROVE  ServerList(vs, status) \in Copies
  <1> DEFINE S == {q \in Proposals : status \in {"all", vs[q]}}
  <1>1. S \in SUBSET Proposals /\ [r \in S |-> vs[r]] \in [S -> Statuses]
    OBVIOUS
  <1>2. ServerList(vs, status) = [r \in S |-> vs[r]]
    BY DEF ServerList
  <1> HIDE DEF S
  <1> QED BY <1>1, <1>2, CopyOf

LEMMA VerdictsCopy ==
  ASSUME NEW vs \in [Proposals -> Statuses]
  PROVE  vs \in Copies
  BY CopyOf

LEMMA TallyCounts ==
  ASSUME NEW vs \in [Proposals -> Statuses]
  PROVE  ServerTally(vs) \in Tallies
  <1>1. IsFiniteSet(Proposals) /\ Cardinality(Proposals) = NProposals
    BY InboxBounds, FS_Interval DEF Proposals
  <1>2. ASSUME NEW v \in Statuses
        PROVE  Cardinality({r \in Proposals : vs[r] = v}) \in 0..NProposals
    <2> DEFINE S == {r \in Proposals : vs[r] = v}
    <2>1. S \in SUBSET Proposals
      OBVIOUS
    <2> HIDE DEF S
    <2>2. IsFiniteSet(S) /\ Cardinality(S) <= Cardinality(Proposals)
      BY <1>1, <2>1, FS_Subset
    <2>3. Cardinality(S) \in Nat
      BY <2>2, FS_CardinalityType
    <2> QED BY <1>1, <2>2, <2>3, InboxBounds DEF S
  <1> QED BY <1>2 DEF ServerTally, Tallies

LEMMA SomeTallies ==
  /\ [v \in Statuses |-> 0] \in Tallies
  /\ \A failed \in SUBSET Statuses : \A counted \in Tallies :
       [v \in Statuses |-> IF v \in failed THEN 0 ELSE counted[v]] \in Tallies
  <1>1. 0 \in 0..NProposals
    BY InboxBounds
  <1> QED BY <1>1 DEF Tallies

\* The number of the first of some change requests.
LEMMA FirstProposal == 
  ASSUME NEW c \in Copies
  PROVE  Foremost(c) \in {0} \cup Proposals
  <1>1. CASE DOMAIN c = {}
    BY <1>1 DEF Foremost
  <1>2. CASE DOMAIN c # {}
    <2> DEFINE S == DOMAIN c
    <2>1. S \subseteq Nat /\ S # {} /\ S \subseteq Proposals
      BY <1>2, CopyFacts DEF Proposals
    <2> HIDE DEF S
    <2>5. \E m \in S : \A n \in S : m <= n
      BY <2>1, LeastNumber
    <2>6. (CHOOSE r \in S : \A q \in S : r <= q) \in S
      BY <2>5
    <2>7. Foremost(c) = CHOOSE r \in S : \A q \in S : r <= q
      BY <1>2 DEF Foremost, S
    <2> QED BY <2>1, <2>6, <2>7
  <1> QED BY <1>1, <1>2

(***************************************************************************)
(* The pages and their fields.                                             *)
(***************************************************************************)
LEMMA NoPages ==
  /\ NoInbox \in AnyInbox /\ ~NoInbox.open /\ NoInbox.status = "pending"
  /\ NoFolder \in AnyFolder /\ ~NoFolder.open
  <1> DEFINE no == FALSE
             pending == "pending"
             none == <<>>
             zero == 0
             tally == [v \in Statuses |-> 0]
  <1>1. /\ no \in BOOLEAN /\ ~no /\ pending \in Statuses \cup {"all"} /\ none \in Copies
        /\ zero \in {0} \cup Proposals /\ zero \in {0} \cup Rewrites /\ tally \in Tallies
    BY NothingCopied, SomeTallies DEF Statuses
  <1>2. /\ NoInbox = [open |-> no, picker |-> no, status |-> pending, items |-> none, sel |-> zero,
                      counts |-> tally, text |-> zero, doubt |-> no, miscounted |-> no,
                      approved |-> no]
        /\ NoFolder = [open |-> no, picker |-> no, filter |-> pending, seen |-> none,
                       detail |-> zero, doubt |-> no]
    BY DEF NoInbox, NoFolder
  <1> HIDE DEF no, pending, none, zero, tally
  <1>3. NoInbox \in AnyInbox /\ NoInbox.open = no /\ NoInbox.status = pending
    BY <1>1, <1>2 DEF AnyInbox
  <1>4. NoFolder \in AnyFolder /\ NoFolder.open = no
    BY <1>1, <1>2 DEF AnyFolder
  <1> QED BY <1>1, <1>3, <1>4 DEF pending

StatusOf(ib, status, doubt) == [ib EXCEPT !.status = status, !.doubt = doubt]
ItemsOf(ib, items, sel, doubt, miscounted) ==
  [ib EXCEPT !.items = items, !.sel = sel, !.doubt = doubt, !.miscounted = miscounted]
CountsOf(ib, tally, miscounted) == [ib EXCEPT !.counts = tally, !.miscounted = miscounted]
ChosenOf(ib, sel) == [ib EXCEPT !.sel = sel]
ApprovedOf(ib, approved) == [ib EXCEPT !.approved = approved]
DoubtedOf(ib, doubt) == [ib EXCEPT !.doubt = doubt]
UnsureOf(ib, doubt, miscounted) == [ib EXCEPT !.doubt = doubt, !.miscounted = miscounted]

LEMMA InboxFields ==
  ASSUME NEW ib \in AnyInbox, NEW status \in Statuses \cup {"all"}, NEW items \in Copies,
         NEW sel \in {0} \cup Proposals, NEW tally \in Tallies, NEW doubt \in BOOLEAN,
         NEW flag \in BOOLEAN
  PROVE  /\ LET ic == StatusOf(ib, status, doubt) IN
            /\ ic \in AnyInbox /\ ic.open = ib.open /\ ic.status = status /\ ic.doubt = doubt
            /\ ic.counts = ib.counts /\ ic.miscounted = ib.miscounted /\ ic.text = ib.text
            /\ ic.approved = ib.approved
         /\ LET ic == ItemsOf(ib, items, sel, doubt, flag) IN
            /\ ic \in AnyInbox /\ ic.open = ib.open /\ ic.status = ib.status /\ ic.doubt = doubt
            /\ ic.items = items /\ ic.counts = ib.counts /\ ic.miscounted = flag
            /\ ic.text = ib.text /\ ic.approved = ib.approved
         /\ LET ic == CountsOf(ib, tally, flag) IN
            /\ ic \in AnyInbox /\ ic.open = ib.open /\ ic.status = ib.status /\ ic.doubt = ib.doubt
            /\ ic.items = ib.items /\ ic.counts = tally /\ ic.miscounted = flag
            /\ ic.text = ib.text /\ ic.approved = ib.approved
         /\ LET ic == ChosenOf(ib, sel) IN
            /\ ic \in AnyInbox /\ ic.open = ib.open /\ ic.status = ib.status /\ ic.doubt = ib.doubt
            /\ ic.items = ib.items /\ ic.counts = ib.counts /\ ic.miscounted = ib.miscounted
            /\ ic.text = ib.text /\ ic.approved = ib.approved
         /\ LET ic == ApprovedOf(ib, flag) IN
            /\ ic \in AnyInbox /\ ic.open = ib.open /\ ic.status = ib.status /\ ic.doubt = ib.doubt
            /\ ic.items = ib.items /\ ic.counts = ib.counts /\ ic.miscounted = ib.miscounted
            /\ ic.text = ib.text /\ ic.approved = flag
         /\ LET ic == DoubtedOf(ib, doubt) IN
            /\ ic \in AnyInbox /\ ic.open = ib.open /\ ic.status = ib.status /\ ic.doubt = doubt
            /\ ic.counts = ib.counts /\ ic.miscounted = ib.miscounted /\ ic.text = ib.text
            /\ ic.approved = ib.approved
         /\ LET ic == UnsureOf(ib, doubt, flag) IN
            /\ ic \in AnyInbox /\ ic.open = ib.open /\ ic.status = ib.status /\ ic.doubt = doubt
            /\ ic.items = ib.items /\ ic.counts = ib.counts /\ ic.miscounted = flag
            /\ ic.text = ib.text /\ ic.approved = ib.approved
  BY DEF StatusOf, ItemsOf, CountsOf, ChosenOf, ApprovedOf, DoubtedOf, UnsureOf, AnyInbox

FilterOf(fd, filter) == [fd EXCEPT !.filter = filter]
CopyIs(fd, seen) == [fd EXCEPT !.seen = seen]
FolderDoubt(fd, doubt) == [fd EXCEPT !.doubt = doubt]

LEMMA FolderFields ==
  ASSUME NEW fd \in AnyFolder, NEW filter \in Statuses \cup {"all"}, NEW seen \in Copies,
         NEW doubt \in BOOLEAN
  PROVE  /\ LET fe == FilterOf(fd, filter) IN
            fe \in AnyFolder /\ fe.open = fd.open /\ fe.seen = fd.seen /\ fe.doubt = fd.doubt
         /\ LET fe == CopyIs(fd, seen) IN
            fe \in AnyFolder /\ fe.open = fd.open /\ fe.seen = seen /\ fe.doubt = fd.doubt
         /\ LET fe == FolderDoubt(fd, doubt) IN
            fe \in AnyFolder /\ fe.open = fd.open /\ fe.seen = fd.seen /\ fe.doubt = doubt
  BY DEF FilterOf, CopyIs, FolderDoubt, AnyFolder

(***************************************************************************)
(* What a step leaves as it was.                                           *)
(***************************************************************************)
PageKinds == {"open", "picker"}

\* An answer is taken: the others stay.
LEMMA PostGone ==
  ASSUME InboxInv, NEW p \in posts, NEW ps, ps = posts \ {p}
  PROVE  /\ \A q \in ps : PostOK(q)
         /\ \A q, o \in ps : q.id = o.id => q = o
         /\ OnePage(inbox, folder, ps)
         /\ Banished(ps) => Banished(posts)
         /\ \A kinds : OwnPosts(ps, kinds) = OwnPosts(posts, kinds) \ {p}
         /\ PostOK(p)
  BY DEF InboxInv, InboxFull, OnePage, Opening, Banished, OwnPosts

\* A request takes the place of p, or is sent.
LEMMA PostAdded ==
  ASSUME NEW ps, \A q \in ps : PostOK(q), \A q, o \in ps : q.id = o.id => q = o,
         NEW n, PostOK(n), n.own, \A q \in ps : q.id # n.id,
         NEW qs, qs = ps \cup {n}
  PROVE  /\ \A q \in qs : PostOK(q)
         /\ \A q, o \in qs : q.id = o.id => q = o
         /\ Banished(qs) => Banished(ps)
         /\ \A kinds : /\ n.kind \in kinds => OwnPosts(qs, kinds) = OwnPosts(ps, kinds) \cup {n}
                       /\ n.kind \notin kinds => OwnPosts(qs, kinds) = OwnPosts(ps, kinds)
  BY DEF Banished, OwnPosts

\* It is one of the page that is open.
LEMMA PageSends ==
  ASSUME NEW ib, NEW fd, NEW ps, OnePage(ib, fd, ps), NEW n, n.own, n.kind \notin PageKinds,
         ib.open => ~n.narrow, fd.open => n.narrow,
         \/ ib.open \/ fd.open
         \/ \A q \in ps : q.own => q.kind \notin PageKinds
  PROVE  OnePage(ib, fd, ps \cup {n})
  BY DEF OnePage, Opening, PageKinds

\* Or takes the place of one that was not for opening a page.
LEMMA NoneOpening ==
  ASSUME NEW ib, NEW fd, NEW ps, OnePage(ib, fd, ps), NEW p \in ps, p.own, p.kind \notin PageKinds
  PROVE  \A q \in ps : q.own => q.kind \notin PageKinds
  BY DEF OnePage, Opening, PageKinds

LEMMA PageStays ==
  ASSUME NEW ib, NEW fd, NEW ps, OnePage(ib, fd, ps), NEW ic, NEW fe,
         ic.open = ib.open, fe.open = fd.open
  PROVE  OnePage(ic, fe, ps)
  BY DEF OnePage

\* The phone's page while the desktop's moves.
LEMMA FolderKept ==
  ASSUME InboxInv, folder' = folder, verdicts' = verdicts, folder.open /\ Leaving => Leaving',
         FolderPlaced(folder, shown'), Banished(posts') => Banished(posts)
  PROVE  /\ CopyKnown(folder', posts')
         /\ CopySound(folder', verdicts') \/ Leaving'
         /\ FolderPlaced(folder', shown')
  <1>1. CopyKnown(folder', posts')
    BY DEF InboxInv, CopyKnown
  <1>2. CopySound(folder', verdicts') \/ Leaving'
    BY DEF InboxInv, CopySound
  <1> QED BY <1>1, <1>2

LEMMA RouterKept == UNCHANGED routerVars => Leaving' = Leaving /\ shown' = shown
  BY DEF routerVars, Leaving

\* While the phone has no page open.
LEMMA FolderShut ==
  ASSUME ~folder'.open
  PROVE  /\ CopyKnown(folder', posts')
         /\ CopySound(folder', verdicts') \/ Leaving'
         /\ FolderPlaced(folder', shown')
  BY DEF CopyKnown, CopySound, FolderPlaced

LEMMA InboxShut ==
  ASSUME NEW ib, ~ib.open, NEW ps, NEW matching, NEW tally, NEW text
  PROVE  ListedSound(ib, ps, matching) /\ CountedSound(ib, ps, tally) /\ TextSound(ib, ps, text)
  BY DEF ListedSound, CountedSound, TextSound

\* Both pages closed: only the types and one opening are left to see.
LEMMA PagesShut ==
  ASSUME ~inbox'.open, ~folder'.open, InboxFull', Opening(posts')
  PROVE  InboxInv'
  <1>1. OnePage(inbox', folder', posts')
    BY DEF OnePage
  <1>2. /\ ListedSound(inbox', posts', ServerList(verdicts', inbox'.status))
        /\ CountedSound(inbox', posts', ServerTally(verdicts'))
        /\ TextSound(inbox', posts', wording')
    BY InboxShut
  <1> QED BY <1>1, <1>2, FolderShut DEF InboxInv

\* The answer to a request that the page no longer waits for.
LEMMA Ignored ==
  ASSUME InboxInv, NEW p \in posts, ~p.own, posts' = posts \ {p},
         UNCHANGED <<verdicts, wording, inbox, folder, routerVars>>
  PROVE  InboxInv'
  <1> DEFINE ps == posts \ {p}
  <1>1. /\ \A q \in ps : PostOK(q)
        /\ \A q, o \in ps : q.id = o.id => q = o
        /\ OnePage(inbox, folder, ps)
        /\ Banished(ps) => Banished(posts)
        /\ \A kinds : OwnPosts(ps, kinds) = OwnPosts(posts, kinds) \ {p}
    BY PostGone
  <1>2. \A kinds : OwnPosts(ps, kinds) = OwnPosts(posts, kinds)
    BY <1>1 DEF OwnPosts
  <1>3. posts' = ps
    OBVIOUS
  <1> HIDE DEF ps
  <1>4. InboxFull'
    BY <1>1, <1>3 DEF InboxInv, InboxFull
  <1>5. ListedSound(inbox', posts', ServerList(verdicts', inbox'.status))
    BY <1>1, <1>2, <1>3 DEF InboxInv, ListedSound
  <1>6. CountedSound(inbox', posts', ServerTally(verdicts'))
    BY <1>1, <1>2, <1>3 DEF InboxInv, CountedSound
  <1>7. TextSound(inbox', posts', wording')
    BY <1>1, <1>2, <1>3 DEF InboxInv, TextSound
  <1>8. Leaving' = Leaving /\ shown' = shown
    BY RouterKept
  <1>9. /\ CopyKnown(folder', posts')
        /\ CopySound(folder', verdicts') \/ Leaving'
        /\ FolderPlaced(folder', shown')
    BY <1>1, <1>3, <1>8, FolderKept DEF InboxInv
  <1> QED BY <1>1, <1>3, <1>4, <1>5, <1>6, <1>7, <1>9 DEF InboxInv

\* The place of the user moves, his pages stay.
LEMMA WanderedLeaving == Wandered /\ Leaving => Leaving'
  <1> SUFFICES ASSUME Wandered, Leaving PROVE Leaving'
    OBVIOUS
  <1>1. CASE UNCHANGED routerVars
    BY <1>1, RouterKept
  <1>2. CASE \E p \in Addresses \ {""} : Wander(p)
    BY <1>2 DEF Wander, Go, placeVars, Leaving
  <1>3. CASE \E p \in LateScreens : Repaint(p, TRUE)
    BY <1>3 DEF Repaint, Leaving
  <1> QED BY <1>1, <1>2, <1>3 DEF Wandered

LEMMA PaintedLate ==
  ASSUME NEW p \in LateScreens, Paint(p, TRUE)
  PROVE  shown'.narrow /\ shown'.page \in LateScreens
  <1> DEFINE yes == TRUE
  <1>1. shown' = [page |-> p, narrow |-> yes] /\ yes
    BY DEF Paint
  <1> HIDE DEF yes
  <1> QED BY <1>1

LEMMA WanderedPlace == Wandered => shown' = shown \/ (shown'.narrow /\ shown'.page \in LateScreens)
  <1> SUFFICES ASSUME Wandered PROVE shown' = shown \/ (shown'.narrow /\ shown'.page \in LateScreens)
    OBVIOUS
  <1>1. CASE UNCHANGED routerVars
    BY <1>1, RouterKept
  <1>2. CASE \E p \in Addresses \ {""} : Wander(p)
    BY <1>2 DEF Wander, placeVars
  <1>3. CASE \E p \in LateScreens : Repaint(p, TRUE)
    BY <1>3, PaintedLate DEF Repaint
  <1> QED BY <1>1, <1>2, <1>3 DEF Wandered

\* The pages stay as they are: the user is still leaving if he was.
LEMMA InboxStays ==
  ASSUME InboxInv, UNCHANGED inboxVars, folder.open /\ Leaving => Leaving',
         FolderPlaced(folder, shown')
  PROVE  InboxInv'
  <1>1. UNCHANGED <<verdicts, wording, inbox, folder, posts>>
    BY DEF inboxVars
  <1>2. InboxFull' /\ OnePage(inbox', folder', posts')
    BY <1>1 DEF InboxInv, InboxFull
  <1>3. /\ ListedSound(inbox', posts', ServerList(verdicts', inbox'.status))
        /\ CountedSound(inbox', posts', ServerTally(verdicts'))
        /\ TextSound(inbox', posts', wording')
    BY <1>1 DEF InboxInv
  <1>4. /\ CopyKnown(folder', posts')
        /\ CopySound(folder', verdicts') \/ Leaving'
        /\ FolderPlaced(folder', shown')
    BY <1>1, FolderKept
  <1> QED BY <1>2, <1>3, <1>4 DEF InboxInv

LEMMA InboxWaits == InboxInv /\ Wandered /\ UNCHANGED inboxVars => InboxInv'
  <1> SUFFICES ASSUME InboxInv, Wandered, UNCHANGED inboxVars PROVE InboxInv'
    OBVIOUS
  <1>1. FolderPlaced(folder, shown')
    BY WanderedPlace DEF InboxInv, FolderPlaced
  <1> QED BY <1>1, WanderedLeaving, InboxStays

(***************************************************************************)
(* Opening and leaving.                                                    *)
(***************************************************************************)
LEMMA BehindOpens ==
  ASSUME InboxInv, NEW ps, PostsBehind(ps)
  PROVE  Opening(ps)
  <1> SUFFICES ASSUME NEW q \in ps, q.own, q.kind \in PageKinds, NEW o \in ps, o.own
               PROVE  o = q
    BY DEF Opening, PageKinds
  <1>1. PICK a \in posts : a.id = q.id /\ a.kind = q.kind /\ a.own
    BY DEF PostsBehind
  <1>2. PICK b \in posts : b.id = o.id /\ b.own
    BY DEF PostsBehind
  <1>3. b = a
    BY <1>1, <1>2 DEF InboxInv, OnePage, Opening, PageKinds
  <1> QED BY <1>1, <1>2, <1>3 DEF PostsBehind

LEMMA BehindShut ==
  ASSUME InboxInv, PostsBehind(posts'), inbox' \in AnyInbox, folder' \in AnyFolder, ~inbox'.open,
         ~folder'.open, UNCHANGED <<verdicts, wording>>
  PROVE  InboxInv'
  <1>1. InboxFull'
    BY DEF InboxInv, InboxFull, PostsBehind
  <1> QED BY <1>1, BehindOpens, PagesShut

LEMMA LeaveInboxSafe ==
  ASSUME InboxInv, LeaveInbox, UNCHANGED <<verdicts, wording>>
  PROVE  InboxInv'
  <1> DEFINE own == [p \in posts |-> p.own /\ p.narrow /\ p.kind = "open"]
  <1>1. \A p \in posts : p \in AnyPost
    BY DEF InboxInv, InboxFull, PostOK
  <1>2. posts' = {PostAs(p, own[p]) : p \in posts}
    BY <1>1 DEF LeaveInbox, PostAs, AnyPost
  <1>3. own \in [posts -> BOOLEAN] /\ \A p \in posts : own[p] => p.own
    BY <1>1 DEF AnyPost
  <1> HIDE DEF own
  <1>4. PostsBehind(posts')
    BY <1>2, <1>3, PostsBehindSet DEF InboxInv
  <1> QED BY <1>4, NoPages, BehindShut DEF LeaveInbox

PickingInbox == [NoInbox EXCEPT !.picker = TRUE]
PickingFolder == [NoFolder EXCEPT !.picker = TRUE]

LEMMA PickingPages ==
  /\ PickingInbox \in AnyInbox /\ ~PickingInbox.open
  /\ PickingFolder \in AnyFolder /\ ~PickingFolder.open
  <1> DEFINE yes == TRUE
  <1>1. /\ PickingInbox = [NoInbox EXCEPT !.picker = yes]
        /\ PickingFolder = [NoFolder EXCEPT !.picker = yes] /\ yes \in BOOLEAN
    BY DEF PickingInbox, PickingFolder
  <1> HIDE DEF yes
  <1>2. PickingInbox \in AnyInbox /\ ~PickingInbox.open
    BY <1>1, NoPages DEF AnyInbox
  <1>3. PickingFolder \in AnyFolder /\ ~PickingFolder.open
    BY <1>1, NoPages DEF AnyFolder
  <1> QED BY <1>2, <1>3

LEMMA PickerOpenedSafe ==
  ASSUME InboxInv, NEW p \in posts, PickerOpened(p)
  PROVE  InboxInv'
  <1>1. p.kind = "picker" /\ UNCHANGED <<verdicts, wording>> /\ p.narrow \in BOOLEAN
    BY DEF PickerOpened, InboxInv, InboxFull, PostOK, AnyPost
  <1>2. CASE p.narrow
    <2> DEFINE own == [q \in posts |-> q.own /\ q.kind = "open"]
    <2>1. /\ folder' = PickingFolder /\ inbox' = NoInbox
          /\ posts' = {[q EXCEPT !.own = @ /\ q.kind = "open"] : q \in posts \ {p}}
      BY <1>2 DEF PickerOpened, PickingFolder
    <2>2. \A q \in posts : q \in AnyPost
      BY DEF InboxInv, InboxFull, PostOK
    <2>3. posts' = {PostAs(q, own[q]) : q \in posts \ {p}}
      BY <2>1, <2>2 DEF PostAs, AnyPost
    <2>4. own \in [posts -> BOOLEAN] /\ \A q \in posts : own[q] => q.own
      BY <2>2 DEF AnyPost
    <2> HIDE DEF own
    <2>5. PostsBehind(posts')
      BY <2>3, <2>4, PostsBehindSet DEF InboxInv
    <2> QED BY <1>1, <2>1, <2>5, NoPages, PickingPages, BehindShut
  <1>3. CASE ~p.narrow /\ ~p.own
    BY <1>1, <1>3, Ignored DEF PickerOpened
  <1>4. CASE ~p.narrow /\ p.own
    <2>1. /\ inbox' = PickingInbox /\ posts' = posts \ {p} /\ UNCHANGED <<folder, routerVars>>
      BY <1>4 DEF PickerOpened, PickingInbox
    <2>2. ~folder.open
      BY <1>1, <1>4 DEF InboxInv, OnePage
    <2>3. PostsBehind(posts')
      BY <2>1 DEF PostsBehind, InboxInv, InboxFull
    <2>4. folder' \in AnyFolder /\ ~folder'.open
      BY <2>1, <2>2 DEF InboxInv, InboxFull
    <2> QED BY <1>1, <2>1, <2>3, <2>4, PickingPages, BehindShut
  <1> QED BY <1>1, <1>2, <1>3, <1>4

LEMMA FreshPost ==
  ASSUME InboxInv, FreePosts # {}
  PROVE  LET id == CHOOSE i \in FreePosts : TRUE IN
         id \in 1..MaxPosts /\ \A p \in posts : p.id # id
  BY DEF FreePosts

LEMMA InboxScreenSafe ==
  ASSUME InboxInv, NEW narrow \in BOOLEAN, InboxScreen(narrow)
  PROVE  InboxInv'
  <1> DEFINE no == FALSE
             own == [p \in posts |-> no]
             ps == {PostAs(p, own[p]) : p \in posts}
             id == CHOOSE i \in FreePosts : TRUE
  <1>1. PICK kind \in {"open", "picker"}, r \in {0} \cup Proposals :
          /\ inbox' = NoInbox /\ folder' = NoFolder /\ UNCHANGED <<verdicts, wording>>
          /\ FreePosts # {}
          /\ posts' = {[p EXCEPT !.own = FALSE] : p \in posts}
                        \cup {Post(id, narrow, kind, r, "none", FALSE)}
    BY DEF InboxScreen
  <1>2. \A p \in posts : p \in AnyPost
    BY DEF InboxInv, InboxFull, PostOK
  <1> DEFINE none == "none"
             n == Post(id, narrow, kind, r, none, no)
  <1>3. posts' = ps \cup {n}
    BY <1>1 DEF PostAs
  <1>4. /\ own \in [posts -> BOOLEAN] /\ no \in BOOLEAN /\ ~no
        /\ \A p \in posts : own[p] = no
    OBVIOUS
  <1> HIDE DEF own, no
  <1>5. PostsBehind(ps)
    BY <1>4, PostsBehindSet DEF InboxInv
  <1>6. \A q \in ps : ~q.own
    <2>1. \A p \in posts : PostAs(p, own[p]).own = own[p]
      BY <1>2, <1>4, PostAsFields
    <2> QED BY <1>4, <2>1
  <1> HIDE DEF ps
  <1>7. id \in 1..MaxPosts /\ \A p \in posts : p.id # id
    BY <1>1, FreshPost
  <1> HIDE DEF id
  <1>8. none \in Statuses \cup {"all", "none"} /\ kind \in PostKinds /\ kind # "verdict"
    BY <1>1 DEF PostKinds
  <1> HIDE DEF none
  <1>9. n \in AnyPost /\ n.id = id /\ n.own /\ n.kind = kind
    BY <1>4, <1>7, <1>8, PostFields
  <1> HIDE DEF n
  <1>10. PostOK(n) /\ \A q \in ps : PostOK(q) /\ q.id # n.id
    BY <1>5, <1>7, <1>8, <1>9 DEF PostOK, PostsBehind
  <1>11. /\ \A q \in posts' : PostOK(q)
         /\ \A q, o \in posts' : q.id = o.id => q = o
    BY <1>3, <1>5, <1>10 DEF PostsBehind
  <1>12. Opening(posts')
    BY <1>3, <1>6 DEF Opening
  <1>13. InboxFull'
    BY <1>1, <1>11, NoPages DEF InboxInv, InboxFull
  <1> QED BY <1>1, <1>12, <1>13, NoPages, PagesShut

LEMMA InboxMissingSafe ==
  ASSUME InboxInv, NEW p \in posts, InboxMissing(p)
  PROVE  InboxInv'
  <1>1. /\ posts' = posts \ {p} /\ p.kind = "open"
        /\ UNCHANGED <<verdicts, wording, inbox, folder, routerVars>>
    BY DEF InboxMissing
  <1>2. CASE ~p.own
    BY <1>1, <1>2, Ignored
  <1>3. CASE p.own
    <2>1. ~inbox.open /\ ~folder.open
      BY <1>1, <1>3 DEF InboxInv, OnePage
    <2>2. PostsBehind(posts')
      BY <1>1 DEF PostsBehind, InboxInv, InboxFull
    <2>3. /\ inbox' \in AnyInbox /\ folder' \in AnyFolder /\ ~inbox'.open /\ ~folder'.open
      BY <1>1, <2>1 DEF InboxInv, InboxFull
    <2> QED BY <1>1, <2>2, <2>3, BehindShut
  <1> QED BY <1>2, <1>3

(***************************************************************************)
(* The pages with what has been loaded.                                    *)
(***************************************************************************)
InboxLoaded(items, text, doubt, deciding) ==
  [NoInbox EXCEPT !.open = TRUE, !.items = items, !.sel = Foremost(items), !.text = text,
     !.doubt = doubt, !.miscounted = deciding, !.approved = deciding]

LEMMA FirstLoad ==
  ASSUME NEW items \in Copies, NEW text \in {0} \cup Rewrites, NEW doubt \in BOOLEAN,
         NEW deciding \in BOOLEAN
  PROVE  LET ib == InboxLoaded(items, text, doubt, deciding) IN
         /\ ib \in AnyInbox /\ ib.open /\ ib.status = "pending" /\ ib.items = items
         /\ ib.text = text /\ ib.doubt = doubt /\ ib.miscounted = deciding /\ ib.approved = deciding
  <1> DEFINE yes == TRUE
             sel == Foremost(items)
             ib == [NoInbox EXCEPT !.open = yes, !.items = items, !.sel = sel, !.text = text,
                      !.doubt = doubt, !.miscounted = deciding, !.approved = deciding]
  <1>1. ib = InboxLoaded(items, text, doubt, deciding) /\ yes \in BOOLEAN /\ yes
    BY DEF InboxLoaded
  <1>2. sel \in {0} \cup Proposals /\ NoInbox \in AnyInbox
    BY FirstProposal, NoPages
  <1> HIDE DEF yes, sel
  <1>3. /\ ib \in AnyInbox /\ ib.open = yes /\ ib.status = NoInbox.status /\ ib.items = items
        /\ ib.text = text /\ ib.doubt = doubt /\ ib.miscounted = deciding
        /\ ib.approved = deciding
    BY <1>1, <1>2 DEF AnyInbox
  <1> HIDE DEF ib
  <1> QED BY <1>1, <1>3, NoPages

\* The desktop's page opens with what is pending on the server.
LEMMA InboxOpenedSafe ==
  ASSUME InboxInv, NEW p \in posts, NEW failed \in BOOLEAN, InboxOpened(p, failed)
  PROVE  InboxInv'
  <1>1. p.kind = "open" /\ ~p.narrow /\ UNCHANGED <<verdicts, wording, folder, routerVars>>
    BY DEF InboxOpened
  <1>2. CASE ~p.own
    BY <1>1, <1>2, Ignored DEF InboxOpened
  <1>3. CASE p.own
    <2> DEFINE items == IF failed THEN <<>> ELSE Matching("pending")
               doubt == failed \/ Deciding
               deciding == Deciding
               no == FALSE
               none == "none"
               counting == "counts"
               zero == 0
               n == Post(p.id, no, counting, zero, none, no)
               ps == posts \ {p}
    <2>1. /\ inbox' = InboxLoaded(items, wording, doubt, deciding)
          /\ posts' = ps \cup {n}
      BY <1>3 DEF InboxOpened, InboxLoaded
    <2>2. /\ verdicts \in [Proposals -> Statuses] /\ wording \in {0} \cup Rewrites
          /\ p.id \in 1..MaxPosts
      BY DEF InboxInv, InboxFull, PostOK, AnyPost
    <2>3. items \in Copies /\ (~failed => items = ServerList(verdicts, "pending"))
      BY <2>2, NothingCopied, ListingCopy, ServerLists
    <2>4. doubt \in BOOLEAN /\ deciding \in BOOLEAN
      BY DEF Deciding
    <2> HIDE DEF items
    <2>5. /\ inbox' \in AnyInbox /\ inbox'.open /\ inbox'.status = "pending"
          /\ inbox'.items = items /\ inbox'.text = wording /\ inbox'.doubt = doubt
          /\ inbox'.miscounted = deciding /\ inbox'.approved = deciding
      <3> HIDE DEF doubt, deciding
      <3> QED BY <2>1, <2>2, <2>3, <2>4, FirstLoad
    <2>6. /\ \A q \in ps : PostOK(q)
          /\ \A q, o \in ps : q.id = o.id => q = o
          /\ \A q \in ps : q.id # p.id
          /\ \A q \in ps : ~q.own
          /\ ~folder.open
      BY <1>1, <1>3 DEF InboxInv, InboxFull, OnePage, Opening
    <2>7. no \in BOOLEAN /\ ~no /\ counting \in PostKinds /\ zero \in {0} \cup Proposals
          /\ none \in Statuses \cup {"all", "none"} /\ counting = "counts"
      BY DEF PostKinds
    <2> HIDE DEF ps, no, counting, none, zero
    <2>8. n \in AnyPost /\ n.id = p.id /\ n.own /\ n.kind = counting /\ n.narrow = no
      BY <2>2, <2>7, PostFields
    <2> HIDE DEF n
    <2>9. PostOK(n) /\ \A q \in ps : q.id # n.id
      BY <2>6, <2>7, <2>8 DEF PostOK
    <2>10. /\ \A q \in posts' : PostOK(q)
           /\ \A q, o \in posts' : q.id = o.id => q = o
           /\ Banished(posts') => Banished(ps)
           /\ \A kinds : /\ n.kind \in kinds => OwnPosts(posts', kinds) = OwnPosts(ps, kinds) \cup {n}
                         /\ n.kind \notin kinds => OwnPosts(posts', kinds) = OwnPosts(ps, kinds)
      BY <2>1, <2>6, <2>8, <2>9, PostAdded
    <2>11. \A kinds : OwnPosts(ps, kinds) = {}
      BY <2>6 DEF OwnPosts
    <2>12. Banished(ps) => Deciding
      BY DEF ps, Banished, Deciding
    <2>13. InboxFull'
      BY <1>1, <2>5, <2>10 DEF InboxInv, InboxFull
    <2>14. OnePage(inbox', folder', posts')
      BY <1>1, <2>1, <2>6, <2>7, <2>8 DEF OnePage, Opening
    <2>15. ListedSound(inbox', posts', ServerList(verdicts', inbox'.status))
      BY <1>1, <2>3, <2>5, <2>7, <2>8, <2>10, <2>11, <2>12 DEF ListedSound, ListLoads
    <2>16. CountedSound(inbox', posts', ServerTally(verdicts'))
      BY <2>5, <2>7, <2>8, <2>10, <2>11, <2>12 DEF CountedSound, Counters
    <2>17. TextSound(inbox', posts', wording')
      BY <1>1, <2>5, <2>7, <2>8, <2>10, <2>11, <2>12 DEF TextSound
    <2>18. ~folder'.open
      BY <1>1, <2>6
    <2> QED BY <2>13, <2>14, <2>15, <2>16, <2>17, <2>18, FolderShut DEF InboxInv
  <1> QED BY <1>2, <1>3

FolderLoaded(seen, detail, doubt) ==
  [NoFolder EXCEPT !.open = TRUE, !.seen = seen, !.detail = detail, !.doubt = doubt]

LEMMA FolderLoad ==
  ASSUME NEW seen \in Copies, NEW detail \in {0} \cup Proposals, NEW doubt \in BOOLEAN
  PROVE  LET fd == FolderLoaded(seen, detail, doubt) IN
         fd \in AnyFolder /\ fd.open /\ fd.seen = seen /\ fd.doubt = doubt
  <1> DEFINE yes == TRUE
             fd == [NoFolder EXCEPT !.open = yes, !.seen = seen, !.detail = detail,
                                    !.doubt = doubt]
  <1>1. fd = FolderLoaded(seen, detail, doubt) /\ yes \in BOOLEAN /\ yes
    BY DEF FolderLoaded
  <1>2. NoFolder \in AnyFolder
    BY NoPages
  <1> HIDE DEF yes
  <1>3. fd \in AnyFolder /\ fd.open = yes /\ fd.seen = seen /\ fd.doubt = doubt
    BY <1>1, <1>2 DEF AnyFolder
  <1> HIDE DEF fd
  <1> QED BY <1>1, <1>3

\* The phone's page opens with the server's copy.
LEMMA FolderOpenedSafe ==
  ASSUME InboxInv, NEW p \in posts, NEW failed \in BOOLEAN, FolderOpened(p, failed)
  PROVE  InboxInv'
  <1>1. /\ p.kind = "open" /\ p.narrow /\ posts' = posts \ {p}
        /\ UNCHANGED <<verdicts, wording, inbox>>
    BY DEF FolderOpened
  <1>2. CASE ~p.own
    BY <1>1, <1>2, Ignored DEF FolderOpened
  <1>3. CASE p.own
    <2> DEFINE seen == IF failed THEN <<>> ELSE verdicts
               detail == IF p.r \in DOMAIN seen THEN p.r ELSE 0
               doubt == failed \/ Deciding
    <2>1. /\ folder' = FolderLoaded(seen, detail, doubt)
          /\ Paint("requests", TRUE)
      BY <1>3 DEF FolderOpened, FolderLoaded
    <2>2. verdicts \in [Proposals -> Statuses] /\ p.r \in {0} \cup Proposals
      BY DEF InboxInv, InboxFull, PostOK, AnyPost
    <2>3. seen \in Copies /\ detail \in {0} \cup Proposals /\ (~failed => seen = verdicts)
      BY <2>2, NothingCopied, VerdictsCopy
    <2>4. doubt \in BOOLEAN
      BY DEF Deciding
    <2> HIDE DEF seen, detail
    <2>5. folder' \in AnyFolder /\ folder'.open /\ folder'.seen = seen /\ folder'.doubt = doubt
      <3> HIDE DEF doubt
      <3> QED BY <2>1, <2>3, <2>4, FolderLoad
    <2>6. /\ \A q \in posts' : PostOK(q) /\ ~q.own
          /\ \A q, o \in posts' : q.id = o.id => q = o
          /\ ~inbox.open
      BY <1>1, <1>3 DEF InboxInv, InboxFull, OnePage, Opening
    <2>7. InboxFull' /\ OnePage(inbox', folder', posts')
      BY <1>1, <2>5, <2>6 DEF InboxInv, InboxFull, OnePage, Opening
    <2>8. Banished(posts') => Deciding
      BY <1>1 DEF Banished, Deciding
    <2>9. CopyKnown(folder', posts') /\ CopySound(folder', verdicts')
      BY <1>1, <2>3, <2>5, <2>8 DEF CopyKnown, CopySound
    <2>10. shown'.narrow /\ shown'.page \in LateScreens
      BY <2>1, PaintedLate DEF LateScreens
    <2>11. ~inbox'.open
      BY <1>1, <2>6
    <2> QED BY <2>7, <2>9, <2>10, <2>11, InboxShut DEF InboxInv, FolderPlaced
  <1> QED BY <1>2, <1>3

(***************************************************************************)
(* The user of the pages.                                                  *)
(***************************************************************************)
LEMMA SentPost ==
  ASSUME InboxInv, NEW narrow \in BOOLEAN, NEW kind \in PostKinds, NEW r \in {0} \cup Proposals,
         NEW what \in Statuses \cup {"all", "none"}, NEW row \in BOOLEAN,
         SendPost(narrow, kind, r, what, row)
  PROVE  \E n \in AnyPost :
           /\ posts' = posts \cup {n} /\ \A q \in posts : q.id # n.id
           /\ n.narrow = narrow /\ n.own /\ n.kind = kind /\ n.r = r /\ n.what = what
  <1> DEFINE id == CHOOSE i \in FreePosts : TRUE
             n == Post(id, narrow, kind, r, what, row)
  <1>1. posts' = posts \cup {n} /\ FreePosts # {}
    BY DEF SendPost
  <1>2. id \in 1..MaxPosts /\ \A q \in posts : q.id # id
    BY <1>1, FreshPost
  <1> HIDE DEF id
  <1>3. n \in AnyPost /\ n.id = id /\ n.narrow = narrow /\ n.own /\ n.kind = kind /\ n.r = r /\ n.what = what
    BY <1>2, PostFields
  <1> HIDE DEF n
  <1> QED BY <1>1, <1>2, <1>3

\* A page sends a request that does not open one.
LEMMA PageAsks ==
  ASSUME InboxInv, NEW narrow \in BOOLEAN, NEW kind \in PostKinds \ PageKinds,
         NEW r \in {0} \cup Proposals, NEW what \in Statuses \cup {"all", "none"},
         NEW row \in BOOLEAN, SendPost(narrow, kind, r, what, row),
         kind = "verdict" => r \in Proposals /\ what \in {"approved", "rejected"},
         kind \in {"list", "relist", "counts"} => ~narrow,
         narrow => folder.open, ~narrow => inbox.open
  PROVE  \E n \in posts' :
           /\ \A q \in posts' : PostOK(q)
           /\ \A q, o \in posts' : q.id = o.id => q = o
           /\ OnePage(inbox, folder, posts')
           /\ Banished(posts') => Banished(posts)
           /\ n.kind = kind /\ n.what = what
           /\ \A kinds : /\ kind \in kinds => OwnPosts(posts', kinds) = OwnPosts(posts, kinds) \cup {n}
                         /\ kind \notin kinds => OwnPosts(posts', kinds) = OwnPosts(posts, kinds)
  <1>1. kind \in PostKinds /\ kind \notin PageKinds
    OBVIOUS
  <1>2. PICK n \in AnyPost :
           /\ posts' = posts \cup {n} /\ \A q \in posts : q.id # n.id
           /\ n.narrow = narrow /\ n.own /\ n.kind = kind /\ n.r = r /\ n.what = what
    BY <1>1, SentPost
  <1>3. PostOK(n)
    BY <1>2 DEF PostOK
  <1>4. OnePage(inbox, folder, posts) /\ (inbox.open => ~narrow) /\ (folder.open => narrow)
    BY DEF InboxInv, OnePage
  <1>5. OnePage(inbox, folder, posts \cup {n})
    BY <1>1, <1>2, <1>4, PageSends
  <1>6. (\A q \in posts : PostOK(q)) /\ \A q, o \in posts : q.id = o.id => q = o
    BY DEF InboxInv, InboxFull
  <1>7. /\ \A q \in posts' : PostOK(q)
        /\ \A q, o \in posts' : q.id = o.id => q = o
        /\ Banished(posts') => Banished(posts)
        /\ \A kinds : /\ n.kind \in kinds => OwnPosts(posts', kinds) = OwnPosts(posts, kinds) \cup {n}
                      /\ n.kind \notin kinds => OwnPosts(posts', kinds) = OwnPosts(posts, kinds)
    <2>1. n.own /\ (\A q \in posts : q.id # n.id) /\ posts' = posts \cup {n}
      BY <1>2
    <2> QED BY ONLY <1>3, <1>6, <2>1 DEF Banished, OwnPosts
  <1> QED BY <1>2, <1>5, <1>7

\* The desktop's page moves while the server and the phone's page stay.
LEMMA InboxMoved ==
  ASSUME InboxInv, UNCHANGED <<verdicts, wording, folder, routerVars>>, inbox' \in AnyInbox,
         inbox'.open = inbox.open, \A q \in posts' : PostOK(q),
         \A q, o \in posts' : q.id = o.id => q = o, OnePage(inbox, folder, posts'),
         Banished(posts') => Banished(posts),
         ListedSound(inbox', posts', ServerList(verdicts, inbox'.status)),
         CountedSound(inbox', posts', ServerTally(verdicts)),
         TextSound(inbox', posts', wording)
  PROVE  InboxInv'
  <1>1. InboxFull'
    BY DEF InboxInv, InboxFull
  <1>2. OnePage(inbox', folder', posts')
    BY PageStays
  <1>3. Leaving' = Leaving /\ shown' = shown
    BY RouterKept
  <1>4. /\ CopyKnown(folder', posts')
        /\ CopySound(folder', verdicts') \/ Leaving'
        /\ FolderPlaced(folder', shown')
    BY <1>3, FolderKept DEF InboxInv
  <1>5. /\ ListedSound(inbox', posts', ServerList(verdicts', inbox'.status))
        /\ CountedSound(inbox', posts', ServerTally(verdicts'))
        /\ TextSound(inbox', posts', wording')
    OBVIOUS
  <1> QED BY <1>1, <1>2, <1>4, <1>5 DEF InboxInv

\* What the load of the list leaves in doubt.
LEMMA Loads == \A kinds : OnTheWay(kinds) <=> OwnPosts(posts, kinds) # {}
  BY DEF OnTheWay, OwnPosts

LEMMA AbroadBanished == Abroad <=> Banished(posts)
  BY DEF Abroad, Banished

LEMMA ChooseStatusSafe ==
  ASSUME InboxInv, NEW status \in Statuses \cup {"all"}, ChooseStatus(status)
  PROVE  InboxInv'
  <1> DEFINE doubt == OnTheWay({"list", "relist"}) \/ Abroad
             no == FALSE
             zero == 0
             kind == "list"
  <1>1. /\ inbox.open /\ inbox' = StatusOf(inbox, status, doubt)
        /\ SendPost(no, kind, zero, status, no)
        /\ UNCHANGED <<verdicts, wording, folder, routerVars>>
    BY DEF ChooseStatus, OnInbox, StatusOf
  <1>2. /\ no \in BOOLEAN /\ ~no /\ zero \in {0} \cup Proposals
        /\ status \in Statuses \cup {"all", "none"} /\ kind \in PostKinds \ PageKinds
        /\ kind \in ListLoads /\ kind \notin Counters /\ kind \notin {"verdict"} /\ kind # "verdict"
    BY DEF PostKinds, PageKinds, ListLoads, Counters
  <1>3. doubt \in BOOLEAN
    BY DEF OnTheWay, Abroad
  <1>4. ~doubt => OwnPosts(posts, ListLoads) = {} /\ ~Banished(posts)
    BY Loads, AbroadBanished DEF ListLoads
  <1> HIDE DEF doubt, no, zero, kind
  <1>5. PICK n \in posts' :
           /\ \A q \in posts' : PostOK(q)
           /\ \A q, o \in posts' : q.id = o.id => q = o
           /\ OnePage(inbox, folder, posts')
           /\ Banished(posts') => Banished(posts)
           /\ n.kind = kind /\ n.what = status
           /\ \A kinds : /\ kind \in kinds => OwnPosts(posts', kinds) = OwnPosts(posts, kinds) \cup {n}
                         /\ kind \notin kinds => OwnPosts(posts', kinds) = OwnPosts(posts, kinds)
    BY <1>1, <1>2, PageAsks
  <1>6. inbox \in AnyInbox
    BY DEF InboxInv, InboxFull
  <1>7. /\ inbox' \in AnyInbox /\ inbox'.open = inbox.open /\ inbox'.status = status
        /\ inbox'.doubt = doubt /\ inbox'.counts = inbox.counts
        /\ inbox'.miscounted = inbox.miscounted /\ inbox'.text = inbox.text
        /\ inbox'.approved = inbox.approved
    BY <1>1, <1>3, <1>6 DEF StatusOf, AnyInbox
  <1>8. ListedSound(inbox', posts', ServerList(verdicts, inbox'.status))
    BY <1>2, <1>4, <1>5, <1>7 DEF ListedSound
  <1>9. CountedSound(inbox', posts', ServerTally(verdicts))
    BY <1>2, <1>5, <1>7 DEF InboxInv, CountedSound
  <1>10. TextSound(inbox', posts', wording)
    BY <1>2, <1>5, <1>7 DEF InboxInv, TextSound
  <1> QED BY <1>1, <1>5, <1>7, <1>8, <1>9, <1>10, InboxMoved

LEMMA SelectSafe ==
  ASSUME InboxInv, NEW r \in Proposals, SelectProposal(r)
  PROVE  InboxInv'
  <1>1. /\ inbox' = ChosenOf(inbox, r) /\ posts' = posts
        /\ UNCHANGED <<verdicts, wording, folder, routerVars>>
    BY DEF SelectProposal, ChosenOf
  <1>2. inbox \in AnyInbox /\ r \in {0} \cup Proposals
    BY DEF InboxInv, InboxFull
  <1>3. /\ inbox' \in AnyInbox /\ inbox'.open = inbox.open /\ inbox'.status = inbox.status
        /\ inbox'.items = inbox.items /\ inbox'.doubt = inbox.doubt
        /\ inbox'.counts = inbox.counts /\ inbox'.miscounted = inbox.miscounted
        /\ inbox'.text = inbox.text /\ inbox'.approved = inbox.approved
    BY <1>1, <1>2 DEF ChosenOf, AnyInbox
  <1>4. ListedSound(inbox', posts', ServerList(verdicts, inbox'.status))
    BY <1>1, <1>3 DEF InboxInv, ListedSound
  <1>5. CountedSound(inbox', posts', ServerTally(verdicts))
    BY <1>1, <1>3 DEF InboxInv, CountedSound
  <1>6. TextSound(inbox', posts', wording)
    BY <1>1, <1>3 DEF InboxInv, TextSound
  <1>7. /\ \A q \in posts' : PostOK(q)
        /\ \A q, o \in posts' : q.id = o.id => q = o
        /\ OnePage(inbox, folder, posts') /\ (Banished(posts') => Banished(posts))
    BY <1>1 DEF InboxInv, InboxFull
  <1> QED BY <1>1, <1>3, <1>4, <1>5, <1>6, <1>7, InboxMoved

LEMMA DecideOnSafe ==
  ASSUME InboxInv, NEW decision \in {"approved", "rejected"}, DecideOnCR(decision)
  PROVE  InboxInv'
  <1> DEFINE approved == inbox.approved \/ decision = "approved"
             no == FALSE
             kind == "verdict"
             r == inbox.sel
  <1>1. /\ inbox.open /\ inbox.sel # 0 /\ inbox' = ApprovedOf(inbox, approved)
        /\ SendPost(no, kind, r, decision, no)
        /\ UNCHANGED <<verdicts, wording, folder, routerVars>>
    BY DEF DecideOnCR, OnInbox, ApprovedOf
  <1>2. inbox \in AnyInbox /\ inbox.sel \in {0} \cup Proposals
    BY DEF InboxInv, InboxFull, AnyInbox
  <1>3. /\ no \in BOOLEAN /\ ~no /\ r \in {0} \cup Proposals /\ r \in Proposals
        /\ decision \in Statuses \cup {"all", "none"} /\ kind \in PostKinds \ PageKinds
        /\ kind \notin ListLoads /\ kind \notin Counters /\ kind \in {"verdict"}
    BY <1>1, <1>2 DEF PostKinds, PageKinds, ListLoads, Counters, Statuses
  <1>4. approved \in BOOLEAN
    BY <1>2 DEF AnyInbox
  <1> HIDE DEF approved, no, kind, r
  <1>5. PICK n \in posts' :
           /\ \A q \in posts' : PostOK(q)
           /\ \A q, o \in posts' : q.id = o.id => q = o
           /\ OnePage(inbox, folder, posts')
           /\ Banished(posts') => Banished(posts)
           /\ n.kind = kind /\ n.what = decision
           /\ \A kinds : /\ kind \in kinds => OwnPosts(posts', kinds) = OwnPosts(posts, kinds) \cup {n}
                         /\ kind \notin kinds => OwnPosts(posts', kinds) = OwnPosts(posts, kinds)
    BY <1>1, <1>3, PageAsks
  <1>7. /\ inbox' \in AnyInbox /\ inbox'.open = inbox.open /\ inbox'.status = inbox.status
        /\ inbox'.items = inbox.items /\ inbox'.doubt = inbox.doubt
        /\ inbox'.counts = inbox.counts /\ inbox'.miscounted = inbox.miscounted
        /\ inbox'.text = inbox.text /\ inbox'.approved = approved
    BY <1>1, <1>2, <1>4 DEF ApprovedOf, AnyInbox
  <1>8. ListedSound(inbox', posts', ServerList(verdicts, inbox'.status))
    BY <1>3, <1>5, <1>7 DEF InboxInv, ListedSound
  <1>9. CountedSound(inbox', posts', ServerTally(verdicts))
    BY <1>3, <1>5, <1>7 DEF InboxInv, CountedSound
  <1>10. TextSound(inbox', posts', wording)
    <2>1. OwnPosts(posts', {"verdict"}) = OwnPosts(posts, {"verdict"}) \cup {n}
      BY <1>3, <1>5
    <2>2. ~approved => ~inbox.approved /\ n.what # "approved"
      BY <1>5 DEF approved
    <2> QED BY <1>5, <1>7, <2>1, <2>2 DEF InboxInv, TextSound
  <1> QED BY <1>1, <1>5, <1>7, <1>8, <1>9, <1>10, InboxMoved

(***************************************************************************)
(* Lists and counts that arrive.                                           *)
(***************************************************************************)
LEMMA CountedSafe ==
  ASSUME InboxInv, NEW p \in posts, NEW failed \in SUBSET Statuses, InboxCounted(p, failed)
  PROVE  InboxInv'
  <1> DEFINE tally == [v \in Statuses |-> IF v \in failed THEN 0 ELSE Counted[v]]
             miscounted == inbox.miscounted \/ failed # {}
             ps == posts \ {p}
  <1>1. /\ p.kind = "counts" /\ posts' = ps
        /\ inbox' = IF ~p.own THEN inbox ELSE CountsOf(inbox, tally, miscounted)
        /\ UNCHANGED <<verdicts, wording, folder, routerVars>>
    BY DEF InboxCounted, CountsOf
  <1>2. CASE ~p.own
    BY <1>1, <1>2, Ignored
  <1>3. CASE p.own
    <2>1. inbox \in AnyInbox /\ verdicts \in [Proposals -> Statuses]
      BY DEF InboxInv, InboxFull
    <2>2. tally \in Tallies
      BY <2>1, ServerLists, TallyCounts, SomeTallies
    <2>3. failed = {} => tally = ServerTally(verdicts)
      <3>1. failed = {} => tally = [v \in Statuses |-> Counted[v]]
        OBVIOUS
      <3>2. Counted = [v \in Statuses |-> Counted[v]]
        BY DEF Counted
      <3> QED BY <3>1, <3>2, ServerLists
    <2>4. miscounted \in BOOLEAN
      BY <2>1 DEF AnyInbox
    <2> HIDE DEF tally, miscounted
    <2>5. inbox' = CountsOf(inbox, tally, miscounted)
      BY <1>1, <1>3
    <2>6. /\ inbox' \in AnyInbox /\ inbox'.open = inbox.open /\ inbox'.status = inbox.status
          /\ inbox'.items = inbox.items /\ inbox'.doubt = inbox.doubt /\ inbox'.counts = tally
          /\ inbox'.miscounted = miscounted /\ inbox'.text = inbox.text
          /\ inbox'.approved = inbox.approved
      BY <2>1, <2>2, <2>4, <2>5 DEF CountsOf, AnyInbox
    <2>7. /\ \A q \in ps : PostOK(q)
          /\ \A q, o \in ps : q.id = o.id => q = o
          /\ OnePage(inbox, folder, ps)
          /\ Banished(ps) => Banished(posts)
          /\ \A kinds : OwnPosts(ps, kinds) = OwnPosts(posts, kinds) \ {p}
      BY PostGone
    <2>8. /\ OwnPosts(ps, ListLoads) = OwnPosts(posts, ListLoads)
          /\ OwnPosts(ps, {"verdict"}) = OwnPosts(posts, {"verdict"})
      BY <1>1 DEF OwnPosts, ListLoads
    <2> HIDE DEF ps
    <2>9. ListedSound(inbox', posts', ServerList(verdicts, inbox'.status))
      BY <1>1, <2>6, <2>7, <2>8 DEF InboxInv, ListedSound
    <2>10. CountedSound(inbox', posts', ServerTally(verdicts))
      BY <1>1, <2>3, <2>6, <2>7 DEF InboxInv, CountedSound, miscounted
    <2>11. TextSound(inbox', posts', wording)
      BY <1>1, <2>6, <2>7, <2>8 DEF InboxInv, TextSound
    <2> QED BY <1>1, <2>6, <2>7, <2>9, <2>10, <2>11, InboxMoved
  <1> QED BY <1>2, <1>3

\* The request that takes the place of one that was answered.
FollowUp(p, kind, what) ==
  posts' = (posts \ {p}) \cup {Post(p.id, FALSE, kind, 0, what, FALSE)}

LEMMA CountsAsked ==
  ASSUME InboxInv, NEW p \in posts, p.own, p.kind \notin PageKinds, ~p.narrow,
         NEW kind \in {"counts", "relist"}, NEW what \in Statuses \cup {"all", "none"},
         FollowUp(p, kind, what)
  PROVE  \E n \in posts' :
           /\ \A q \in posts' : PostOK(q)
           /\ \A q, o \in posts' : q.id = o.id => q = o
           /\ OnePage(inbox, folder, posts')
           /\ Banished(posts') => Banished(posts)
           /\ n.kind = kind /\ n.what = what
           /\ \A kinds : /\ kind \in kinds =>
                              OwnPosts(posts', kinds) = (OwnPosts(posts, kinds) \ {p}) \cup {n}
                         /\ kind \notin kinds => OwnPosts(posts', kinds) = OwnPosts(posts, kinds) \ {p}
  <1> DEFINE no == FALSE
             zero == 0
             id == p.id
             n == Post(id, no, kind, zero, what, no)
             ps == posts \ {p}
  <1>1. posts' = ps \cup {n}
    BY DEF FollowUp
  <1>2. /\ \A q \in ps : PostOK(q) /\ q.id # id
        /\ \A q, o \in ps : q.id = o.id => q = o
        /\ OnePage(inbox, folder, ps)
        /\ Banished(ps) => Banished(posts)
        /\ \A kinds : OwnPosts(ps, kinds) = OwnPosts(posts, kinds) \ {p}
    BY PostGone DEF InboxInv, InboxFull
  <1>3. \A q \in ps : q.own => q.kind \notin PageKinds
    BY NoneOpening DEF InboxInv
  <1>4. ~folder.open
    BY DEF InboxInv, OnePage
  <1>5. /\ no \in BOOLEAN /\ ~no /\ zero \in {0} \cup Proposals /\ kind \in PostKinds
        /\ kind \notin PageKinds /\ kind # "verdict" /\ id \in 1..MaxPosts
    BY DEF PostKinds, PageKinds, InboxInv, InboxFull, PostOK, AnyPost
  <1> HIDE DEF ps, no, zero, id
  <1>6. /\ n \in AnyPost /\ n.id = id /\ n.narrow = no /\ n.own /\ n.kind = kind
        /\ n.what = what
    BY <1>5, PostFields
  <1> HIDE DEF n
  <1>7. PostOK(n)
    BY <1>5, <1>6 DEF PostOK
  <1>8. OnePage(inbox, folder, posts')
    <2>1. OnePage(inbox, folder, ps \cup {n})
      BY <1>2, <1>3, <1>4, <1>5, <1>6, PageSends
    <2> QED BY <1>1, <2>1
  <1>9. /\ \A q \in posts' : PostOK(q)
        /\ \A q, o \in posts' : q.id = o.id => q = o
        /\ Banished(posts') => Banished(ps)
        /\ \A kinds : /\ n.kind \in kinds => OwnPosts(posts', kinds) = OwnPosts(ps, kinds) \cup {n}
                      /\ n.kind \notin kinds => OwnPosts(posts', kinds) = OwnPosts(ps, kinds)
    <2>1. (\A q \in ps : PostOK(q)) /\ n.own /\ \A q \in ps : q.id # n.id
      BY <1>2, <1>6
    <2> QED BY ONLY <1>1, <1>2, <1>7, <2>1 DEF Banished, OwnPosts
  <1> QED BY <1>1, <1>2, <1>6, <1>8, <1>9

LEMMA ListArrivedSafe ==
  ASSUME InboxInv, NEW p \in posts, NEW failed \in BOOLEAN, InboxListed(p, failed)
  PROVE  InboxInv'
  <1> DEFINE items == IF failed THEN <<>> ELSE Matching(p.what)
             sel == Foremost(items)
             again == p.own /\ p.kind = "relist"
             doubt == inbox.doubt \/ failed
             miscounted == IF again THEN OnTheWay({"counts"}) \/ Abroad ELSE inbox.miscounted
  <1>1. /\ p.kind \in ListLoads
        /\ inbox' = IF ~p.own THEN inbox ELSE ItemsOf(inbox, items, sel, doubt, miscounted)
        /\ posts' = (posts \ {p}) \cup IF again THEN {Post(p.id, FALSE, "counts", 0, "none", FALSE)}
                                       ELSE {}
        /\ UNCHANGED <<verdicts, wording, folder, routerVars>>
    BY DEF InboxListed, ItemsOf, ListLoads
  <1>2. CASE ~p.own
    BY <1>1, <1>2, Ignored
  <1>3. CASE p.own
    <2>1. inbox \in AnyInbox /\ verdicts \in [Proposals -> Statuses]
      BY DEF InboxInv, InboxFull
    <2>2. items \in Copies /\ (~failed => items = ServerList(verdicts, p.what))
      BY <2>1, NothingCopied, ListingCopy, ServerLists
    <2> HIDE DEF items
    <2>3. sel \in {0} \cup Proposals
      BY <2>2, FirstProposal
    <2>4. doubt \in BOOLEAN /\ miscounted \in BOOLEAN
      BY <2>1 DEF AnyInbox, OnTheWay, Abroad
    <2>5. again => (~miscounted => ~Banished(posts))
      BY AbroadBanished
    <2>6. ~again => miscounted = inbox.miscounted
      OBVIOUS
    <2>7. doubt = (inbox.doubt \/ failed)
      OBVIOUS
    <2> HIDE DEF sel, doubt, miscounted
    <2>8. inbox' = ItemsOf(inbox, items, sel, doubt, miscounted)
      BY <1>1, <1>3
    <2>9. /\ inbox' \in AnyInbox /\ inbox'.open = inbox.open /\ inbox'.status = inbox.status
          /\ inbox'.items = items /\ inbox'.doubt = doubt /\ inbox'.counts = inbox.counts
          /\ inbox'.miscounted = miscounted /\ inbox'.text = inbox.text
          /\ inbox'.approved = inbox.approved
      BY <2>1, <2>2, <2>3, <2>4, <2>8 DEF ItemsOf, AnyInbox
    <2>10. p \in OwnPosts(posts, ListLoads) /\ p.kind \notin {"verdict"} /\ p.kind \notin PageKinds
      BY <1>1, <1>3 DEF OwnPosts, ListLoads, PageKinds
    <2>11. OwnPosts(posts, {"verdict"}) \ {p} = OwnPosts(posts, {"verdict"})
      BY <2>10 DEF OwnPosts
    <2>12. ASSUME Banished(posts') => Banished(posts),
                  OwnPosts(posts', ListLoads) = OwnPosts(posts, ListLoads) \ {p},
                  OwnPosts(posts', {"verdict"}) = OwnPosts(posts, {"verdict"})
           PROVE  /\ ListedSound(inbox', posts', ServerList(verdicts, inbox'.status))
                  /\ TextSound(inbox', posts', wording)
      <3>1. ListedSound(inbox', posts', ServerList(verdicts, inbox'.status))
        <4> SUFFICES ASSUME inbox'.open, ~inbox'.doubt
                     PROVE  /\ ~Banished(posts') /\ OwnPosts(posts', ListLoads) = {}
                            /\ inbox'.items = ServerList(verdicts, inbox'.status)
          BY DEF ListedSound
        <4>1. inbox.open /\ ~inbox.doubt /\ ~failed
          BY <2>7, <2>9
        <4>2. /\ ~Banished(posts) /\ \A a, b \in OwnPosts(posts, ListLoads) : a = b
              /\ \A a \in OwnPosts(posts, ListLoads) : a.what = inbox.status
          BY <4>1 DEF InboxInv, ListedSound
        <4>3. p.what = inbox.status /\ OwnPosts(posts, ListLoads) \ {p} = {}
          BY <2>10, <4>2
        <4> QED BY <2>2, <2>9, <2>12, <4>1, <4>2, <4>3
      <3>2. TextSound(inbox', posts', wording)
        BY <2>9, <2>12 DEF InboxInv, TextSound
      <3> QED BY <3>1, <3>2
    <2>13. CASE ~again
      <3> DEFINE ps == posts \ {p}
      <3>1. posts' = ps /\ p.kind \notin Counters
        BY <1>1, <1>3, <2>13 DEF Counters, ListLoads
      <3>2. /\ \A q \in ps : PostOK(q)
            /\ \A q, o \in ps : q.id = o.id => q = o
            /\ OnePage(inbox, folder, ps)
            /\ Banished(ps) => Banished(posts)
            /\ \A kinds : OwnPosts(ps, kinds) = OwnPosts(posts, kinds) \ {p}
        BY PostGone
      <3>3. OwnPosts(ps, Counters) = OwnPosts(posts, Counters)
        BY <3>1 DEF OwnPosts
      <3> HIDE DEF ps
      <3>4. CountedSound(inbox', posts', ServerTally(verdicts))
        BY <2>6, <2>9, <2>13, <3>1, <3>2, <3>3 DEF InboxInv, CountedSound
      <3> HIDE DEF again
      <3>5. /\ ListedSound(inbox', posts', ServerList(verdicts, inbox'.status))
            /\ TextSound(inbox', posts', wording)
        BY <2>11, <2>12, <3>1, <3>2
      <3> QED BY <1>1, <2>9, <3>1, <3>2, <3>4, <3>5, InboxMoved
    <2>14. CASE again
      <3> DEFINE counting == "counts"
                 none == "none"
      <3>1. /\ FollowUp(p, counting, none)
            /\ counting \in {"counts", "relist"} /\ none \in Statuses \cup {"all", "none"}
            /\ counting \notin ListLoads /\ counting \in Counters /\ counting \notin {"verdict"}
        BY <1>1, <2>14 DEF ListLoads, Counters, FollowUp
      <3> HIDE DEF counting, none
      <3>2. ~p.narrow
        BY <1>1 DEF ListLoads, InboxInv, InboxFull, PostOK
      <3>3. PICK n \in posts' :
               /\ \A q \in posts' : PostOK(q)
               /\ \A q, o \in posts' : q.id = o.id => q = o
               /\ OnePage(inbox, folder, posts')
               /\ Banished(posts') => Banished(posts)
               /\ n.kind = counting /\ n.what = none
               /\ \A kinds : /\ counting \in kinds =>
                                  OwnPosts(posts', kinds) = (OwnPosts(posts, kinds) \ {p}) \cup {n}
                             /\ counting \notin kinds =>
                                  OwnPosts(posts', kinds) = OwnPosts(posts, kinds) \ {p}
        BY <1>3, <2>10, <3>1, <3>2, CountsAsked
      <3>4. CountedSound(inbox', posts', ServerTally(verdicts))
        BY <2>5, <2>9, <2>14, <3>1, <3>3 DEF CountedSound
      <3> HIDE DEF again
      <3>5. /\ ListedSound(inbox', posts', ServerList(verdicts, inbox'.status))
            /\ TextSound(inbox', posts', wording)
        BY <2>11, <2>12, <3>1, <3>3
      <3> QED BY <1>1, <2>9, <3>3, <3>4, <3>5, InboxMoved
    <2> QED BY <2>13, <2>14
  <1> QED BY <1>2, <1>3

(***************************************************************************)
(* The phone's page.                                                       *)
(***************************************************************************)
\* It moves while the desktop's is closed.
LEMMA FolderMoved ==
  ASSUME InboxInv, ~inbox.open, inbox' = inbox, verdicts' \in [Proposals -> Statuses],
         wording' \in {0} \cup Rewrites, shown' = shown, folder' \in AnyFolder,
         folder'.open = folder.open, \A q \in posts' : PostOK(q),
         \A q, o \in posts' : q.id = o.id => q = o, OnePage(inbox, folder, posts'),
         CopyKnown(folder', posts'), CopySound(folder', verdicts') \/ Leaving'
  PROVE  InboxInv'
  <1>1. InboxFull'
    BY DEF InboxInv, InboxFull
  <1>2. OnePage(inbox', folder', posts')
    BY PageStays
  <1>3. FolderPlaced(folder', shown')
    BY DEF InboxInv, FolderPlaced
  <1>4. /\ ListedSound(inbox', posts', ServerList(verdicts', inbox'.status))
        /\ CountedSound(inbox', posts', ServerTally(verdicts'))
        /\ TextSound(inbox', posts', wording')
    BY InboxShut
  <1> QED BY <1>1, <1>2, <1>3, <1>4 DEF InboxInv

LEMMA FilterSafe ==
  ASSUME InboxInv, NEW status \in Statuses \cup {"all"}, FilterFolder(status)
  PROVE  InboxInv'
  <1>1. /\ folder.open /\ folder' = FilterOf(folder, status)
        /\ UNCHANGED <<verdicts, wording, inbox, posts, routerVars>>
    BY DEF FilterFolder, OnFolder, FilterOf
  <1>2. folder \in AnyFolder /\ ~inbox.open
    BY <1>1 DEF InboxInv, InboxFull, OnePage
  <1>3. /\ folder' \in AnyFolder /\ folder'.open = folder.open /\ folder'.seen = folder.seen
        /\ folder'.doubt = folder.doubt
    BY <1>1, <1>2 DEF FilterOf, AnyFolder
  <1>4. Leaving' = Leaving /\ shown' = shown
    BY <1>1, RouterKept
  <1>5. CopyKnown(folder', posts') /\ (CopySound(folder', verdicts') \/ Leaving')
    BY <1>1, <1>3, <1>4 DEF InboxInv, CopyKnown, CopySound
  <1>6. /\ verdicts' \in [Proposals -> Statuses] /\ wording' \in {0} \cup Rewrites
        /\ \A q \in posts' : PostOK(q)
        /\ \A q, o \in posts' : q.id = o.id => q = o
        /\ OnePage(inbox, folder, posts')
    BY <1>1 DEF InboxInv, InboxFull
  <1> QED BY <1>1, <1>2, <1>3, <1>4, <1>5, <1>6, FolderMoved

LEMMA ApproveSafe ==
  ASSUME InboxInv, NEW r \in Proposals, ApproveOnPhone(r)
  PROVE  InboxInv'
  <1> DEFINE kind == "verdict"
             what == "approved"
  <1>0. folder.open /\ UNCHANGED <<verdicts, wording, inbox, folder, routerVars>>
    BY DEF ApproveOnPhone, OnFolder
  <1>1. PICK yes \in BOOLEAN, row \in BOOLEAN : yes /\ SendPost(yes, kind, r, what, row)
    BY DEF ApproveOnPhone
  <1>2. /\ r \in {0} \cup Proposals
        /\ what \in Statuses \cup {"all", "none"} /\ kind \in PostKinds \ PageKinds
        /\ what \in {"approved", "rejected"} /\ kind \notin {"list", "relist", "counts"}
    BY DEF PostKinds, PageKinds, Statuses
  <1>b. /\ kind = "verdict" => r \in Proposals /\ what \in {"approved", "rejected"}
        /\ kind \in {"list", "relist", "counts"} => ~yes
        /\ yes => folder.open
        /\ ~yes => inbox.open
    BY <1>0, <1>1, <1>2
  <1> HIDE DEF kind, what
  <1>3. /\ \A q \in posts' : PostOK(q)
        /\ \A q, o \in posts' : q.id = o.id => q = o
        /\ OnePage(inbox, folder, posts')
        /\ Banished(posts') => Banished(posts)
    BY <1>1, <1>2, <1>b, PageAsks
  <1>4. folder \in AnyFolder /\ ~inbox.open
    BY <1>0 DEF InboxInv, InboxFull, OnePage
  <1>5. Leaving' = Leaving /\ shown' = shown
    BY <1>0, RouterKept
  <1>6. CopyKnown(folder', posts') /\ (CopySound(folder', verdicts') \/ Leaving')
    BY <1>0, <1>3, <1>5 DEF InboxInv, CopyKnown, CopySound
  <1>7. verdicts' \in [Proposals -> Statuses] /\ wording' \in {0} \cup Rewrites
    BY <1>0 DEF InboxInv, InboxFull
  <1> QED BY <1>0, <1>3, <1>4, <1>5, <1>6, <1>7, FolderMoved

(***************************************************************************)
(* Decisions that were made.                                               *)
(***************************************************************************)
LEMMA RuledGives ==
  ASSUME InboxInv, NEW p \in posts, p.kind = "verdict", Ruled(p)
  PROVE  /\ p.r \in Proposals /\ p.what \in {"approved", "rejected"}
         /\ verdicts' = [verdicts EXCEPT ![p.r] = p.what] /\ verdicts' \in [Proposals -> Statuses]
         /\ wording' \in {0} \cup Rewrites
         /\ p.what # "approved" => wording' = wording
  <1>1. /\ p.r \in Proposals /\ p.what \in {"approved", "rejected"}
        /\ verdicts \in [Proposals -> Statuses] /\ wording \in {0} \cup Rewrites
    BY DEF InboxInv, InboxFull, PostOK
  <1>2. p.what \in Statuses
    BY <1>1 DEF Statuses
  <1> QED BY <1>1, <1>2 DEF Ruled

\* A decision of an earlier visit: everything is in doubt.
LEMMA EarlierVisit ==
  ASSUME InboxInv, Banished(posts), inbox' \in AnyInbox, folder' \in AnyFolder,
         inbox'.open = inbox.open, folder'.open = folder.open, inbox.doubt => inbox'.doubt,
         inbox.miscounted => inbox'.miscounted, inbox.approved => inbox'.approved,
         folder.doubt => folder'.doubt, verdicts' \in [Proposals -> Statuses],
         wording' \in {0} \cup Rewrites, \A q \in posts' : PostOK(q),
         \A q, o \in posts' : q.id = o.id => q = o, OnePage(inbox, folder, posts'), shown' = shown
  PROVE  InboxInv'
  <1>1. InboxFull'
    BY DEF InboxInv, InboxFull
  <1>2. OnePage(inbox', folder', posts')
    BY PageStays
  <1>3. /\ inbox.open => inbox.doubt /\ inbox.miscounted /\ inbox.approved
        /\ folder.open => folder.doubt
    BY DEF InboxInv, ListedSound, CountedSound, TextSound, CopyKnown
  <1>4. /\ ListedSound(inbox', posts', ServerList(verdicts', inbox'.status))
        /\ CountedSound(inbox', posts', ServerTally(verdicts'))
        /\ TextSound(inbox', posts', wording')
    BY <1>3 DEF ListedSound, CountedSound, TextSound
  <1>5. CopyKnown(folder', posts') /\ CopySound(folder', verdicts') /\ FolderPlaced(folder', shown')
    BY <1>3 DEF CopyKnown, CopySound, InboxInv, FolderPlaced
  <1> QED BY <1>1, <1>2, <1>4, <1>5 DEF InboxInv

\* The desktop lists again after its own decision.
LEMMA RelistSafe ==
  ASSUME InboxInv, NEW p \in posts, p.kind = "verdict", p.own, ~p.narrow, VerdictAnswered(p)
  PROVE  InboxInv'
  <1> DEFINE doubt == OnTheWay({"list", "relist"}) \/ Abroad
             kind == "relist"
             what == inbox.status
  <1>1. /\ Ruled(p) /\ FollowUp(p, kind, what) /\ inbox' = DoubtedOf(inbox, doubt)
        /\ folder' = folder /\ UNCHANGED routerVars
    BY DEF VerdictAnswered, FollowUp, Relisted, DoubtedOf, Stay, placeVars, routerVars
  <1>2. inbox \in AnyInbox /\ inbox.status \in Statuses \cup {"all"} /\ ~folder.open
    BY DEF InboxInv, InboxFull, AnyInbox, OnePage
  <1>3. doubt \in BOOLEAN
    BY DEF OnTheWay, Abroad
  <1>4. ~doubt => OwnPosts(posts, ListLoads) = {} /\ ~Banished(posts)
    BY Loads, AbroadBanished DEF ListLoads
  <1>5. /\ kind \in {"counts", "relist"} /\ kind \in ListLoads /\ kind \in Counters
        /\ kind \notin {"verdict"} /\ what \in Statuses \cup {"all", "none"}
        /\ p.kind \notin PageKinds
    BY <1>2 DEF ListLoads, Counters, PageKinds
  <1>6. inbox' \in AnyInbox /\ inbox'.open = inbox.open /\ inbox'.status = what
        /\ inbox'.doubt = doubt /\ inbox'.counts = inbox.counts
        /\ inbox'.miscounted = inbox.miscounted /\ inbox'.text = inbox.text
        /\ inbox'.approved = inbox.approved
    <2> HIDE DEF doubt
    <2> QED BY <1>1, <1>2, <1>3 DEF DoubtedOf, AnyInbox
  <1> HIDE DEF doubt, kind, what
  <1>7. PICK n \in posts' :
           /\ \A q \in posts' : PostOK(q)
           /\ \A q, o \in posts' : q.id = o.id => q = o
           /\ OnePage(inbox, folder, posts')
           /\ Banished(posts') => Banished(posts)
           /\ n.kind = kind /\ n.what = what
           /\ \A kinds : /\ kind \in kinds =>
                              OwnPosts(posts', kinds) = (OwnPosts(posts, kinds) \ {p}) \cup {n}
                         /\ kind \notin kinds => OwnPosts(posts', kinds) = OwnPosts(posts, kinds) \ {p}
    BY <1>1, <1>5, CountsAsked
  <1>8. /\ verdicts' \in [Proposals -> Statuses] /\ wording' \in {0} \cup Rewrites
        /\ p.what # "approved" => wording' = wording
    BY <1>1, RuledGives
  <1>9. InboxFull'
    BY <1>1, <1>6, <1>7, <1>8 DEF InboxInv, InboxFull
  <1>10. OnePage(inbox', folder', posts')
    BY <1>1, <1>6, <1>7, PageStays
  <1>11. ListedSound(inbox', posts', ServerList(verdicts', inbox'.status))
    BY <1>4, <1>5, <1>6, <1>7 DEF ListedSound
  <1>12. CountedSound(inbox', posts', ServerTally(verdicts'))
    BY <1>5, <1>6, <1>7 DEF InboxInv, CountedSound
  <1>13. TextSound(inbox', posts', wording')
    <2>1. p \in OwnPosts(posts, {"verdict"})
      BY DEF OwnPosts
    <2>2. OwnPosts(posts', {"verdict"}) = OwnPosts(posts, {"verdict"}) \ {p}
      BY <1>5, <1>7
    <2> QED BY <1>6, <1>7, <1>8, <2>1, <2>2 DEF InboxInv, TextSound
  <1>14. ~folder'.open
    BY <1>1, <1>2
  <1> QED BY <1>9, <1>10, <1>11, <1>12, <1>13, <1>14, FolderShut DEF InboxInv

\* A row of the phone changes in place, or the user is sent to the list.
LEMMA MarkSafe ==
  ASSUME InboxInv, NEW p \in posts, p.kind = "verdict", p.own, p.narrow, VerdictAnswered(p)
  PROVE  InboxInv'
  <1>1. /\ Ruled(p) /\ posts' = posts \ {p} /\ inbox' = inbox /\ shown' = shown
        /\ folder' = IF p.row THEN CopyIs(folder, MarkedRow(folder.seen, p)) ELSE folder
        /\ IF p.row THEN UNCHANGED routerVars ELSE queued'
    BY DEF VerdictAnswered, CopyIs, Stay, Go, placeVars, routerVars
  <1>2. ~inbox.open /\ folder \in AnyFolder /\ verdicts \in [Proposals -> Statuses]
    BY DEF InboxInv, InboxFull, OnePage
  <1>3. /\ p.r \in Proposals /\ p.what \in Statuses
        /\ verdicts' = [verdicts EXCEPT ![p.r] = p.what] /\ verdicts' \in [Proposals -> Statuses]
        /\ wording' \in {0} \cup Rewrites
    BY <1>1, RuledGives DEF Statuses
  <1>4. /\ \A q \in posts' : PostOK(q)
        /\ \A q, o \in posts' : q.id = o.id => q = o
        /\ OnePage(inbox, folder, posts')
        /\ Banished(posts') => Banished(posts)
    BY <1>1, PostGone
  <1>5. CASE p.row
    <2> DEFINE seen == MarkedRow(folder.seen, p)
    <2>1. folder.seen \in Copies
      BY <1>2 DEF AnyFolder
    <2>2. seen \in Copies
      <3>1. DOMAIN folder.seen \in SUBSET Proposals /\ folder.seen \in [DOMAIN folder.seen -> Statuses]
        BY <2>1, CopyFacts
      <3>2. seen \in [DOMAIN folder.seen -> Statuses]
        BY <1>3, <3>1 DEF MarkedRow
      <3> QED BY <3>1, <3>2, CopyOf
    <2>3. folder.seen = verdicts => seen = verdicts'
      BY <1>2, <1>3 DEF MarkedRow
    <2>a. folder' = CopyIs(folder, seen)
      BY <1>1, <1>5
    <2> HIDE DEF seen
    <2>4. folder' \in AnyFolder /\ folder'.open = folder.open /\ folder'.seen = seen
          /\ folder'.doubt = folder.doubt
      BY <1>2, <2>2, <2>a DEF CopyIs, AnyFolder
    <2>5. Leaving' = Leaving
      BY <1>1, <1>5, RouterKept
    <2>6. CopyKnown(folder', posts') /\ (CopySound(folder', verdicts') \/ Leaving')
      BY <1>4, <2>3, <2>4, <2>5 DEF InboxInv, CopyKnown, CopySound
    <2> QED BY <1>1, <1>2, <1>3, <1>4, <2>4, <2>6, FolderMoved
  <1>6. CASE ~p.row
    <2>1. folder' = folder /\ Leaving'
      BY <1>1, <1>6 DEF Leaving
    <2>2. CopyKnown(folder', posts')
      BY <1>4, <2>1 DEF InboxInv, CopyKnown
    <2> QED BY <1>1, <1>2, <1>3, <1>4, <2>1, <2>2, FolderMoved
  <1> QED BY <1>5, <1>6

LEMMA VerdictSafe ==
  ASSUME InboxInv, NEW p \in posts, VerdictAnswered(p)
  PROVE  InboxInv'
  <1>1. p.kind = "verdict" /\ Ruled(p) /\ shown' = shown
    BY DEF VerdictAnswered, placeVars
  <1>2. CASE ~p.own
    <2>1. posts' = posts \ {p} /\ UNCHANGED <<inbox, folder>> /\ Banished(posts)
      BY <1>1, <1>2 DEF VerdictAnswered, Banished
    <2>2. /\ \A q \in posts' : PostOK(q)
          /\ \A q, o \in posts' : q.id = o.id => q = o
          /\ OnePage(inbox, folder, posts')
      BY <2>1, PostGone
    <2>3. verdicts' \in [Proposals -> Statuses] /\ wording' \in {0} \cup Rewrites
      BY <1>1, RuledGives
    <2>4. inbox' \in AnyInbox /\ folder' \in AnyFolder
      BY <2>1 DEF InboxInv, InboxFull
    <2> QED BY <1>1, <2>1, <2>2, <2>3, <2>4, EarlierVisit
  <1>3. CASE p.own
    BY <1>1, <1>3, RelistSafe, MarkSafe
  <1> QED BY <1>2, <1>3

LEMMA VerdictFailedSafe ==
  ASSUME InboxInv, NEW p \in posts, NEW lost \in BOOLEAN, VerdictFailed(p, lost)
  PROVE  InboxInv'
  <1> DEFINE doubt == inbox.doubt \/ (lost /\ p.own)
             miscounted == inbox.miscounted \/ (lost /\ p.own)
             unsure == folder.doubt \/ (lost /\ p.own)
  <1>1. /\ p.kind = "verdict" /\ posts' = posts \ {p}
        /\ inbox' = UnsureOf(inbox, doubt, miscounted) /\ folder' = FolderDoubt(folder, unsure)
        /\ IF lost THEN Ruled(p) ELSE UNCHANGED <<verdicts, wording>>
        /\ UNCHANGED routerVars
    BY DEF VerdictFailed, UnsureOf, FolderDoubt
  <1>2. /\ inbox \in AnyInbox /\ folder \in AnyFolder /\ p \in AnyPost
        /\ verdicts \in [Proposals -> Statuses] /\ wording \in {0} \cup Rewrites
    BY DEF InboxInv, InboxFull, PostOK
  <1>3. doubt \in BOOLEAN /\ miscounted \in BOOLEAN /\ unsure \in BOOLEAN
    BY <1>2 DEF AnyInbox, AnyFolder, AnyPost
  <1>4. /\ inbox.doubt => doubt
        /\ inbox.miscounted => miscounted
        /\ folder.doubt => unsure
        /\ lost /\ p.own => doubt /\ miscounted /\ unsure
    OBVIOUS
  <1> HIDE DEF doubt, miscounted, unsure
  <1>5. /\ inbox' \in AnyInbox /\ inbox'.open = inbox.open /\ inbox'.status = inbox.status
        /\ inbox'.items = inbox.items /\ inbox'.counts = inbox.counts /\ inbox'.doubt = doubt
        /\ inbox'.miscounted = miscounted /\ inbox'.text = inbox.text
        /\ inbox'.approved = inbox.approved
    BY <1>1, <1>2, <1>3 DEF UnsureOf, AnyInbox
  <1>6. folder' \in AnyFolder /\ folder'.open = folder.open /\ folder'.seen = folder.seen
        /\ folder'.doubt = unsure
    BY <1>1, <1>2, <1>3 DEF FolderDoubt, AnyFolder
  <1>7. /\ \A q \in posts' : PostOK(q)
        /\ \A q, o \in posts' : q.id = o.id => q = o
        /\ OnePage(inbox, folder, posts')
        /\ Banished(posts') => Banished(posts)
        /\ \A kinds : OwnPosts(posts', kinds) = OwnPosts(posts, kinds) \ {p}
    BY <1>1, PostGone
  <1>8. Leaving' = Leaving /\ shown' = shown
    BY <1>1, RouterKept
  <1>9. /\ verdicts' \in [Proposals -> Statuses] /\ wording' \in {0} \cup Rewrites
        /\ ~lost => verdicts' = verdicts
        /\ ~lost \/ p.what # "approved" => wording' = wording
    BY <1>1, <1>2, RuledGives
  <1>10. CASE lost /\ ~p.own
    <2>1. Banished(posts)
      BY <1>1, <1>10 DEF Banished
    <2> QED BY <1>4, <1>5, <1>6, <1>7, <1>8, <1>9, <2>1, EarlierVisit
  <1>11. CASE ~lost \/ p.own
    <2>1. InboxFull'
      BY <1>5, <1>6, <1>7, <1>9 DEF InboxInv, InboxFull
    <2>2. OnePage(inbox', folder', posts')
      BY <1>5, <1>6, <1>7, PageStays
    <2>3. /\ OwnPosts(posts', ListLoads) = OwnPosts(posts, ListLoads)
          /\ OwnPosts(posts', Counters) = OwnPosts(posts, Counters)
      BY <1>1 DEF OwnPosts, ListLoads, Counters
    <2>4. ListedSound(inbox', posts', ServerList(verdicts', inbox'.status))
      BY <1>4, <1>5, <1>7, <1>9, <1>11, <2>3 DEF InboxInv, ListedSound
    <2>5. CountedSound(inbox', posts', ServerTally(verdicts'))
      BY <1>4, <1>5, <1>7, <1>9, <1>11, <2>3 DEF InboxInv, CountedSound
    <2>6. TextSound(inbox', posts', wording')
      <3>1. p.own => p \in OwnPosts(posts, {"verdict"})
        BY <1>1 DEF OwnPosts
      <3>2. OwnPosts(posts', {"verdict"}) = OwnPosts(posts, {"verdict"}) \ {p}
        BY <1>7
      <3> QED BY <1>5, <1>7, <1>9, <1>11, <3>1, <3>2 DEF InboxInv, TextSound
    <2>7. CopyKnown(folder', posts') /\ (CopySound(folder', verdicts') \/ Leaving')
      BY <1>4, <1>6, <1>7, <1>8, <1>9, <1>11 DEF InboxInv, CopyKnown, CopySound
    <2>8. FolderPlaced(folder', shown')
      BY <1>6, <1>8 DEF InboxInv, FolderPlaced
    <2> QED BY <2>1, <2>2, <2>4, <2>5, <2>6, <2>7, <2>8 DEF InboxInv
  <1> QED BY <1>10, <1>11

(***************************************************************************)
(* The whole.                                                              *)
(***************************************************************************)
LEMMA InboxStepSafe == ASSUME InboxInv, InboxStep PROVE InboxInv'
  <1>1. CASE PickTest \/ OpenProposal
    <2>1. UNCHANGED inboxVars /\ Go("requests", TRUE) /\ UNCHANGED placeVars
      BY <1>1 DEF PickTest, OpenProposal
    <2>2. Wandered
      BY <2>1, WandersOff, StrayedWanders, Named
    <2> QED BY <2>1, <2>2, InboxWaits
  <1>2. CASE \E status \in Statuses \cup {"all"} : ChooseStatus(status) \/ FilterFolder(status)
    BY <1>2, ChooseStatusSafe, FilterSafe
  <1>3. CASE \E r \in Proposals : SelectProposal(r) \/ ApproveOnPhone(r)
    BY <1>3, SelectSafe, ApproveSafe
  <1>4. CASE \E decision \in {"approved", "rejected"} : DecideOnCR(decision)
    BY <1>4, DecideOnSafe
  <1>5. ASSUME NEW p \in posts,
               \/ InboxMissing(p) \/ PickerOpened(p) \/ VerdictAnswered(p)
               \/ \E failed \in SUBSET Statuses : InboxCounted(p, failed)
               \/ \E f \in BOOLEAN : \/ InboxOpened(p, f) \/ InboxListed(p, f)
                                     \/ FolderOpened(p, f) \/ VerdictFailed(p, f)
        PROVE  InboxInv'
    BY <1>5, InboxMissingSafe, PickerOpenedSafe, VerdictSafe, CountedSafe, InboxOpenedSafe,
       ListArrivedSafe, FolderOpenedSafe, VerdictFailedSafe
  <1> QED BY <1>1, <1>2, <1>3, <1>4, <1>5 DEF InboxStep

\* A route that is taken while a page of the phone stays where it is leads away from it.
LEMMA RouteLeaves ==
  ASSUME RouterInv, NEW n \in BOOLEAN, NEW path \in {hash, page}, TakeRoute(path, n),
         \/ path = hash /\ queued' = (hash' # hash)
         \/ path = page /\ queued' = (queued \/ hash' # hash) /\ rewritten' = rewritten,
         shown.page \in LateScreens, shown' = shown
  PROVE  Leaving'
  <1> DEFINE p == Effective(path)
  <1>0. path \in Addresses /\ hash \in Addresses
    BY DEF RouterInv, RouterTypeOK
  <1>1. p \in Addresses \ {""} /\ Redirect(p, n) \in Addresses \ {""}
    BY <1>0, RedirectGoes
  <1>2. CASE Redirect(p, n) # p
    <2>1. hash' = Redirect(p, n)
      BY <1>2 DEF TakeRoute
    <2>2. CASE path = hash /\ queued' = (hash' # hash)
      BY <1>1, <1>2, <2>1, <2>2 DEF Effective, Leaving
    <2>3. CASE path = page /\ queued' = (queued \/ hash' # hash) /\ rewritten' = rewritten
      BY <1>1, <1>2, <2>1, <2>3 DEF Effective, RouterInv, Addressed, Leaving
    <2> QED BY <2>2, <2>3
  <1>3. CASE Redirect(p, n) = p
    <2> DEFINE yes == TRUE
               i == [page |-> p, narrow |-> n, fresh |-> yes]
    <2>1. /\ imports' = Stale \cup {i} /\ yes
          /\ IF p \in Screens THEN Put("skeleton", n) ELSE UNCHANGED <<mounted, shown>>
      BY <1>3 DEF TakeRoute
    <2> HIDE DEF p, yes
    <2>2. i \in imports' /\ i.fresh /\ i.page = p
      BY <2>1
    <2>3. p \notin Screens
      <3>1. Put("skeleton", n) => shown'.page = "skeleton"
        BY DEF Put, Paint
      <3>2. "skeleton" \notin LateScreens
        BY DEF LateScreens
      <3> QED BY <2>1, <3>1, <3>2
    <2> QED BY <2>2, <2>3 DEF Leaving
  <1> QED BY <1>2, <1>3

LEMMA ModuleLeaves ==
  ASSUME NEW i \in imports, imports' = imports \ {i}, UNCHANGED <<queued, rewritten>>,
         i.fresh => i.page \in Screens, Leaving
  PROVE  Leaving'
  BY DEF Leaving

LEMMA RouteSafe == ASSUME RouterInv, InboxInv, Route PROVE InboxInv'
  <1>1. UNCHANGED <<verdicts, wording>>
    BY DEF Route
  <1>2. CASE shown' # shown
    BY <1>1, <1>2, LeaveInboxSafe DEF Route
  <1>3. CASE shown' = shown
    <2>1. UNCHANGED inboxVars
      BY <1>1, <1>3 DEF Route, inboxVars
    <2>2. FolderPlaced(folder, shown')
      BY <1>3 DEF InboxInv
    <2>3. ASSUME folder.open, Leaving PROVE Leaving'
      <3>1. shown.page \in LateScreens
        BY <2>3 DEF InboxInv, FolderPlaced
      <3>2. mobile \in BOOLEAN
        BY DEF RouterInv, RouterTypeOK
      <3>3. CASE HashChange
        BY <1>3, <3>1, <3>2, <3>3, RouteLeaves DEF HashChange
      <3>4. CASE BreakpointChange
        BY <1>3, <3>1, <3>2, <3>4, RouteLeaves DEF BreakpointChange
      <3>5. CASE LocaleChange
        BY <1>3, <3>1, <3>2, <3>5, RouteLeaves DEF LocaleChange
      <3>6. CASE SessionEnds
        BY <2>3, <3>6 DEF SessionEnds, Leaving
      <3>7. ASSUME NEW i \in imports, ModuleFailed(i) PROVE Leaving'
        <4>1. /\ imports' = imports \ {i} /\ UNCHANGED <<queued, rewritten>>
          BY <3>7 DEF ModuleFailed
        <4>2. ~i.fresh
          <5>1. i.fresh => Put(IF i.page \in Screens THEN "error" ELSE "404", i.narrow)
            BY <3>7 DEF ModuleFailed, Mounts
          <5>2. i.fresh => shown'.page \in {"error", "404"}
            BY <5>1 DEF Put, Paint
          <5>3. {"error", "404"} \cap LateScreens = {}
            BY DEF LateScreens
          <5> QED BY <1>3, <3>1, <5>2, <5>3
        <4> QED BY <2>3, <4>1, <4>2, ModuleLeaves
      <3>8. ASSUME NEW p \in tour.pages, Follow(p) PROVE Leaving'
        BY <2>3, <3>8 DEF Follow, Navigate, Go, placeVars, Leaving
      <3> QED BY <3>3, <3>4, <3>5, <3>6, <3>7, <3>8 DEF Route
    <2> QED BY <2>1, <2>2, <2>3, InboxStays
  <1> QED BY <1>2, <1>3

LEMMA MountSafe == ASSUME RouterInv, InboxInv, Mount PROVE InboxInv'
  <1>1. PICK i \in imports :
          /\ ModuleLoaded(i)
          /\ IF Mounts(i) THEN Opens(ScreenOf(i), i.narrow)
             ELSE UNCHANGED <<badge, wizardVars, editorVars, collectionVars, inboxVars, peopleVars>>
    BY DEF Mount
  <1>2. imports' = imports \ {i} /\ UNCHANGED <<queued, rewritten>> /\ i.narrow \in BOOLEAN
    BY <1>1 DEF ModuleLoaded, RouterInv, RouterTypeOK
  <1>3. CASE ~i.fresh
    <2>1. UNCHANGED inboxVars /\ UNCHANGED shown
      BY <1>1, <1>3 DEF ModuleLoaded, Mounts
    <2>2. Leaving => Leaving'
      BY <1>2, <1>3, ModuleLeaves
    <2>3. FolderPlaced(folder, shown')
      BY <2>1 DEF InboxInv
    <2> QED BY <2>1, <2>2, <2>3, InboxStays
  <1>4. CASE i.fresh
    <2>1. InboxScreen(i.narrow) \/ (LeaveInbox /\ UNCHANGED <<verdicts, wording>>)
      BY <1>1, <1>4 DEF Mounts, Opens
    <2> QED BY <1>2, <2>1, InboxScreenSafe, LeaveInboxSafe
  <1> QED BY <1>3, <1>4

LEMMA InboxInvStep == RouterInv /\ InboxInv /\ [ScreensNext]_screensVars => InboxInv'
  <1> SUFFICES ASSUME RouterInv, InboxInv, [ScreensNext]_screensVars PROVE InboxInv'
    OBVIOUS
  <1>1. ASSUME Wandered, UNCHANGED inboxVars PROVE InboxInv'
    BY <1>1, InboxWaits
  <1>2. CASE Mount \/ Route
    BY <1>2, MountSafe, RouteSafe
  <1>3. CASE InboxStep
    BY <1>3, InboxStepSafe
  <1>4. CASE OverlayStep /\ UNCHANGED inboxVars
    BY <1>1, <1>4, OverlayWanders, StrayedWanders
  <1>5. CASE WizardStep /\ UNCHANGED inboxVars
    BY <1>1, <1>5, WizardWanders, StrayedWanders
  <1>6. CASE (DeskStep \/ PhoneStep \/ OptionStep \/ PictureStep \/ AnswerStep) /\ UNCHANGED inboxVars
    BY <1>1, <1>6, EditorWanders, StrayedWanders
  <1>7. CASE (ListStep \/ SettingsStep) /\ UNCHANGED inboxVars
    BY <1>1, <1>7, CollectionWanders, StrayedWanders
  <1>8. CASE PeopleStep /\ UNCHANGED inboxVars
    BY <1>1, <1>8, PeopleWanders, StrayedWanders
  <1>9. CASE UNCHANGED screensVars
    BY <1>1, <1>9 DEF screensVars, Wandered
  <1> QED BY <1>2, <1>3, <1>4, <1>5, <1>6, <1>7, <1>8, <1>9 DEF ScreensNext

LEMMA InboxInvInit == InboxInit => InboxInv
  <1> SUFFICES ASSUME InboxInit PROVE InboxInv
    OBVIOUS
  <1>1. /\ verdicts = [r \in Proposals |-> "pending"] /\ wording = 0 /\ inbox = NoInbox
        /\ folder = NoFolder /\ posts = {}
    BY DEF InboxInit
  <1>2. InboxFull
    <2> DEFINE pending == "pending"
    <2>1. pending \in Statuses
      BY DEF Statuses
    <2> HIDE DEF pending
    <2>2. [r \in Proposals |-> pending] \in [Proposals -> Statuses]
      BY <2>1
    <2> QED BY <1>1, <2>2, NoPages DEF InboxFull, pending
  <1>3. OnePage(inbox, folder, posts)
    BY <1>1, NoPages DEF OnePage, Opening
  <1>4. /\ ListedSound(inbox, posts, ServerList(verdicts, inbox.status))
        /\ CountedSound(inbox, posts, ServerTally(verdicts))
        /\ TextSound(inbox, posts, wording)
    BY <1>1, NoPages, InboxShut
  <1>5. CopyKnown(folder, posts) /\ CopySound(folder, verdicts) /\ FolderPlaced(folder, shown)
    BY <1>1, NoPages DEF CopyKnown, CopySound, FolderPlaced
  <1> QED BY <1>2, <1>3, <1>4, <1>5 DEF InboxInv

LEMMA InboxInvTrue == InboxInv => InboxTrue
  <1> SUFFICES ASSUME InboxInv PROVE InboxTrue
    OBVIOUS
  <1>1. ASSUME inbox.open, ~inbox.doubt, Settled({"list", "relist"})
        PROVE  inbox.items = Matching(inbox.status)
    <2>1. OwnPosts(posts, ListLoads) = {}
      BY <1>1, Loads DEF Settled, ListLoads
    <2> QED BY <1>1, <2>1, ServerLists DEF InboxInv, ListedSound
  <1>2. ASSUME inbox.open, ~inbox.miscounted, Settled({"relist", "counts"})
        PROVE  inbox.counts = Counted
    <2>1. OwnPosts(posts, Counters) = {}
      BY <1>2, Loads DEF Settled, Counters
    <2> QED BY <1>2, <2>1, ServerLists DEF InboxInv, CountedSound
  <1>3. ASSUME inbox.open, ~inbox.approved, NEW r \in Rewrites
        PROVE  Diff(r) = <<wording, r>>
    BY <1>3 DEF InboxInv, TextSound, Diff
  <1>4. ASSUME folder.open, ~folder.doubt, AtRest PROVE folder.seen = verdicts
    <2>1. ~Leaving
      BY <1>4 DEF AtRest, Leaving
    <2> QED BY <1>4, <2>1 DEF InboxInv, CopySound
  <1> QED BY <1>1, <1>2, <1>3, <1>4 DEF InboxTrue

LEMMA PeopleInvTrue == PeopleInv => PeopleTrue
  <1> SUFFICES ASSUME PeopleInv PROVE PeopleTrue
    OBVIOUS
  <1>1. ~Running({"shares", "invite", "remove"}) => SharesOf(errands) = {}
    BY DEF Running, SharesOf
  <1> QED BY <1>1 DEF PeopleInv, ReadersSound, AskersSound, PeopleTrue

LEMMA ScreensRouted == ScreensSpec => []RouterInv
  <1>1. RouterSpec => []RouterInv
    BY InitInv, NextInv, PTL DEF RouterSpec
  <1> QED BY <1>1, ScreensFollowRouter, PTL

\* The owner of a test decides on what the server has, and sees who can read the test: however
\* lists, counts, decisions and earlier visits overtake each other, unless loads crossed or
\* failed, an answer was lost, an edit was approved on the page or the user is sent elsewhere
\* (chip handlers, decideOnCR, refreshCounts, buildRow; the sharing tab and its handlers).
THEOREM OwnerPagesSound == ScreensSpec => []OwnerPagesTrue
  <1>1. ScreensInit => InboxInv /\ PeopleInv
    BY InboxInvInit, PeopleInvInit DEF ScreensInit
  <1>2. InboxInv /\ PeopleInv => OwnerPagesTrue
    BY InboxInvTrue, PeopleInvTrue DEF OwnerPagesTrue
  <1> QED BY <1>1, <1>2, InboxInvStep, PeopleInvStep, ScreensRouted, PTL DEF ScreensSpec
=============================================================================
