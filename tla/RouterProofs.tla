----------------------------- MODULE RouterProofs -----------------------------
(***************************************************************************)
(* Proofs about the router: its types, and that the screen of the address is   *)
(* what it mounts, for any links and any number of imports under way.          *)
(***************************************************************************)
EXTENDS Router, WellFoundedInduction, TLAPS

\* An import that will be mounted is one of the current page.
OfPage == \A i \in imports : i.fresh => i.page = page

\* Without an event on its way the address is that of the page, unless it was rewritten.
Addressed == (~queued /\ ~rewritten) => page = Effective(hash)

\* What is mounted when no import of the page is under way.
Arrived ==
  (~queued /\ ~rewritten /\ ~\E i \in imports : i.fresh)
    => mounted \in {"error", IF page \in Screens THEN page ELSE "404"}

RouterInv == RouterTypeOK /\ OfPage /\ Addressed /\ Arrived

\* The table and the guard send a page to another one, and never to the empty address.
LEMMA RedirectGoes ==
  ASSUME NEW p \in Addresses, NEW n \in BOOLEAN
  PROVE  /\ Redirect(Effective(p), n) \in Addresses \ {""}
         /\ Effective(p) \in Addresses \ {""}
  BY DEF Redirect, Effective, Addresses, Private, Public

\* What the root can show.
Paintings == Screens \cup {"skeleton", "error", ""}

LEMMA PaintType ==
  ASSUME NEW p \in Paintings, NEW n \in BOOLEAN, Paint(p, n)
  PROVE  shown' \in [page: Paintings, narrow: BOOLEAN]
  BY DEF Paint

LEMMA NotFoundScreen == "404" \in Screens
  BY DEF Screens, Public

LEMMA InitInv == RouterInit => RouterInv
  <1> SUFFICES ASSUME RouterInit PROVE RouterInv
    OBVIOUS
  <1>1. "" \in Addresses /\ Links \subseteq Addresses
    BY LinksAssumption DEF Addresses
  <1>2. RouterTypeOK
    BY <1>1 DEF RouterInit, RouterTypeOK
  <1> QED BY <1>2 DEF RouterInit, RouterInv, OfPage, Addressed, Arrived

\* A route taken from the address or from the page keeps the invariant; go tells whether the
\* event is used up.
LEMMA RouteStep ==
  ASSUME RouterInv, NEW n \in BOOLEAN, NEW path \in {hash, page},
         TakeRoute(path, n), signedIn' = signedIn, mobile' \in BOOLEAN,
         \/ path = hash /\ queued /\ queued' = (hash' # hash) /\ rewritten' = FALSE
         \/ path = page /\ queued' = (queued \/ hash' # hash) /\ rewritten' = rewritten
  PROVE  RouterInv'
  <1> DEFINE p == Effective(path)
  <1>0. path \in Addresses /\ hash \in Addresses
    BY DEF RouterInv, RouterTypeOK
  <1>1. p \in Addresses \ {""} /\ Redirect(p, n) \in Addresses \ {""}
    BY <1>0, RedirectGoes
  <1>2. queued' \in BOOLEAN /\ rewritten' \in BOOLEAN /\ signedIn' \in BOOLEAN
    BY DEF RouterInv, RouterTypeOK
  <1>3. Stale \subseteq [page: Addresses, narrow: BOOLEAN, fresh: BOOLEAN]
        /\ \A i \in Stale : ~i.fresh
    BY DEF RouterInv, RouterTypeOK, Stale
  <1>4. CASE Redirect(p, n) # p
    <2>1. /\ hash' = Redirect(p, n) /\ imports' = Stale
          /\ page' = page /\ mounted' = mounted /\ shown' = shown
      BY <1>4 DEF TakeRoute
    <2>2. RouterTypeOK'
      BY <1>1, <1>2, <1>3, <2>1 DEF RouterInv, RouterTypeOK
    <2>3. queued' \/ rewritten'
      <3>1. CASE path = hash /\ queued /\ queued' = (hash' # hash)
        BY <1>1, <1>4, <2>1, <3>1 DEF Effective
      <3>2. CASE path = page /\ queued' = (queued \/ hash' # hash) /\ rewritten' = rewritten
        BY <1>1, <1>4, <2>1, <3>2 DEF Effective, RouterInv, Addressed
      <3> QED BY <3>1, <3>2
    <2> QED BY <1>3, <2>1, <2>2, <2>3 DEF RouterInv, OfPage, Addressed, Arrived
  <1>5. CASE Redirect(p, n) = p
    <2> DEFINE i == [page |-> p, narrow |-> n, fresh |-> TRUE]
    <2>1. /\ hash' = hash /\ page' = p /\ imports' = Stale \cup {i}
          /\ IF p \in Screens THEN Put("skeleton", n) ELSE UNCHANGED <<mounted, shown>>
      BY <1>5 DEF TakeRoute
    <2>2. /\ mounted' \in Paintings
          /\ shown' \in [page: Paintings, narrow: BOOLEAN]
      <3>1. CASE p \in Screens
        BY <2>1, <3>1, PaintType DEF Put, Paintings
      <3>2. CASE p \notin Screens
        BY <2>1, <3>2 DEF RouterInv, RouterTypeOK, Paintings
      <3> QED BY <3>1, <3>2
    <2> HIDE DEF p
    <2>a. imports' \subseteq [page: Addresses, narrow: BOOLEAN, fresh: BOOLEAN]
      <3>1. i \in [page: Addresses, narrow: BOOLEAN, fresh: BOOLEAN]
        BY <1>1
      <3> QED BY <1>3, <2>1, <3>1
    <2>b. RouterTypeOK'
      BY <1>0, <1>1, <1>2, <2>1, <2>2, <2>a DEF RouterTypeOK, Paintings
    <2>3. OfPage'
      BY <1>3, <2>1 DEF OfPage
    <2>4. (\E j \in imports : j.fresh)'
      <3>1. i \in imports' /\ i.fresh
        BY <2>1
      <3> QED BY <3>1
    <2>5. Addressed'
      <3> USE DEF p
      <3>1. CASE path = hash
        BY <2>1, <3>1 DEF Addressed
      <3>2. CASE path = page /\ queued' = (queued \/ hash' # hash) /\ rewritten' = rewritten
        BY <1>0, <2>1, <3>2 DEF Addressed, RouterInv, Effective
      <3> QED BY <3>1, <3>2
    <2> QED BY <2>b, <2>3, <2>4, <2>5 DEF RouterInv, Arrived
  <1> QED BY <1>4, <1>5

\* A module that arrives, or fails to, leaves the invariant: only a fresh one is mounted.
LEMMA ModuleStep ==
  ASSUME RouterInv, NEW i, ModuleLoaded(i) \/ ModuleFailed(i)
  PROVE  RouterInv'
  <1>1. /\ i \in imports /\ imports' = imports \ {i}
        /\ UNCHANGED <<hash, queued, rewritten, page, mobile, signedIn>>
    BY DEF ModuleLoaded, ModuleFailed
  <1>2. i.page \in Addresses /\ i.narrow \in BOOLEAN /\ i.fresh \in BOOLEAN
    BY <1>1 DEF RouterInv, RouterTypeOK
  <1>3. OfPage' /\ Addressed'
    BY <1>1 DEF RouterInv, OfPage, Addressed
  <1>4. CASE i.fresh
    <2>1. mounted' \in {"error", IF page \in Screens THEN page ELSE "404"}
      <3>1. i.page = page
        BY <1>1, <1>4 DEF RouterInv, OfPage
      <3>2. CASE ModuleLoaded(i)
        BY <1>4, <3>1, <3>2 DEF ModuleLoaded, Mounts, ScreenOf, Put
      <3>3. CASE ModuleFailed(i)
        BY <1>4, <3>1, <3>3 DEF ModuleFailed, Mounts, Put
      <3> QED BY <3>2, <3>3
    <2>2. shown' \in [page: Paintings, narrow: BOOLEAN]
      <3>1. PICK p \in Paintings : Paint(p, i.narrow)
        <4>1. CASE ModuleLoaded(i)
          BY <1>4, <4>1, NotFoundScreen DEF ModuleLoaded, Mounts, ScreenOf, Put, Paintings
        <4>2. CASE ModuleFailed(i)
          BY <1>4, <4>2, NotFoundScreen DEF ModuleFailed, Mounts, Put, Paintings
        <4> QED BY <4>1, <4>2
      <3> QED BY <1>2, <3>1, PaintType
    <2>3. RouterTypeOK'
      BY <1>1, <1>2, <2>1, <2>2, NotFoundScreen DEF RouterInv, RouterTypeOK, Paintings
    <2> QED BY <1>1, <1>3, <2>1, <2>3 DEF RouterInv, Arrived
  <1>5. CASE ~i.fresh
    <2>1. mounted' = mounted
      BY <1>5 DEF ModuleLoaded, ModuleFailed, Mounts
    <2>2. shown' \in [page: Paintings, narrow: BOOLEAN]
      <3>1. shown' = shown \/ Paint("404", i.narrow)
        BY <1>5 DEF ModuleLoaded, ModuleFailed, Mounts
      <3> QED BY <1>2, <3>1, PaintType, NotFoundScreen DEF RouterInv, RouterTypeOK, Paintings
    <2>3. RouterTypeOK'
      BY <1>1, <2>1, <2>2 DEF RouterInv, RouterTypeOK, Paintings
    <2>4. (\E j \in imports : j.fresh) => (\E j \in imports' : j.fresh)
      BY <1>1, <1>5
    <2> QED BY <1>1, <1>3, <2>1, <2>3, <2>4 DEF RouterInv, Arrived
  <1> QED BY <1>2, <1>4, <1>5

\* Screens and users move the address, which waits for its event unless it was rewritten.
LEMMA WanderStep ==
  ASSUME RouterInv, NEW p \in Addresses \ {""}, Wander(p)
  PROVE  RouterInv'
  <1>1. CASE (\E other \in BOOLEAN : Go(p, other)) /\ UNCHANGED placeVars
    <2>1. /\ hash' = p /\ queued' \in BOOLEAN /\ rewritten' \in BOOLEAN
          /\ queued' \/ (hash' = hash /\ queued' = queued /\ rewritten' = rewritten)
      BY <1>1 DEF Go, RouterInv, RouterTypeOK
    <2>2. UNCHANGED <<page, imports, mounted, shown, mobile, signedIn>>
      BY <1>1 DEF placeVars
    <2>3. RouterTypeOK' /\ OfPage'
      BY <2>1, <2>2 DEF RouterInv, RouterTypeOK, OfPage
    <2>4. Addressed' /\ Arrived'
      <3>1. CASE queued'
        BY <3>1 DEF Addressed, Arrived
      <3>2. CASE hash' = hash /\ queued' = queued /\ rewritten' = rewritten
        BY <2>2, <3>2 DEF RouterInv, Addressed, Arrived
      <3> QED BY <2>1, <3>1, <3>2
    <2> QED BY <2>3, <2>4 DEF RouterInv
  <1>2. CASE hash' = p /\ rewritten' = TRUE /\ UNCHANGED <<queued, placeVars>>
    BY <1>2 DEF placeVars, RouterInv, RouterTypeOK, OfPage, Addressed, Arrived
  <1> QED BY <1>1, <1>2 DEF Wander

LEMMA RepaintStep ==
  ASSUME RouterInv, NEW p \in Screens \cup {"error"}, NEW n \in BOOLEAN, Repaint(p, n)
  PROVE  RouterInv'
  <1>1. shown' \in [page: Paintings, narrow: BOOLEAN]
    BY PaintType DEF Repaint, Paintings
  <1> QED BY <1>1 DEF Repaint, Paintings, RouterInv, RouterTypeOK, OfPage, Addressed, Arrived

LEMMA NextInv == RouterInv /\ [RouterNext]_routerVars => RouterInv'
  <1> SUFFICES ASSUME RouterInv, [RouterNext]_routerVars PROVE RouterInv'
    OBVIOUS
  <1>0. mobile \in BOOLEAN /\ signedIn \in BOOLEAN
    BY DEF RouterInv, RouterTypeOK
  <1>1. CASE HashChange
    BY <1>0, <1>1, RouteStep DEF HashChange
  <1>2. CASE BreakpointChange
    BY <1>0, <1>2, RouteStep DEF BreakpointChange
  <1>3. CASE LocaleChange
    BY <1>0, <1>3, RouteStep DEF LocaleChange
  <1>4. CASE SessionEnds
    BY <1>4 DEF SessionEnds, RouterInv, RouterTypeOK, OfPage, Addressed, Arrived
  <1>5. CASE \E i \in imports : ModuleLoaded(i) \/ ModuleFailed(i)
    BY <1>5, ModuleStep
  <1>6. CASE \E p \in Addresses \ {""} : Wander(p)
    BY <1>6, WanderStep
  <1>7. CASE \E p \in Screens \cup {"error"}, narrow \in BOOLEAN : Repaint(p, narrow)
    BY <1>7, RepaintStep
  <1>8. CASE UNCHANGED routerVars
    BY <1>8 DEF routerVars, RouterInv, RouterTypeOK, OfPage, Addressed, Arrived
  <1> QED BY <1>1, <1>2, <1>3, <1>4, <1>5, <1>6, <1>7, <1>8 DEF RouterNext

\* The router's state has its types, whatever the screens do (main.js, router.js).
THEOREM RouterTypeCorrect == RouterSpec => []RouterTypeOK
  <1>1. RouterInv => RouterTypeOK
    BY DEF RouterInv
  <1> QED BY InitInv, NextInv, <1>1, PTL DEF RouterSpec

\* The screen that the router mounted last is that of the address, or an error, whenever nothing
\* is on its way: for any number of imports that overtake each other, of breakpoint and locale
\* changes, and wherever screens send the user (the token and the guard of handleRoute).
THEOREM RouteSound == RouterSpec => []RouteShown
  <1>1. RouterInv => RouteShown
    BY DEF RouterInv, Addressed, Arrived, RouteShown, AtRest
  <1> QED BY InitInv, NextInv, <1>1, PTL DEF RouterSpec

-----------------------------------------------------------------------------
(* The place of the user, as the compositions of the client use it.         *)

\* What a component does to the place of the user.
Placed ==
  \/ UNCHANGED routerVars
  \/ \E p \in Addresses \ {""} : Wander(p)
  \/ \E p \in Screens \cup {"error"}, narrow \in BOOLEAN : Repaint(p, narrow)

LEMMA Goes ==
  ASSUME NEW p \in Addresses \ {""}, NEW other \in BOOLEAN, Go(p, other), UNCHANGED placeVars
  PROVE  Placed
  BY DEF Wander, Placed

LEMMA Navigates ==
  ASSUME NEW p \in Addresses \ {""}, Navigate(p), UNCHANGED placeVars
  PROVE  Placed
  BY Goes DEF Navigate

LEMMA Paints ==
  ASSUME NEW p \in Screens \cup {"error"}, NEW narrow \in BOOLEAN, Paint(p, narrow),
         UNCHANGED <<hash, queued, rewritten, page, imports, mounted, mobile, signedIn>>
  PROVE  Placed
  BY DEF Repaint, Placed

LEMMA Stays == ASSUME Stay, UNCHANGED placeVars PROVE Placed
  BY DEF Stay, placeVars, Placed, routerVars

LEMMA PlacedStep == Placed => [RouterNext]_routerVars
  BY DEF Placed, RouterNext
-----------------------------------------------------------------------------
\* A set of numbers that is not empty has a least one.
LEMMA LeastNumber == ASSUME NEW S \in SUBSET Nat, S # {} PROVE \E m \in S : \A n \in S : m <= n
  <1> DEFINE R == OpToRel(<, Nat)
  <1>1. IsWellFoundedOn(R, Nat)
    BY ONLY NatLessThanWellFounded, Zenon
  <1>2. \A x, y \in Nat : <<x, y>> \in R <=> x < y
    BY DEF OpToRel
  <1> HIDE DEF R
  <1>3. PICK m \in S : \A n \in S : ~(<<n, m>> \in R)
    BY <1>1, WFMin
  <1>4. \A n \in S : ~(n < m)
    BY <1>2, <1>3, Zenon
  <1> QED BY <1>4
=============================================================================
