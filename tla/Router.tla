-------------------------------- MODULE Router --------------------------------
(***************************************************************************)
(* The hash router of the browser client.  Writing location.hash queues a    *)
(* hashchange event; its handler resolves the route, shows a skeleton and    *)
(* imports the module of the screen; when the module has arrived the screen  *)
(* is mounted, unless another route was taken meanwhile.  A change of the     *)
(* breakpoint or of the locale takes the current route again.  A page is a    *)
(* route pattern; parameters are the business of the screens.                 *)
(***************************************************************************)
EXTENDS Naturals, FiniteSets

CONSTANTS
  Links,      \* bound: the pages an instance is sent to by the user
  MaxImports  \* bound: imports under way at one time

VARIABLES
  hash,      \* location.hash; "" is the address without one
  queued,    \* a hashchange event waits for its handler
  page,      \* _current.path
  imports,   \* dynamic imports under way; fresh: the captured token is _routeToken
  mounted,   \* what the router put into the root: a screen, "skeleton", "error" or ""
  shown,     \* what the root shows: that, or the late rendering of an earlier screen
  rewritten, \* history.replaceState changed the address after the last route
  mobile,    \* the viewport is below the breakpoint
  signedIn   \* an access token is in memory

routerVars == <<hash, queued, page, imports, mounted, shown, rewritten, mobile, signedIn>>
placeVars == <<page, imports, mounted, shown, mobile, signedIn>>

Public == {"login", "register", "forgot", "reset", "403", "404"}
Private == {"home", "tests", "stats", "test", "pretest", "edit", "question", "activity",
            "take", "results", "perq", "profile", "settings", "notifications", "import",
            "collection", "requests", "discover"}
Screens == (Public \cup Private) \ {"discover"}
Addresses == Public \cup Private \cup {"", "nowhere"}

ASSUME LinksAssumption == Links \subseteq Addresses \ {""}
ASSUME MaxImportsAssumption == MaxImports \in Nat \ {0}

RouterTypeOK ==
  /\ hash \in Addresses
  /\ queued \in BOOLEAN
  /\ page \in Addresses
  /\ imports \subseteq [page: Addresses, narrow: BOOLEAN, fresh: BOOLEAN]
  /\ mounted \in Screens \cup {"skeleton", "error", ""}
  /\ shown \in [page: Screens \cup {"skeleton", "error", ""}, narrow: BOOLEAN]
  /\ rewritten \in BOOLEAN
  /\ mobile \in BOOLEAN
  /\ signedIn \in BOOLEAN

\* Assigning the hash it already has fires no event; other: the parameters differ.
Go(p, other) ==
  /\ hash' = p
  /\ queued' = (queued \/ p # hash \/ other)
  /\ rewritten' = (rewritten /\ p = hash)

Navigate(p) == Go(p, FALSE)

Stay == UNCHANGED <<hash, queued, rewritten>>

\* The user sees this variant of screen p and can use its controls.
On(p, narrow) == shown = [page |-> p, narrow |-> narrow]

\* The screen empties the root and fills it, whatever was there.
Paint(p, narrow) == shown' = [page |-> p, narrow |-> narrow]

\* The router does.
Put(p, narrow) ==
  /\ mounted' = p
  /\ Paint(p, narrow)

\* Without a path, and at "/", the router takes /home.
Effective(p) == IF p = "" THEN "home" ELSE p

\* Where the guard or the route table sends a path instead; the path itself is kept otherwise.
Redirect(p, narrow) ==
  IF p \notin Public /\ ~signedIn THEN "login"
  ELSE IF p = "discover" THEN "home"
  ELSE IF p = "settings" /\ ~narrow THEN "profile"
  ELSE p

\* Every import under way loses: its captured token is no longer the current one.
Stale == {[i EXCEPT !.fresh = FALSE] : i \in imports}

(***************************************************************************)
(* handleRoute.  A redirect returns before the route is recorded.  An unknown *)
(* path imports the 404 screen and leaves the root as it is until then.       *)
(***************************************************************************)
TakeRoute(path, narrow) ==
  LET p == Effective(path) IN
  \/ /\ Redirect(p, narrow) # p
     /\ hash' = Redirect(p, narrow)
     /\ imports' = Stale
     /\ UNCHANGED <<page, mounted, shown>>
  \/ /\ Redirect(p, narrow) = p
     /\ Cardinality(imports) < MaxImports
     /\ page' = p
     /\ imports' = Stale \cup {[page |-> p, narrow |-> narrow, fresh |-> TRUE]}
     /\ IF p \in Screens THEN Put("skeleton", narrow) ELSE UNCHANGED <<mounted, shown>>
     /\ UNCHANGED hash

HashChange ==
  /\ queued
  /\ TakeRoute(hash, mobile)
  /\ queued' = (hash' # hash)
  /\ rewritten' = FALSE
  /\ UNCHANGED <<mobile, signedIn>>

\* The current path without its query is taken again.
BreakpointChange ==
  /\ mobile' = ~mobile
  /\ TakeRoute(page, ~mobile)
  /\ queued' = (queued \/ hash' # hash)
  /\ UNCHANGED <<rewritten, signedIn>>

LocaleChange ==
  /\ TakeRoute(page, mobile)
  /\ queued' = (queued \/ hash' # hash)
  /\ UNCHANGED <<rewritten, mobile, signedIn>>

\* A mutant: a stale import is mounted too.
MountsAnyway(i) == TRUE

\* Whether the arriving module is mounted.
Mounts(i) == i.fresh

\* The screen that import i mounts.
ScreenOf(i) == IF i.page \in Screens THEN i.page ELSE "404"

ModuleLoaded(i) ==
  /\ i \in imports
  /\ imports' = imports \ {i}
  /\ IF Mounts(i) THEN Put(ScreenOf(i), i.narrow) ELSE UNCHANGED <<mounted, shown>>
  /\ UNCHANGED <<hash, queued, rewritten, page, mobile, signedIn>>

\* The module cannot be loaded or its render throws.  The catch of the 404 screen does not
\* look whether it is stale.
ModuleFailed(i) ==
  /\ i \in imports
  /\ imports' = imports \ {i}
  /\ \/ Mounts(i) /\ Put(IF i.page \in Screens THEN "error" ELSE "404", i.narrow)
     \/ ~Mounts(i) /\ i.page \in Screens /\ UNCHANGED <<mounted, shown>>
     \/ ~Mounts(i) /\ i.page \notin Screens /\ Paint("404", i.narrow) /\ UNCHANGED mounted
  /\ UNCHANGED <<hash, queued, rewritten, page, mobile, signedIn>>

\* A link, the back button or the address bar.
Follow(p) ==
  /\ p \in Links
  /\ Navigate(p)
  /\ UNCHANGED placeVars

\* A refresh was refused and the token dropped: no screen is changed by that alone.
SessionEnds ==
  /\ signedIn
  /\ signedIn' = FALSE
  /\ UNCHANGED <<hash, queued, rewritten, page, imports, mounted, shown, mobile>>

\* main.js has tried the refresh cookie; initRouter takes the first route.
RouterInit ==
  /\ hash \in Links \cup {""}
  /\ queued = TRUE
  /\ page = ""
  /\ imports = {}
  /\ mounted = ""
  /\ shown = [page |-> "", narrow |-> FALSE]
  /\ rewritten = FALSE
  /\ mobile \in BOOLEAN
  /\ signedIn \in BOOLEAN

\* No event waits and no current module is on its way.
AtRest == ~queued /\ ~rewritten /\ ~\E i \in imports : i.fresh

\* What a screen can do to the place: send the user elsewhere, change the address in place, or
\* paint itself or an error, perhaps late.
Wander(p) ==
  \/ /\ \E other \in BOOLEAN : Go(p, other)
     /\ UNCHANGED placeVars
  \/ /\ hash' = p
     /\ rewritten' = TRUE
     /\ UNCHANGED <<queued, placeVars>>

Repaint(p, narrow) ==
  /\ Paint(p, narrow)
  /\ UNCHANGED <<hash, queued, rewritten, page, imports, mounted, mobile, signedIn>>

RouterNext ==
  \/ HashChange
  \/ BreakpointChange
  \/ LocaleChange
  \/ SessionEnds
  \/ \E i \in imports : ModuleLoaded(i) \/ ModuleFailed(i)
  \/ \E p \in Addresses \ {""} : Wander(p)
  \/ \E p \in Screens \cup {"error"}, narrow \in BOOLEAN : Repaint(p, narrow)

RouterSpec == RouterInit /\ [][RouterNext]_routerVars

(***************************************************************************)
(* Properties                                                              *)
(***************************************************************************)

\* When no event waits and no current module is on its way, what the router mounted last is the
\* screen of the route that the address names, or an error: however imports of several routes
\* overtake each other (the token of handleRoute).
RouteShown ==
  AtRest
    => /\ page = Effective(hash)
       /\ mounted \in {"error", IF page \in Screens THEN page ELSE "404"}
=============================================================================
