------------------------------- MODULE Sessions -------------------------------
(***************************************************************************)
(* Login sessions of one user in one browser.  Each tab keeps an access     *)
(* token in memory; all tabs share the HttpOnly refresh cookie.  An API      *)
(* call that is answered 401 waits for one refresh of its tab and is sent    *)
(* once more.  The server keeps a row per token pair:                        *)
(*                                                                           *)
(*   refresh   find the active row of the cookie; deactivate it (commit);    *)
(*             insert the row of the new pair (commit)                       *)
(*   logout    deactivate the rows of the access token and of the cookie     *)
(*   a call    find the active row of the token; extend it (commit)          *)
(*                                                                           *)
(* refresh and logout are coroutines without an await, so one server process *)
(* runs them one after the other (Atomic); several processes interleave them.*)
(* Session i stands for the row and for its access and refresh token.  A     *)
(* dead row stays in the table for ever; its number is used again here once   *)
(* nobody holds a token of it, so MaxSessions bounds the sessions that matter *)
(* at one time and not the length of a behaviour.                             *)
(***************************************************************************)
EXTENDS Naturals, FiniteSets, Functions

CONSTANTS
  Tabs,
  Callers,       \* bound: the tabs that make API calls
  MaxSessions,   \* bound: sessions that somebody still holds a token of
  Atomic         \* one server process

ASSUME CallersAssumption == Callers \subseteq Tabs
ASSUME MaxSessionsAssumption == MaxSessions \in Nat
ASSUME AtomicAssumption == Atomic \in BOOLEAN

VARIABLES
  session,   \* table sessions: the login an active row descends from; 0 is inactive
  expired,   \* active rows whose access token is past its 15 minutes
  jar,       \* the refresh cookie; 0 is none
  access,    \* the access token in the memory of each tab; 0 is none
  refresh,   \* the refresh request of each tab
  call,      \* an API call of each tab
  logout,    \* the logout request of each tab
  signedOut  \* history: a logout was answered and nobody has logged in since

vars == <<session, expired, jar, access, refresh, call, logout, signedOut>>

Rows == 1..MaxSessions
Token == 0..MaxSessions

TypeOK ==
  /\ session \in [Rows -> Token]
  /\ expired \subseteq Rows
  /\ jar \in Token
  /\ access \in [Tabs -> Token]
  /\ refresh \in [Tabs -> [pc: {"none", "sent", "found", "rotating", "granted", "refused"},
                           cookie: Token, new: Token, login: Token]]
  /\ call \in [Tabs -> [pc: {"none", "sent", "authorized", "ok", "unauthorized",
                             "waiting", "failed"},
                        token: Token, retry: BOOLEAN]]
  /\ logout \in [Tabs -> [pc: {"none", "sent", "served"}, token: Token, cookie: Token]]
  /\ signedOut \in BOOLEAN

NoRefresh == [pc |-> "none", cookie |-> 0, new |-> 0, login |-> 0]

Init ==
  /\ session = [i \in Rows |-> 0]
  /\ expired = {}
  /\ jar = 0
  /\ access = [t \in Tabs |-> 0]
  /\ refresh = [t \in Tabs |-> NoRefresh]
  /\ call = [t \in Tabs |-> [pc |-> "none", token |-> 0, retry |-> FALSE]]
  /\ logout = [t \in Tabs |-> [pc |-> "none", token |-> 0, cookie |-> 0]]
  /\ signedOut = FALSE

-----------------------------------------------------------------------------

Active(i) == i # 0 /\ session[i] # 0
\* Somebody may still present a token of row i.
Held(i) ==
  \/ jar = i
  \/ \E t \in Tabs :
       i \in {access[t], call[t].token, refresh[t].cookie, refresh[t].new,
             logout[t].token, logout[t].cookie}
LoginGoesOn(i) == i \in Range(session) \/ \E t \in Tabs : refresh[t].login = i
Unused == {i \in Rows : ~Active(i) /\ ~Held(i) /\ ~LoginGoesOn(i)}
Fresh(i) == i \in Unused /\ \A j \in Unused : i <= j
Issued(i, login) == [session EXCEPT ![i] = login]
Killed(ids) == [i \in Rows |-> IF i \in ids THEN 0 ELSE session[i]]

\* login, answer included: a new row, the cookie and the tab's token.
Login(t) ==
  /\ access[t] = 0 /\ refresh[t].pc = "none" /\ logout[t].pc = "none"
  /\ \E i \in Rows :
       /\ Fresh(i)
       /\ session' = Issued(i, i)
       /\ jar' = i
       /\ access' = [access EXCEPT ![t] = i]
  /\ signedOut' = FALSE
  /\ UNCHANGED <<expired, refresh, call, logout>>

\* Time passes for an access token that a tab or a request carries.
Expire(i) ==
  /\ Active(i) /\ i \notin expired
  /\ \E t \in Tabs : i \in {access[t], call[t].token, logout[t].token}
  /\ expired' = expired \cup {i}
  /\ UNCHANGED <<session, jar, access, refresh, call, logout, signedOut>>

-----------------------------------------------------------------------------
(* API calls: apiFetch, get_current_user and extend_session                *)

Call(t) ==
  /\ call[t].pc = "none" /\ t \in Callers
  /\ call' = [call EXCEPT ![t] = [pc |-> "sent", token |-> access[t], retry |-> FALSE]]
  /\ UNCHANGED <<session, expired, jar, access, refresh, logout, signedOut>>

Authorize(t) ==
  /\ call[t].pc = "sent"
  /\ call' = [call EXCEPT ![t] =
       IF Active(call[t].token) /\ call[t].token \notin expired
       THEN [@ EXCEPT !.pc = "authorized"]
       ELSE [@ EXCEPT !.pc = "unauthorized", !.token = 0]]
  /\ UNCHANGED <<session, expired, jar, access, refresh, logout, signedOut>>

\* Mutant: extend_session writes the whole row that it loaded.
RowExtended(i) == [session EXCEPT ![i] = i]
\* Only last_activity and expires_at are written.
Extended(i) == session

Extend(t) ==
  /\ call[t].pc = "authorized"
  /\ call' = [call EXCEPT ![t] = [@ EXCEPT !.pc = "ok", !.token = 0]]
  /\ session' = Extended(call[t].token)
  /\ UNCHANGED <<expired, jar, access, refresh, logout, signedOut>>

RefreshSent(t) ==
  refresh' = [refresh EXCEPT ![t] = [NoRefresh EXCEPT !.pc = "sent", !.cookie = jar]]

\* Mutant: the retried call asks for another refresh.
AlwaysRetried(t) == TRUE
MayRefresh(t) == ~call[t].retry

\* A 401: join the refresh of the tab, or start it.
Unauthorized(t) ==
  /\ call[t].pc = "unauthorized"
  /\ IF MayRefresh(t)
     THEN /\ call' = [call EXCEPT ![t].pc = "waiting"]
          /\ IF refresh[t].pc = "none" THEN RefreshSent(t) ELSE UNCHANGED refresh
     ELSE call' = [call EXCEPT ![t].pc = "failed"] /\ UNCHANGED refresh
  /\ UNCHANGED <<session, expired, jar, access, logout, signedOut>>

\* The screen has used the answer.
Settle(t) ==
  /\ call[t].pc \in {"ok", "failed"}
  /\ call' = [call EXCEPT ![t] = [pc |-> "none", token |-> 0, retry |-> FALSE]]
  /\ UNCHANGED <<session, expired, jar, access, refresh, logout, signedOut>>

-----------------------------------------------------------------------------
(* Refresh: bootRefresh or a 401, rotate_refresh, attemptRefresh           *)

Boot(t) ==
  /\ access[t] = 0 /\ jar # 0 /\ refresh[t].pc = "none" /\ logout[t].pc = "none"
  /\ RefreshSent(t)
  /\ UNCHANGED <<session, expired, jar, access, call, logout, signedOut>>

Midway(t) == refresh[t].pc \in {"found", "rotating"}
\* No other coroutine of the process is in the middle of its statements.
LoopFree(t) == Atomic => \A s \in Tabs \ {t} : ~Midway(s)

FindRow(t) ==
  /\ refresh[t].pc = "sent" /\ LoopFree(t)
  /\ refresh' = [refresh EXCEPT ![t] =
       IF Active(refresh[t].cookie)
       THEN [@ EXCEPT !.pc = "found", !.login = session[refresh[t].cookie]]
       ELSE [@ EXCEPT !.pc = "refused", !.cookie = 0]]
  /\ UNCHANGED <<session, expired, jar, access, call, logout, signedOut>>

\* Mutant: the rotated row is left active.
KeptActive(i) == session
Rotated(i) == Killed({i})

Deactivate(t) ==
  /\ refresh[t].pc = "found"
  /\ session' = Rotated(refresh[t].cookie)
  /\ expired' = expired \ {refresh[t].cookie}
  /\ refresh' = [refresh EXCEPT ![t] = [@ EXCEPT !.pc = "rotating", !.cookie = 0]]
  /\ UNCHANGED <<jar, access, call, logout, signedOut>>

IssuePair(t) ==
  /\ refresh[t].pc = "rotating"
  /\ \E i \in Rows :
       /\ Fresh(i)
       /\ session' = Issued(i, refresh[t].login)
       /\ refresh' = [refresh EXCEPT ![t] = [@ EXCEPT !.pc = "granted", !.new = i, !.login = 0]]
  /\ UNCHANGED <<expired, jar, access, call, logout, signedOut>>

Forgotten(t) == [refresh EXCEPT ![t] = NoRefresh]

\* The waiting call goes out again, or fails with its own 401.
Woken(t, token) ==
  IF call[t].pc # "waiting" THEN call
  ELSE [call EXCEPT ![t] = [pc |-> "sent", token |-> token, retry |-> TRUE]]
\* Mutant: a failed refresh wakes nobody.
NotGivenUp(t) == call
GivenUp(t) == IF call[t].pc = "waiting" THEN [call EXCEPT ![t].pc = "failed"] ELSE call

Granted(t) ==
  /\ refresh[t].pc = "granted"
  /\ jar' = refresh[t].new
  /\ access' = [access EXCEPT ![t] = refresh[t].new]
  /\ call' = Woken(t, refresh[t].new)
  /\ refresh' = Forgotten(t)
  /\ UNCHANGED <<session, expired, logout, signedOut>>

\* The 401.  The handler deletes the cookie on its response object and then
\* raises: the framework answers with a response of its own, without it.
Refused(t) ==
  /\ refresh[t].pc = "refused"
  /\ access' = [access EXCEPT ![t] = 0]
  /\ call' = GivenUp(t)
  /\ refresh' = Forgotten(t)
  /\ UNCHANGED <<session, expired, jar, logout, signedOut>>

\* The request or its answer is lost, or the server dies between the commits.
RefreshLost(t) ==
  /\ refresh[t].pc # "none"
  /\ call' = GivenUp(t)
  /\ refresh' = Forgotten(t)
  /\ UNCHANGED <<session, expired, jar, access, logout, signedOut>>

-----------------------------------------------------------------------------
(* Logout                                                                  *)

Logout(t) ==
  /\ access[t] # 0 /\ logout[t].pc = "none"
  /\ logout' = [logout EXCEPT ![t] = [pc |-> "sent", token |-> access[t], cookie |-> jar]]
  /\ UNCHANGED <<session, expired, jar, access, refresh, call, signedOut>>

\* verify_token refuses an expired access token; the cookie is then all there is.
SignedOff(t) == ({logout[t].token} \ expired) \cup {logout[t].cookie}

ServeLogout(t) ==
  /\ logout[t].pc = "sent" /\ LoopFree(t) /\ (Atomic => ~Midway(t))
  /\ session' = Killed(SignedOff(t))
  /\ expired' = expired \ SignedOff(t)
  /\ logout' = [logout EXCEPT ![t] = [pc |-> "served", token |-> 0, cookie |-> 0]]
  /\ UNCHANGED <<jar, access, refresh, call, signedOut>>

LogoutAnswered(t) ==
  /\ logout[t].pc = "served"
  /\ jar' = 0
  /\ access' = [access EXCEPT ![t] = 0]
  /\ logout' = [logout EXCEPT ![t] = [pc |-> "none", token |-> 0, cookie |-> 0]]
  /\ signedOut' = TRUE
  /\ UNCHANGED <<session, expired, refresh, call>>

\* Errors are swallowed; the token in memory goes all the same.
LogoutLost(t) ==
  /\ logout[t].pc # "none"
  /\ access' = [access EXCEPT ![t] = 0]
  /\ logout' = [logout EXCEPT ![t] = [pc |-> "none", token |-> 0, cookie |-> 0]]
  /\ UNCHANGED <<session, expired, jar, refresh, call, signedOut>>

-----------------------------------------------------------------------------

CallStep(t) == Authorize(t) \/ Extend(t) \/ Unauthorized(t)
RefreshStep(t) ==
  \/ FindRow(t) \/ Deactivate(t) \/ IssuePair(t)
  \/ Granted(t) \/ Refused(t) \/ RefreshLost(t)

Next ==
  \/ \E i \in Rows : Expire(i)
  \/ \E t \in Tabs :
       \/ Login(t) \/ Boot(t) \/ Call(t) \/ CallStep(t) \/ Settle(t) \/ RefreshStep(t)
       \/ Logout(t) \/ ServeLogout(t) \/ LogoutAnswered(t) \/ LogoutLost(t)

Spec == Init /\ [][Next]_vars

\* Requests are answered or fail, and the tab's callbacks run.
FairSpec == Spec /\ \A t \in Tabs : WF_vars(CallStep(t)) /\ WF_vars(RefreshStep(t))

-----------------------------------------------------------------------------
(* Properties                                                              *)

\* A refresh token is good for one rotation: "already-rotated: returns None".
\* So a login has at most one live session, however many tabs refresh at once.
OneLiveSession ==
  \A i, j \in Rows : Active(i) /\ Active(j) /\ session[i] = session[j] => i = j

\* A session that was logged out or rotated away never lives again while a
\* token of it is about, also when a call that was authorised before extends it
\* afterwards.
DeadStaysDead ==
  [][\A i \in Rows : Held(i) /\ ~Active(i) => session'[i] = 0]_vars

\* A call that waits, waits for a refresh of its tab that is still under way:
\* whichever way the refresh ends, no call is left behind.
WaitsForRefresh == \A t \in Tabs : call[t].pc = "waiting" => refresh[t].pc # "none"

\* "On 401: we make ONE attempt to refresh, then retry": no call is retried for
\* ever, whatever the refreshes of its tab and of the others come to.
CallSettles == \A t \in Tabs : call[t].pc = "sent" ~> call[t].pc \in {"ok", "failed"}

\* "Always clears the cookie so the client can't keep re-logging-in silently":
\* after an answered logout nothing in the browser opens a session.  It fails
\* when a refresh that was already served is answered afterwards.
LogoutHolds ==
  signedOut => ~Active(jar) /\ \A t \in Tabs : ~Active(access[t])

\* "On any failure: clears the cookie and returns 401".  It fails: the header is
\* set on a response that the exception replaces.
RefusalClearsCookie ==
  [][\A t \in Tabs :
       refresh[t].pc = "refused" /\ refresh'[t].pc = "none" /\ access'[t] = 0 /\ access[t] # 0
         => jar' = 0]_vars
=============================================================================
