----------------------------- MODULE ServerProofs -----------------------------
(***************************************************************************)
(* Proofs about two components of the server that share no state.            *)
(*                                                                         *)
(* Sessions, for any tabs and any number of sessions held at once: what a    *)
(* refresh holds between its two commits, that a login has at most one live  *)
(* session when one process serves it, that dead sessions stay dead, and     *)
(* that no call waits for a refresh that is gone.                            *)
(*                                                                         *)
(* ImportJobs: types, that the materials of a test are in the store as long  *)
(* as its row exists, that a done job stands for a complete test, that the   *)
(* cap holds for one request at a time, that one process never overwrites a  *)
(* decided job, and that nothing is left in the store behind a deleted test. *)
(***************************************************************************)
EXTENDS Sessions, ImportJobs, FiniteSetTheorems, TLAPS

(***************************************************************************)
(* Sessions.                                                               *)
(***************************************************************************)

Refreshes == [pc: {"none", "sent", "found", "rotating", "granted", "refused"},
              cookie: Token, new: Token, login: Token]
Calls == [pc: {"none", "sent", "authorized", "ok", "unauthorized", "waiting", "failed"},
          token: Token, retry: BOOLEAN]
Logouts == [pc: {"none", "sent", "served"}, token: Token, cookie: Token]

\* Between find and commit the row is live and of the login that will go on;
\* between the commits nothing of that login is live.
RotationHeld ==
  \A t \in Tabs :
    /\ refresh[t].pc = "found" =>
         /\ refresh[t].cookie \in Rows
         /\ session[refresh[t].cookie] = refresh[t].login
         /\ refresh[t].login # 0
    /\ refresh[t].pc = "rotating" =>
         refresh[t].login # 0 /\ \A i \in Rows : session[i] # refresh[t].login

\* The process runs one rotation at a time.
OneRotation == \A s, t \in Tabs : Midway(s) /\ Midway(t) => s = t

IInv == TypeOK /\ RotationHeld /\ OneRotation /\ OneLiveSession

LEMMA TypeUnfolded == TypeOK <=>
  /\ session \in [Rows -> Token] /\ expired \subseteq Rows /\ jar \in Token
  /\ access \in [Tabs -> Token] /\ refresh \in [Tabs -> Refreshes]
  /\ call \in [Tabs -> Calls] /\ logout \in [Tabs -> Logouts] /\ signedOut \in BOOLEAN
  BY DEF TypeOK, Refreshes, Calls, Logouts

LEMMA Numbers == 0 \in Token /\ Rows \subseteq Token /\ 0 \notin Rows
                 /\ Token = Rows \cup {0}
  BY MaxSessionsAssumption DEF Token, Rows

LEMMA NoRefreshTyped == NoRefresh \in Refreshes /\ NoRefresh.pc = "none"
  BY Numbers DEF NoRefresh, Refreshes

-----------------------------------------------------------------------------
(* What the pieces of a step do                                            *)

\* A refresh that moves on.
LEMMA RefreshMoved ==
  ASSUME NEW r \in Refreshes, NEW i \in Token
  PROVE  /\ [r EXCEPT !.pc = "found", !.login = i] \in Refreshes
         /\ [r EXCEPT !.pc = "refused", !.cookie = 0] \in Refreshes
         /\ [r EXCEPT !.pc = "rotating", !.cookie = 0] \in Refreshes
         /\ [r EXCEPT !.pc = "granted", !.new = i, !.login = 0] \in Refreshes
         /\ r.login \in Token /\ r.new \in Token /\ r.cookie \in Token
  BY Numbers DEF Refreshes

\* A refresh that is forgotten.
LEMMA ForgottenTyped ==
  ASSUME refresh \in [Tabs -> Refreshes], NEW t \in Tabs, refresh' = Forgotten(t)
  PROVE  /\ refresh' \in [Tabs -> Refreshes] /\ refresh'[t].pc = "none"
         /\ \A s \in Tabs : s # t => refresh'[s] = refresh[s]
  BY NoRefreshTyped DEF Forgotten

\* A refresh that is sent.
LEMMA SentTyped ==
  ASSUME refresh \in [Tabs -> Refreshes], jar \in Token, NEW t \in Tabs, RefreshSent(t)
  PROVE  /\ refresh' \in [Tabs -> Refreshes] /\ refresh'[t].pc = "sent"
         /\ \A s \in Tabs : s # t => refresh'[s] = refresh[s]
  <1>1. \A r \in Refreshes : /\ [r EXCEPT !.pc = "sent", !.cookie = jar] \in Refreshes
                             /\ [r EXCEPT !.pc = "sent", !.cookie = jar].pc = "sent"
    BY DEF Refreshes
  <1> QED BY <1>1, NoRefreshTyped DEF RefreshSent

\* A call that is woken or given up does not wait any more.
LEMMA GivenUpTyped ==
  ASSUME call \in [Tabs -> Calls], NEW t \in Tabs, call' = GivenUp(t)
  PROVE  /\ call' \in [Tabs -> Calls] /\ call'[t].pc # "waiting"
         /\ \A s \in Tabs : s # t => call'[s] = call[s]
  <1>1. CASE call[t].pc = "waiting"
    <2>1. [call[t] EXCEPT !.pc = "failed"] \in Calls
      BY DEF Calls
    <2>2. call' = [call EXCEPT ![t] = [call[t] EXCEPT !.pc = "failed"]]
      BY <1>1 DEF GivenUp
    <2>3. [call[t] EXCEPT !.pc = "failed"].pc = "failed"
      BY DEF Calls
    <2> QED BY <2>1, <2>2, <2>3
  <1>2. CASE call[t].pc # "waiting"
    BY <1>2 DEF GivenUp
  <1> QED BY <1>1, <1>2

LEMMA WokenTyped ==
  ASSUME call \in [Tabs -> Calls], NEW t \in Tabs, NEW i \in Token, call' = Woken(t, i)
  PROVE  /\ call' \in [Tabs -> Calls] /\ call'[t].pc # "waiting"
         /\ \A s \in Tabs : s # t => call'[s] = call[s]
  <1>1. CASE call[t].pc = "waiting"
    <2>1. [pc |-> "sent", token |-> i, retry |-> TRUE] \in Calls
      BY DEF Calls
    <2> QED BY <1>1, <2>1 DEF Woken
  <1>2. CASE call[t].pc # "waiting"
    BY <1>2 DEF Woken
  <1> QED BY <1>1, <1>2

\* A call that goes on to another point.
LEMMA CallMoved ==
  ASSUME call \in [Tabs -> Calls], NEW t \in Tabs, NEW c \in Calls, call' = [call EXCEPT ![t] = c]
  PROVE  /\ call' \in [Tabs -> Calls] /\ call'[t] = c
         /\ \A s \in Tabs : s # t => call'[s] = call[s]
  OBVIOUS

\* Rows that are killed: nothing becomes live, and nothing else changes.
LEMMA KilledTyped ==
  ASSUME session \in [Rows -> Token], NEW ids, session' = Killed(ids)
  PROVE  /\ session' \in [Rows -> Token]
         /\ \A i \in Rows : session'[i] = IF i \in ids THEN 0 ELSE session[i]
  BY Numbers DEF Killed

\* A row that is issued.
LEMMA IssuedTyped ==
  ASSUME session \in [Rows -> Token], NEW i \in Rows, NEW login \in Token,
         session' = Issued(i, login)
  PROVE  /\ session' \in [Rows -> Token] /\ session'[i] = login
         /\ \A j \in Rows : j # i => session'[j] = session[j]
  BY DEF Issued

\* A fresh number belongs to no live row, to no token that is held and to no
\* login that goes on.
LEMMA FreshFree ==
  ASSUME session \in [Rows -> Token], NEW i \in Rows, Fresh(i)
  PROVE  /\ session[i] = 0 /\ ~Held(i) /\ \A j \in Rows : session[j] # i
         /\ \A t \in Tabs : refresh[t].login # i
  <1>1. ~Active(i) /\ ~Held(i) /\ ~LoginGoesOn(i)
    BY DEF Fresh, Unused
  <1>2. session[i] = 0
    BY <1>1, Numbers DEF Active
  <1> QED BY <1>1, <1>2 DEF LoginGoesOn, Range

-----------------------------------------------------------------------------
(* The invariant                                                           *)

LEMMA InitInv == Init => IInv /\ WaitsForRefresh
  <1> SUFFICES ASSUME Init PROVE IInv /\ WaitsForRefresh
    OBVIOUS
  <1>1. [pc |-> "none", token |-> 0, retry |-> FALSE] \in Calls
    BY Numbers DEF Calls
  <1>2. [pc |-> "none", token |-> 0, cookie |-> 0] \in Logouts
    BY Numbers DEF Logouts
  <1>3. TypeOK
    BY <1>1, <1>2, Numbers, NoRefreshTyped, TypeUnfolded DEF Init
  <1>4. \A t \in Tabs : refresh[t].pc = "none" /\ call[t].pc = "none"
    BY NoRefreshTyped DEF Init
  <1>5. \A i \in Rows : ~Active(i)
    BY DEF Init, Active
  <1> QED BY <1>3, <1>4, <1>5 DEF IInv, RotationHeld, OneRotation, OneLiveSession, WaitsForRefresh, Midway

\* A step that leaves the rows alone and starts no rotation.
LEMMA RowsKept ==
  ASSUME IInv, TypeOK', UNCHANGED session,
         \A t \in Tabs : refresh'[t] = refresh[t] \/ ~Midway(t)'
  PROVE  IInv'
  <1>1. \A t \in Tabs : Midway(t)' => refresh'[t] = refresh[t] /\ Midway(t)
    BY DEF Midway
  <1>2. RotationHeld'
    BY <1>1 DEF IInv, RotationHeld, Midway
  <1>3. OneRotation'
    BY <1>1 DEF IInv, OneRotation
  <1>4. OneLiveSession'
    BY DEF IInv, OneLiveSession, Active
  <1> QED BY <1>2, <1>3, <1>4 DEF IInv

\* A step that only kills rows while no rotation that survives it is under way.
LEMMA RowsDie ==
  ASSUME IInv, TypeOK', NEW ids, session' = Killed(ids),
         \A t \in Tabs : Midway(t)' => refresh'[t].pc = "rotating" /\ refresh'[t].login # 0
                                       /\ \A i \in Rows : session'[i] # refresh'[t].login,
         OneRotation'
  PROVE  IInv'
  <1>1. \A i \in Rows : session'[i] = IF i \in ids THEN 0 ELSE session[i]
    BY KilledTyped, TypeUnfolded DEF IInv
  <1>2. RotationHeld'
    BY DEF RotationHeld, Midway
  <1>3. \A i \in Rows : Active(i)' => Active(i) /\ session'[i] = session[i]
    BY <1>1 DEF Active
  <1>4. OneLiveSession'
    BY <1>3 DEF IInv, OneLiveSession
  <1> QED BY <1>2, <1>4 DEF IInv

-----------------------------------------------------------------------------
(* Types                                                                   *)

LEMMA TypeFolded ==
  ASSUME session' \in [Rows -> Token], expired' \subseteq Rows, jar' \in Token,
         access' \in [Tabs -> Token], refresh' \in [Tabs -> Refreshes],
         call' \in [Tabs -> Calls], logout' \in [Tabs -> Logouts], signedOut' \in BOOLEAN
  PROVE  TypeOK'
  BY DEF TypeOK, Refreshes, Calls, Logouts

LEMMA TypeNext == TypeOK /\ [Next]_vars => TypeOK'
  <1> SUFFICES ASSUME TypeOK, [Next]_vars PROVE TypeOK'
    OBVIOUS
  <1> USE Numbers
  <1>0. /\ session \in [Rows -> Token] /\ expired \subseteq Rows /\ jar \in Token
        /\ access \in [Tabs -> Token] /\ refresh \in [Tabs -> Refreshes]
        /\ call \in [Tabs -> Calls] /\ logout \in [Tabs -> Logouts] /\ signedOut \in BOOLEAN
    BY TypeUnfolded
  <1>1. CASE UNCHANGED vars
    BY <1>0, <1>1, TypeFolded DEF vars
  <1>2. ASSUME NEW i \in Rows, Expire(i) PROVE TypeOK'
    <2>1. expired' \subseteq Rows
      BY <1>0, <1>2 DEF Expire
    <2> QED BY <1>0, <1>2, <2>1, TypeFolded DEF Expire
  <1>3. ASSUME NEW t \in Tabs, Login(t) PROVE TypeOK'
    <2>1. PICK i \in Rows : session' = Issued(i, i) /\ jar' = i /\ access' = [access EXCEPT ![t] = i]
      BY <1>3 DEF Login
    <2>2. session' \in [Rows -> Token] /\ jar' \in Token /\ access' \in [Tabs -> Token]
      BY <1>0, <2>1, IssuedTyped
    <2>3. UNCHANGED <<expired, refresh, call, logout>> /\ signedOut' \in BOOLEAN
      BY <1>3 DEF Login
    <2> QED BY <1>0, <2>2, <2>3, TypeFolded
  <1>4. ASSUME NEW t \in Tabs, Boot(t) PROVE TypeOK'
    <2>1. refresh' \in [Tabs -> Refreshes]
      BY <1>0, <1>4, SentTyped DEF Boot
    <2> QED BY <1>0, <1>4, <2>1, TypeFolded DEF Boot
  <1>5. ASSUME NEW t \in Tabs, Call(t) \/ Settle(t) \/ Authorize(t) \/ Extend(t) PROVE TypeOK'
    <2>1. /\ [pc |-> "sent", token |-> access[t], retry |-> FALSE] \in Calls
          /\ [pc |-> "none", token |-> 0, retry |-> FALSE] \in Calls
          /\ [call[t] EXCEPT !.pc = "authorized"] \in Calls
          /\ [call[t] EXCEPT !.pc = "unauthorized", !.token = 0] \in Calls
          /\ [call[t] EXCEPT !.pc = "ok", !.token = 0] \in Calls
      BY <1>0 DEF Calls
    <2>2. \E c \in Calls : call' = [call EXCEPT ![t] = c]
      BY <1>5, <2>1 DEF Call, Settle, Authorize, Extend
    <2>3. call' \in [Tabs -> Calls]
      BY <1>0, <2>2
    <2>4. UNCHANGED <<session, expired, jar, access, refresh, logout, signedOut>>
      BY <1>5 DEF Call, Settle, Authorize, Extend, Extended
    <2> QED BY <1>0, <2>3, <2>4, TypeFolded
  <1>6. ASSUME NEW t \in Tabs, Unauthorized(t) PROVE TypeOK'
    <2>1. /\ [call[t] EXCEPT !.pc = "waiting"] \in Calls
          /\ [call[t] EXCEPT !.pc = "failed"] \in Calls
      BY <1>0 DEF Calls
    <2>2. \/ call' = [call EXCEPT ![t] = [call[t] EXCEPT !.pc = "waiting"]]
          \/ call' = [call EXCEPT ![t] = [call[t] EXCEPT !.pc = "failed"]]
      BY <1>6 DEF Unauthorized
    <2>3. call' \in [Tabs -> Calls]
      BY <1>0, <2>1, <2>2
    <2>4. RefreshSent(t) \/ UNCHANGED refresh
      BY <1>6 DEF Unauthorized
    <2>5. refresh' \in [Tabs -> Refreshes]
      BY <1>0, <2>4, SentTyped
    <2>6. UNCHANGED <<session, expired, jar, access, logout, signedOut>>
      BY <1>6 DEF Unauthorized
    <2> QED BY <1>0, <2>3, <2>5, <2>6, TypeFolded
  <1>7. ASSUME NEW t \in Tabs, FindRow(t) PROVE TypeOK'
    <2>1. [refresh[t] EXCEPT !.pc = "refused", !.cookie = 0] \in Refreshes
      BY <1>0, RefreshMoved
    <2>2. CASE Active(refresh[t].cookie)
      <3>1. session[refresh[t].cookie] \in Token
        BY <1>0, <2>2 DEF Active, Refreshes
      <3>2. [refresh[t] EXCEPT !.pc = "found", !.login = session[refresh[t].cookie]] \in Refreshes
        BY <1>0, <3>1, RefreshMoved
      <3>3. refresh' = [refresh EXCEPT ![t] =
              [refresh[t] EXCEPT !.pc = "found", !.login = session[refresh[t].cookie]]]
        BY <1>7, <2>2 DEF FindRow
      <3>4. refresh' \in [Tabs -> Refreshes]
        BY <1>0, <3>2, <3>3
      <3> QED BY <1>0, <1>7, <3>4, TypeFolded DEF FindRow
    <2>3. CASE ~Active(refresh[t].cookie)
      <3>1. refresh' = [refresh EXCEPT ![t] = [refresh[t] EXCEPT !.pc = "refused", !.cookie = 0]]
        BY <1>7, <2>3 DEF FindRow
      <3>2. refresh' \in [Tabs -> Refreshes]
        BY <1>0, <2>1, <3>1
      <3> QED BY <1>0, <1>7, <3>2, TypeFolded DEF FindRow
    <2> QED BY <2>2, <2>3
  <1>8. ASSUME NEW t \in Tabs, Deactivate(t) PROVE TypeOK'
    <2>1. [refresh[t] EXCEPT !.pc = "rotating", !.cookie = 0] \in Refreshes
      BY <1>0, RefreshMoved
    <2>2. refresh' \in [Tabs -> Refreshes]
      BY <1>0, <1>8, <2>1 DEF Deactivate
    <2>3. session' \in [Rows -> Token]
      BY <1>0, <1>8, KilledTyped DEF Deactivate, Rotated
    <2>4. expired' \subseteq Rows
      BY <1>0, <1>8 DEF Deactivate
    <2> QED BY <1>0, <1>8, <2>2, <2>3, <2>4, TypeFolded DEF Deactivate
  <1>9. ASSUME NEW t \in Tabs, IssuePair(t) PROVE TypeOK'
    <2>1. PICK i \in Rows :
            /\ session' = Issued(i, refresh[t].login)
            /\ refresh' = [refresh EXCEPT ![t] =
                 [refresh[t] EXCEPT !.pc = "granted", !.new = i, !.login = 0]]
      BY <1>9 DEF IssuePair
    <2>2. /\ [refresh[t] EXCEPT !.pc = "granted", !.new = i, !.login = 0] \in Refreshes
          /\ refresh[t].login \in Token
      BY <1>0, RefreshMoved
    <2>3. refresh' \in [Tabs -> Refreshes]
      BY <1>0, <2>1, <2>2
    <2>4. session' \in [Rows -> Token]
      BY <1>0, <2>1, <2>2, IssuedTyped
    <2> QED BY <1>0, <1>9, <2>3, <2>4, TypeFolded DEF IssuePair
  <1>10. ASSUME NEW t \in Tabs, Granted(t) PROVE TypeOK'
    <2>1. refresh[t].new \in Token
      BY <1>0 DEF Refreshes
    <2>2. access' \in [Tabs -> Token] /\ jar' \in Token
      BY <1>0, <1>10, <2>1 DEF Granted
    <2>3. call' \in [Tabs -> Calls]
      BY <1>0, <1>10, <2>1, WokenTyped DEF Granted
    <2>4. refresh' \in [Tabs -> Refreshes]
      BY <1>0, <1>10, ForgottenTyped DEF Granted
    <2> QED BY <1>0, <1>10, <2>2, <2>3, <2>4, TypeFolded DEF Granted
  <1>11. ASSUME NEW t \in Tabs, Refused(t) \/ RefreshLost(t) PROVE TypeOK'
    <2>1. access' \in [Tabs -> Token]
      BY <1>0, <1>11 DEF Refused, RefreshLost
    <2>2. call' \in [Tabs -> Calls] /\ refresh' \in [Tabs -> Refreshes]
      BY <1>0, <1>11, GivenUpTyped, ForgottenTyped DEF Refused, RefreshLost
    <2>3. UNCHANGED <<session, expired, jar, logout, signedOut>>
      BY <1>11 DEF Refused, RefreshLost
    <2> QED BY <1>0, <2>1, <2>2, <2>3, TypeFolded
  <1>12. ASSUME NEW t \in Tabs, Logout(t) \/ LogoutAnswered(t) \/ LogoutLost(t) PROVE TypeOK'
    <2>1. /\ [pc |-> "sent", token |-> access[t], cookie |-> jar] \in Logouts
          /\ [pc |-> "none", token |-> 0, cookie |-> 0] \in Logouts
      BY <1>0 DEF Logouts
    <2>2. logout' \in [Tabs -> Logouts]
      BY <1>0, <1>12, <2>1 DEF Logout, LogoutAnswered, LogoutLost
    <2>3. access' \in [Tabs -> Token] /\ jar' \in Token /\ signedOut' \in BOOLEAN
      BY <1>0, <1>12 DEF Logout, LogoutAnswered, LogoutLost
    <2>4. UNCHANGED <<session, expired, refresh, call>>
      BY <1>12 DEF Logout, LogoutAnswered, LogoutLost
    <2> QED BY <1>0, <2>2, <2>3, <2>4, TypeFolded
  <1>13. ASSUME NEW t \in Tabs, ServeLogout(t) PROVE TypeOK'
    <2>1. [pc |-> "served", token |-> 0, cookie |-> 0] \in Logouts
      BY DEF Logouts
    <2>2. logout' \in [Tabs -> Logouts]
      BY <1>0, <1>13, <2>1 DEF ServeLogout
    <2>3. session' \in [Rows -> Token]
      BY <1>0, <1>13, KilledTyped DEF ServeLogout
    <2>4. expired' \subseteq Rows
      BY <1>0, <1>13 DEF ServeLogout
    <2> QED BY <1>0, <1>13, <2>2, <2>3, <2>4, TypeFolded DEF ServeLogout
  <1> QED BY <1>1, <1>2, <1>3, <1>4, <1>5, <1>6, <1>7, <1>8, <1>9, <1>10, <1>11, <1>12, <1>13
          DEF Next, CallStep, RefreshStep

-----------------------------------------------------------------------------
(* One live session per login, when one process serves the requests        *)

\* What the steps of a rotation leave in the refresh of their tab.
LEMMA RotationFields ==
  ASSUME refresh \in [Tabs -> Refreshes], NEW t \in Tabs, NEW i
  PROVE  /\ refresh' = [refresh EXCEPT ![t] = [refresh[t] EXCEPT !.pc = "found", !.login = i]]
            => /\ refresh'[t].pc = "found" /\ refresh'[t].login = i
               /\ refresh'[t].cookie = refresh[t].cookie
               /\ \A s \in Tabs : s # t => refresh'[s] = refresh[s]
         /\ refresh' = [refresh EXCEPT ![t] = [refresh[t] EXCEPT !.pc = "refused", !.cookie = 0]]
            => /\ refresh'[t].pc = "refused"
               /\ \A s \in Tabs : s # t => refresh'[s] = refresh[s]
         /\ refresh' = [refresh EXCEPT ![t] = [refresh[t] EXCEPT !.pc = "rotating", !.cookie = 0]]
            => /\ refresh'[t].pc = "rotating" /\ refresh'[t].login = refresh[t].login
               /\ \A s \in Tabs : s # t => refresh'[s] = refresh[s]
         /\ refresh' = [refresh EXCEPT ![t] =
                          [refresh[t] EXCEPT !.pc = "granted", !.new = i, !.login = 0]]
            => /\ refresh'[t].pc = "granted"
               /\ \A s \in Tabs : s # t => refresh'[s] = refresh[s]
  <1>1. \A r \in Refreshes :
          /\ [r EXCEPT !.pc = "found", !.login = i].pc = "found"
          /\ [r EXCEPT !.pc = "found", !.login = i].login = i
          /\ [r EXCEPT !.pc = "found", !.login = i].cookie = r.cookie
          /\ [r EXCEPT !.pc = "refused", !.cookie = 0].pc = "refused"
          /\ [r EXCEPT !.pc = "rotating", !.cookie = 0].pc = "rotating"
          /\ [r EXCEPT !.pc = "rotating", !.cookie = 0].login = r.login
          /\ [r EXCEPT !.pc = "granted", !.new = i, !.login = 0].pc = "granted"
    BY DEF Refreshes
  <1>2. ASSUME NEW r, refresh' = [refresh EXCEPT ![t] = r]
        PROVE  refresh'[t] = r /\ \A s \in Tabs : s # t => refresh'[s] = refresh[s]
    BY <1>2
  <1>3. refresh[t] \in Refreshes
    OBVIOUS
  <1>4. CASE refresh' = [refresh EXCEPT ![t] = [refresh[t] EXCEPT !.pc = "found", !.login = i]]
    BY <1>1, <1>2, <1>3, <1>4
  <1>5. CASE refresh' = [refresh EXCEPT ![t] = [refresh[t] EXCEPT !.pc = "refused", !.cookie = 0]]
    BY <1>1, <1>2, <1>3, <1>5
  <1>6. CASE refresh' = [refresh EXCEPT ![t] = [refresh[t] EXCEPT !.pc = "rotating", !.cookie = 0]]
    BY <1>1, <1>2, <1>3, <1>6
  <1>7. CASE refresh' = [refresh EXCEPT ![t] =
                          [refresh[t] EXCEPT !.pc = "granted", !.new = i, !.login = 0]]
    BY <1>1, <1>2, <1>3, <1>7
  <1> QED BY <1>4, <1>5, <1>6, <1>7

LEMMA FindRowKeeps ==
  ASSUME Atomic, IInv, TypeOK', NEW t \in Tabs, FindRow(t)
  PROVE  IInv'
  <1>1. refresh \in [Tabs -> Refreshes] /\ session \in [Rows -> Token]
    BY TypeUnfolded DEF IInv
  <1>2. CASE Active(refresh[t].cookie)
    <2>1. /\ refresh'[t].pc = "found" /\ refresh'[t].login = session[refresh[t].cookie]
          /\ refresh'[t].cookie = refresh[t].cookie
          /\ \A s \in Tabs : s # t => refresh'[s] = refresh[s]
      BY <1>1, <1>2, RotationFields DEF FindRow
    <2>2. \A s \in Tabs \ {t} : ~Midway(s) /\ ~Midway(s)'
      BY <2>1 DEF FindRow, LoopFree, Midway
    <2>3. refresh[t].cookie \in Rows /\ session[refresh[t].cookie] # 0
      BY <1>1, <1>2, RefreshMoved, Numbers DEF Active
    <2>4. UNCHANGED session
      BY DEF FindRow
    <2>5. RotationHeld'
      BY <2>1, <2>2, <2>3, <2>4 DEF RotationHeld, Midway
    <2>6. OneRotation'
      BY <2>2 DEF OneRotation
    <2>7. OneLiveSession'
      BY <2>4 DEF IInv, OneLiveSession, Active
    <2> QED BY <2>5, <2>6, <2>7 DEF IInv
  <1>3. CASE ~Active(refresh[t].cookie)
    <2>1. /\ refresh'[t].pc = "refused"
          /\ \A s \in Tabs : s # t => refresh'[s] = refresh[s]
      BY <1>1, <1>3, RotationFields DEF FindRow
    <2>2. UNCHANGED session
      BY DEF FindRow
    <2> QED BY <2>1, <2>2, RowsKept DEF Midway
  <1> QED BY <1>2, <1>3

LEMMA DeactivateKeeps ==
  ASSUME IInv, TypeOK', NEW t \in Tabs, Deactivate(t)
  PROVE  IInv'
  <1>1. refresh \in [Tabs -> Refreshes] /\ session \in [Rows -> Token]
    BY TypeUnfolded DEF IInv
  <1>2. /\ refresh'[t].pc = "rotating" /\ refresh'[t].login = refresh[t].login
        /\ \A s \in Tabs : s # t => refresh'[s] = refresh[s]
    BY <1>1, RotationFields DEF Deactivate
  <1>3. \A s \in Tabs \ {t} : ~Midway(s) /\ ~Midway(s)'
    BY <1>2 DEF IInv, OneRotation, Midway, Deactivate
  <1>4. /\ refresh[t].cookie \in Rows /\ refresh[t].login # 0
        /\ session[refresh[t].cookie] = refresh[t].login
    BY DEF IInv, RotationHeld, Deactivate
  <1>5. \A i \in Rows : session[i] = refresh[t].login => i = refresh[t].cookie
    BY <1>4, Numbers DEF IInv, OneLiveSession, Active
  <1>6. session' = Killed({refresh[t].cookie})
    BY DEF Deactivate, Rotated
  <1>7. \A i \in Rows : session'[i] # refresh'[t].login
    BY <1>1, <1>2, <1>4, <1>5, <1>6, KilledTyped
  <1>8. OneRotation'
    BY <1>3 DEF OneRotation
  <1> QED BY <1>2, <1>3, <1>4, <1>6, <1>7, <1>8, RowsDie

LEMMA IssuePairKeeps ==
  ASSUME IInv, TypeOK', NEW t \in Tabs, IssuePair(t)
  PROVE  IInv'
  <1>1. refresh \in [Tabs -> Refreshes] /\ session \in [Rows -> Token]
    BY TypeUnfolded DEF IInv
  <1>2. PICK i \in Rows :
          /\ Fresh(i) /\ session' = Issued(i, refresh[t].login)
          /\ refresh' = [refresh EXCEPT ![t] =
               [refresh[t] EXCEPT !.pc = "granted", !.new = i, !.login = 0]]
    BY DEF IssuePair
  <1>3. /\ refresh'[t].pc = "granted"
        /\ \A s \in Tabs : s # t => refresh'[s] = refresh[s]
    BY <1>1, <1>2, RotationFields
  <1>4. \A s \in Tabs : ~Midway(s)'
    BY <1>3 DEF IInv, OneRotation, Midway, IssuePair
  <1>5. refresh[t].login \in Token
    BY <1>1, RefreshMoved, Numbers
  <1>6. session'[i] = refresh[t].login /\ \A j \in Rows : j # i => session'[j] = session[j]
    BY <1>1, <1>2, <1>5, IssuedTyped
  <1>7. \A j \in Rows : session[j] # refresh[t].login
    BY DEF IInv, RotationHeld, IssuePair
  <1>8. OneLiveSession'
    BY <1>6, <1>7 DEF IInv, OneLiveSession, Active
  <1> QED BY <1>4, <1>8 DEF IInv, RotationHeld, OneRotation, Midway

LEMMA LoginKeeps ==
  ASSUME IInv, TypeOK', NEW t \in Tabs, Login(t)
  PROVE  IInv'
  <1>1. session \in [Rows -> Token] /\ UNCHANGED refresh
    BY TypeUnfolded DEF IInv, Login
  <1>2. PICK i \in Rows : Fresh(i) /\ session' = Issued(i, i)
    BY DEF Login
  <1>3. session'[i] = i /\ \A j \in Rows : j # i => session'[j] = session[j]
    BY <1>1, <1>2, Numbers, IssuedTyped
  <1>4. /\ session[i] = 0 /\ \A j \in Rows : session[j] # i
        /\ \A s \in Tabs : refresh[s].login # i
    BY <1>1, <1>2, FreshFree
  <1>5. OneLiveSession'
    BY <1>3, <1>4 DEF IInv, OneLiveSession, Active
  <1>6. RotationHeld'
    BY <1>1, <1>3, <1>4 DEF IInv, RotationHeld
  <1>7. OneRotation'
    BY <1>1 DEF IInv, OneRotation, Midway
  <1> QED BY <1>5, <1>6, <1>7 DEF IInv

LEMMA ServeLogoutKeeps ==
  ASSUME Atomic, IInv, TypeOK', NEW t \in Tabs, ServeLogout(t)
  PROVE  IInv'
  <1>1. \A s \in Tabs : ~Midway(s)'
    BY DEF ServeLogout, LoopFree, Midway
  <1>2. session' = Killed(SignedOff(t))
    BY DEF ServeLogout
  <1>3. OneRotation'
    BY <1>1 DEF OneRotation
  <1> QED BY <1>1, <1>2, <1>3, RowsDie

\* The answer of a refresh, its loss, and a refresh that is sent.
LEMMA AnswerKeeps ==
  ASSUME IInv, TypeOK', NEW t \in Tabs,
         Granted(t) \/ Refused(t) \/ RefreshLost(t) \/ Boot(t) \/ Unauthorized(t)
  PROVE  IInv'
  <1>1. refresh \in [Tabs -> Refreshes] /\ jar \in Token
    BY TypeUnfolded DEF IInv
  <1>2. refresh' = Forgotten(t) \/ RefreshSent(t) \/ UNCHANGED refresh
    BY DEF Granted, Refused, RefreshLost, Boot, Unauthorized
  <1>3. \A s \in Tabs : refresh'[s] = refresh[s] \/ refresh'[s].pc \in {"none", "sent"}
    BY <1>1, <1>2, ForgottenTyped, SentTyped
  <1>4. UNCHANGED session
    BY DEF Granted, Refused, RefreshLost, Boot, Unauthorized
  <1> QED BY <1>3, <1>4, RowsKept DEF Midway

LEMMA StepInv == Atomic /\ IInv /\ [Next]_vars => IInv'
  <1> SUFFICES ASSUME Atomic, IInv, [Next]_vars PROVE IInv'
    OBVIOUS
  <1>1. TypeOK'
    BY TypeNext DEF IInv
  <1>2. CASE UNCHANGED <<session, refresh>>
    BY <1>1, <1>2, RowsKept
  <1>3. ASSUME NEW t \in Tabs, Granted(t) \/ Refused(t) \/ RefreshLost(t) \/ Boot(t) \/ Unauthorized(t)
        PROVE  IInv'
    BY <1>1, <1>3, AnswerKeeps
  <1>4. ASSUME NEW t \in Tabs,
               FindRow(t) \/ Deactivate(t) \/ IssuePair(t) \/ Login(t) \/ ServeLogout(t)
        PROVE  IInv'
    BY <1>1, <1>4, FindRowKeeps, DeactivateKeeps, IssuePairKeeps, LoginKeeps, ServeLogoutKeeps
  <1>5. ASSUME NEW t \in Tabs,
               \/ Call(t) \/ Authorize(t) \/ Extend(t) \/ Settle(t)
               \/ Logout(t) \/ LogoutAnswered(t) \/ LogoutLost(t)
        PROVE  UNCHANGED <<session, refresh>>
    BY <1>5 DEF Call, Authorize, Extend, Extended, Settle, Logout, LogoutAnswered, LogoutLost
  <1>6. ASSUME NEW i \in Rows, Expire(i) PROVE UNCHANGED <<session, refresh>>
    BY <1>6 DEF Expire
  <1>7. CASE UNCHANGED vars
    BY <1>2, <1>7 DEF vars
  <1> QED BY <1>2, <1>3, <1>4, <1>5, <1>6, <1>7 DEF Next, CallStep, RefreshStep

-----------------------------------------------------------------------------
(* Theorems                                                                *)

\* The parts of the state have their types, with one process or several (the session table, the
\* cookie, and what apiFetch and bootRefresh hold in each tab).
THEOREM TypeCorrect == Spec => []TypeOK
  <1>1. Init => TypeOK
    BY InitInv DEF IInv
  <1> QED BY <1>1, TypeNext, PTL DEF Spec

\* When one process serves the requests, a login has at most one live session, however many tabs
\* refresh, log in and log out at once (rotate_refresh: find, deactivate, issue).
THEOREM OneSessionLives == Atomic /\ Spec => []OneLiveSession
  <1>1. IInv => OneLiveSession
    BY DEF IInv
  <1>2. Atomic /\ Spec => []IInv
    <2>1. CASE Atomic
      <3>1. IInv /\ [Next]_vars => IInv'
        BY <2>1, StepInv
      <3> QED BY <3>1, InitInv, PTL DEF Spec
    <2>2. CASE ~Atomic
      BY <2>2
    <2> QED BY <2>1, <2>2
  <1> QED BY <1>1, <1>2, PTL

\* No step revives a session that was rotated away or logged out while somebody holds a token of
\* it, with one process or several (extend_session, create_session_with_refresh).
THEOREM DeadAreDead == Spec => DeadStaysDead
  <1> DEFINE Dead == \A i \in Rows : Held(i) /\ ~Active(i) => session'[i] = 0
  <1>1. TypeOK /\ [Next]_vars => [Dead]_vars
    <2> SUFFICES ASSUME TypeOK, Next PROVE Dead
      OBVIOUS
    <2>0. /\ session \in [Rows -> Token]
          /\ \A i \in Rows : ~Active(i) => session[i] = 0
          /\ \A t \in Tabs : refresh[t].login \in Token
      BY TypeUnfolded, RefreshMoved, Numbers DEF Active
    <2>1. CASE UNCHANGED session
      BY <2>0, <2>1
    <2>2. ASSUME NEW ids, session' = Killed(ids) PROVE Dead
      BY <2>0, <2>2, KilledTyped
    <2>3. ASSUME NEW i \in Rows, NEW login \in Token, Fresh(i), session' = Issued(i, login)
          PROVE  Dead
      BY <2>0, <2>3, IssuedTyped, FreshFree
    <2>4. ASSUME NEW t \in Tabs, Login(t) \/ IssuePair(t) PROVE Dead
      BY <2>0, <2>3, <2>4, Numbers DEF Login, IssuePair
    <2>5. ASSUME NEW t \in Tabs, Deactivate(t) \/ ServeLogout(t) PROVE Dead
      BY <2>2, <2>5 DEF Deactivate, Rotated, ServeLogout
    <2>6. ASSUME NEW t \in Tabs,
                 \/ Boot(t) \/ Call(t) \/ CallStep(t) \/ Settle(t) \/ FindRow(t)
                 \/ Granted(t) \/ Refused(t) \/ RefreshLost(t)
                 \/ Logout(t) \/ LogoutAnswered(t) \/ LogoutLost(t)
          PROVE  UNCHANGED session
      BY <2>6 DEF Boot, Call, CallStep, Authorize, Extend, Extended, Unauthorized, Settle, FindRow,
                  Granted, Refused, RefreshLost, Logout, LogoutAnswered, LogoutLost
    <2>7. ASSUME NEW i \in Rows, Expire(i) PROVE UNCHANGED session
      BY <2>7 DEF Expire
    <2> QED BY <2>1, <2>4, <2>5, <2>6, <2>7 DEF Next, RefreshStep
  <1>2. Spec => [][Dead]_vars
    BY <1>1, TypeCorrect, PTL DEF Spec
  <1> QED BY <1>2 DEF DeadStaysDead

\* A call that waits has a refresh of its tab to wait for, with one process or several
\* (attemptRefresh and its shared promise).
THEOREM NobodyWaitsInVain == Spec => []WaitsForRefresh
  <1>1. TypeOK /\ WaitsForRefresh /\ [Next]_vars => WaitsForRefresh'
    <2> SUFFICES ASSUME TypeOK, WaitsForRefresh, [Next]_vars PROVE WaitsForRefresh'
      OBVIOUS
    <2>0. /\ jar \in Token /\ refresh \in [Tabs -> Refreshes] /\ call \in [Tabs -> Calls]
      BY TypeUnfolded
    <2>1. CASE UNCHANGED <<refresh, call>>
      BY <2>1 DEF WaitsForRefresh
    <2>2. ASSUME NEW t \in Tabs, Boot(t) PROVE WaitsForRefresh'
      <3>1. /\ refresh'[t].pc = "sent" /\ UNCHANGED call
            /\ \A s \in Tabs : s # t => refresh'[s] = refresh[s]
        BY <2>0, <2>2, SentTyped DEF Boot
      <3> QED BY <3>1 DEF WaitsForRefresh
    <2>3. ASSUME NEW t \in Tabs, Call(t) \/ Settle(t) \/ Authorize(t) \/ Extend(t)
          PROVE  WaitsForRefresh'
      <3>1. /\ [call[t] EXCEPT !.pc = "authorized"].pc = "authorized"
            /\ [call[t] EXCEPT !.pc = "unauthorized", !.token = 0].pc = "unauthorized"
            /\ [call[t] EXCEPT !.pc = "ok", !.token = 0].pc = "ok"
        BY <2>0 DEF Calls
      <3>2. \E c : c.pc # "waiting" /\ call' = [call EXCEPT ![t] = c]
        <4>1. CASE Call(t) \/ Settle(t)
          BY <4>1 DEF Call, Settle
        <4>2. CASE Authorize(t) \/ Extend(t)
          BY <3>1, <4>2 DEF Authorize, Extend
        <4> QED BY <2>3, <4>1, <4>2
      <3>3. /\ call'[t].pc # "waiting" /\ UNCHANGED refresh
            /\ \A s \in Tabs : s # t => call'[s] = call[s]
        BY <2>0, <2>3, <3>2 DEF Call, Settle, Authorize, Extend
      <3> QED BY <3>3 DEF WaitsForRefresh
    <2>4. ASSUME NEW t \in Tabs, Unauthorized(t) PROVE WaitsForRefresh'
      <3>1. \/ RefreshSent(t)
            \/ refresh[t].pc # "none" /\ UNCHANGED refresh
            \/ call'[t].pc # "waiting" /\ UNCHANGED refresh
        BY <2>0, <2>4 DEF Unauthorized, Calls
      <3>2. /\ call'[t].pc = "waiting" => refresh'[t].pc # "none"
            /\ \A s \in Tabs : s # t => refresh'[s] = refresh[s]
        BY <2>0, <3>1, SentTyped
      <3>3. \A s \in Tabs : s # t => call'[s] = call[s]
        BY <2>0, <2>4 DEF Unauthorized
      <3> QED BY <3>2, <3>3 DEF WaitsForRefresh
    <2>5. ASSUME NEW t \in Tabs, Granted(t) \/ Refused(t) \/ RefreshLost(t) PROVE WaitsForRefresh'
      <3>1. /\ call'[t].pc # "waiting"
            /\ \A s \in Tabs : s # t => call'[s] = call[s]
        BY <2>0, <2>5, RefreshMoved, WokenTyped, GivenUpTyped DEF Granted, Refused, RefreshLost
      <3>2. \A s \in Tabs : s # t => refresh'[s] = refresh[s]
        BY <2>0, <2>5, ForgottenTyped DEF Granted, Refused, RefreshLost
      <3> QED BY <3>1, <3>2 DEF WaitsForRefresh
    <2>6. ASSUME NEW t \in Tabs, FindRow(t) \/ Deactivate(t) \/ IssuePair(t)
          PROVE  WaitsForRefresh'
      <3>1. UNCHANGED call
        BY <2>6 DEF FindRow, Deactivate, IssuePair
      <3>2. /\ refresh'[t].pc # "none"
            /\ \A s \in Tabs : s # t => refresh'[s] = refresh[s]
        BY <2>0, <2>6, RotationFields DEF FindRow, Deactivate, IssuePair
      <3> QED BY <3>1, <3>2 DEF WaitsForRefresh
    <2>7. ASSUME NEW t \in Tabs,
                 Login(t) \/ Logout(t) \/ ServeLogout(t) \/ LogoutAnswered(t) \/ LogoutLost(t)
          PROVE  UNCHANGED <<refresh, call>>
      BY <2>7 DEF Login, Logout, ServeLogout, LogoutAnswered, LogoutLost
    <2>8. ASSUME NEW i \in Rows, Expire(i) PROVE UNCHANGED <<refresh, call>>
      BY <2>8 DEF Expire
    <2> QED BY <2>1, <2>2, <2>3, <2>4, <2>5, <2>6, <2>7, <2>8 DEF Next, CallStep, RefreshStep, vars
  <1> QED BY <1>1, InitInv, TypeCorrect, PTL DEF Spec

(***************************************************************************)
(* Import jobs.                                                            *)
(***************************************************************************)

LEMMA JobsTypeStep ==
  ASSUME JobsTypeOK, [JobsNext]_jobsVars
  PROVE  JobsTypeOK'
<1> USE DEF JobsTypeOK, history, store, jobs
<1> USE RequestsAssumption DEF Requests
<1>1. CASE UNCHANGED jobsVars
  BY <1>1 DEF jobsVars
<1>2. ASSUME NEW r \in Requests, Send(r) PROVE JobsTypeOK'
  BY <1>2 DEF Send, Goes
<1>3. ASSUME NEW r \in Requests, CreateRow(r) PROVE JobsTypeOK'
  BY <1>3 DEF CreateRow, Goes
<1>4. ASSUME NEW r \in Requests, SaveSettings(r) PROVE JobsTypeOK'
  BY <1>4 DEF SaveSettings, Goes, Gone
<1>5. ASSUME NEW r \in Requests, StepFails(r) PROVE JobsTypeOK'
  BY <1>5 DEF StepFails, Goes
<1>6. ASSUME NEW r \in Requests, DeleteRow(r) PROVE JobsTypeOK'
  BY <1>6 DEF DeleteRow
<1>7. ASSUME NEW r \in Requests, DropPrefix(r) PROVE JobsTypeOK'
  BY <1>7 DEF DropPrefix, Dropped
<1>8. ASSUME NEW u \in Uploads, Import(u) PROVE JobsTypeOK'
  <2>1. CASE Queue(u) \/ Park(u) \/ ParkFails(u) \/ Claim(u) \/ Extract(u)
    BY <2>1 DEF Queue, Park, ParkFails, Claim, Extract, Goes
  <2>2. ASSUME NEW a \in Assets, Put(u, a) PROVE JobsTypeOK'
    <3>1. untried' \in [Uploads -> SUBSET Assets]
      BY <2>2 DEF Put
    <3>2. objects' \in [Uploads -> SUBSET Assets]
      BY <2>2 DEF Put
    <3> QED
      BY <2>2, <3>1, <3>2 DEF Put
  <2>3. CASE MirrorEnds(u) \/ ReplaceAll(u) \/ FindCollection(u)
    BY <2>3 DEF MirrorEnds, ReplaceAll, FindCollection, Goes, Drained, Written
  <2>4. CASE MarkDone(u) \/ MarkFailed(u)
    BY <2>4 DEF MarkDone, MarkFailed, Goes
  <2> QED
    BY <1>8, <2>1, <2>2, <2>3, <2>4 DEF Import
<1>9. CASE Crash
  <2>1. crashes' \in 0..Crashes
    BY <1>9, BoundAssumption DEF Crash
  <2> QED
    BY <1>9, <2>1 DEF Crash
<1>10. CASE Start
  BY <1>10 DEF Start
<1> QED
  BY <1>1, <1>2, <1>3, <1>4, <1>5, <1>6, <1>7, <1>8, <1>9, <1>10 DEF JobsNext

LEMMA TypeInit == JobsInit => JobsTypeOK
<1> SUFFICES ASSUME JobsInit PROVE JobsTypeOK
  OBVIOUS
<1>1. crashes \in 0..Crashes
  BY BoundAssumption DEF JobsInit
<1> QED
  BY <1>1 DEF JobsInit, JobsTypeOK

\* Every reachable state is well-typed, for any files, caps and crashes.
THEOREM JobsTypeCorrect == JobsSpec => []JobsTypeOK
<1>1. JobsTypeOK /\ [JobsNext]_jobsVars => JobsTypeOK'
  BY JobsTypeStep
<1> QED
  BY <1>1, TypeInit, PTL DEF JobsSpec

-----------------------------------------------------------------------------
(* The materials are there before the row, and go after it                 *)

Unborn == {"idle", "admitted", "queued", "parked", "processing", "mirroring", "mirrored"}

MaterialsInv ==
  /\ JobsTypeOK
  /\ MaterialsPresent
  /\ \A u \in Uploads : req[u] = "mirrored" => objects[u] = Assets
  /\ \A u \in Uploads : req[u] \in Unborn => row[u] = "none"
  /\ \A r \in Creates : req[r] \in {"idle", "admitted"} => row[r] = "none"
  /\ \A r \in Requests : removal[r] # "none" => row[r] = "deleted"

LEMMA MaterialsStep ==
  ASSUME MaterialsInv, [JobsNext]_jobsVars
  PROVE  MaterialsInv'
<1>1. JobsTypeOK'
  BY JobsTypeStep DEF MaterialsInv
<1> USE <1>1, RequestsAssumption
    DEF MaterialsInv, MaterialsPresent, Stored, JobsTypeOK, Requests, Unborn, history, store, jobs
<1>2. CASE UNCHANGED jobsVars
  BY <1>2 DEF jobsVars
<1>3. ASSUME NEW r \in Requests, Send(r) PROVE MaterialsInv'
  BY <1>3 DEF Send, Goes, At
<1>4. ASSUME NEW r \in Requests, CreateRow(r) PROVE MaterialsInv'
  <2>1. removal[r] = "none"
    <3>1. CASE r \in Uploads
      BY <1>4, <3>1 DEF CreateRow, At
    <3>2. CASE r \in Creates
      BY <1>4, <3>2 DEF CreateRow, At
    <3> QED
      BY <3>1, <3>2
  <2>2. CASE r \in Uploads
    BY <1>4, <2>1, <2>2 DEF CreateRow, Goes, At
  <2>3. CASE r \in Creates
    BY <1>4, <2>1, <2>3 DEF CreateRow, Goes, At
  <2> QED
    BY <2>2, <2>3
<1>8. ASSUME NEW r \in Requests, SaveSettings(r) \/ StepFails(r) PROVE MaterialsInv'
  <2>1. CASE SaveSettings(r)
    BY <2>1 DEF SaveSettings, Goes, Gone, At
  <2>2. CASE StepFails(r)
    <3>1. /\ req' = [req EXCEPT ![r] = req'[r]]
          /\ req'[r] \in {"failing", "raised"}
      BY <2>2 DEF StepFails, Goes
    <3> QED
      BY <2>2, <3>1 DEF StepFails
  <2> QED
    BY <1>8, <2>1, <2>2
<1>9. ASSUME NEW r \in Requests, DeleteRow(r) \/ DropPrefix(r) PROVE MaterialsInv'
  BY <1>9 DEF DeleteRow, DropPrefix, Dropped
<1>5. ASSUME NEW u \in Uploads, Import(u) PROVE MaterialsInv'
  <2>1. CASE Queue(u) \/ Park(u) \/ ParkFails(u) \/ Claim(u) \/ Extract(u)
    BY <2>1 DEF Queue, Park, ParkFails, Claim, Extract, Goes, At
  <2>2. ASSUME NEW a \in Assets, Put(u, a) PROVE MaterialsInv'
    BY <2>2 DEF Put, At
  <2>3. CASE MirrorEnds(u) \/ ReplaceAll(u) \/ FindCollection(u)
    BY <2>3 DEF MirrorEnds, ReplaceAll, FindCollection, Goes, At, Drained, Written
  <2>4. CASE MarkDone(u) \/ MarkFailed(u)
    BY <2>4 DEF MarkDone, MarkFailed, Goes, At
  <2> QED
    BY <1>5, <2>1, <2>2, <2>3, <2>4 DEF Import
<1>6. CASE Crash
  BY <1>6 DEF Crash, UnderWay
<1>7. CASE Start
  BY <1>7 DEF Start
<1> QED
  BY <1>2, <1>3, <1>4, <1>5, <1>6, <1>7, <1>8, <1>9 DEF JobsNext

\* A test whose row exists has all its materials in the store: every failure
\* of the mirror ends the import before the row, and deletion takes the row
\* first.
THEOREM MaterialsThere == JobsSpec => []MaterialsPresent
<1>1. JobsInit => MaterialsInv
  BY TypeInit DEF JobsInit, MaterialsInv, MaterialsPresent, Stored, Requests
<1>2. MaterialsInv /\ [JobsNext]_jobsVars => MaterialsInv'
  BY MaterialsStep
<1>3. MaterialsInv => MaterialsPresent
  BY DEF MaterialsInv
<1> QED
  BY <1>1, <1>2, <1>3, PTL DEF JobsSpec

-----------------------------------------------------------------------------
(* A done job stands for a complete test                                   *)

DoneInv ==
  /\ MaterialsInv
  /\ DoneIsFull
  /\ \A u \in Uploads : req[u] # "ran" => job[u] # "done"
  /\ \A u \in Uploads : req[u] \in {"filled", "linking"} => row[u] \in {"full", "deleted"}
  /\ \A u \in Uploads : req[u] = "unlinked" => row[u] = "deleted"

LEMMA DoneStep ==
  ASSUME DoneInv, [JobsNext]_jobsVars
  PROVE  DoneInv'
<1>1. MaterialsInv'
  BY MaterialsStep DEF DoneInv
<1> USE <1>1, RequestsAssumption DEF Requests, history, store, jobs
<1> USE DEF DoneInv, DoneIsFull, MaterialsInv, JobsTypeOK, Stored, Unborn
<1>2. CASE UNCHANGED jobsVars
  BY <1>2 DEF jobsVars
<1>3. ASSUME NEW r \in Requests, Send(r) \/ CreateRow(r) \/ SaveSettings(r)
      PROVE  DoneInv'
  <2>1. CASE Send(r)
    BY <2>1 DEF Send, Goes, At
  <2>2. CASE CreateRow(r)
    BY <2>2 DEF CreateRow, Goes, At
  <2>3. CASE SaveSettings(r)
    BY <2>3 DEF SaveSettings, Goes, Gone, At
  <2> QED
    BY <1>3, <2>1, <2>2, <2>3
<1>4. ASSUME NEW r \in Requests, StepFails(r) PROVE DoneInv'
  <2>1. /\ req' = [req EXCEPT ![r] = req'[r]]
        /\ req'[r] \in {"failing", "raised"}
        /\ req[r] # "ran"
    BY <1>4 DEF StepFails, Goes, UnderWay
  <2> QED
    BY <1>4, <2>1 DEF StepFails
<1>5. ASSUME NEW r \in Requests, DeleteRow(r) \/ DropPrefix(r) PROVE DoneInv'
  BY <1>5 DEF DeleteRow, DropPrefix
<1>6. ASSUME NEW u \in Uploads, Import(u) PROVE DoneInv'
  <2>1. CASE Queue(u) \/ Park(u) \/ ParkFails(u) \/ Claim(u) \/ Extract(u)
    BY <2>1 DEF Queue, Park, ParkFails, Claim, Extract, Goes, At
  <2>2. ASSUME NEW a \in Assets, Put(u, a) PROVE DoneInv'
    BY <2>2 DEF Put
  <2>3. CASE MirrorEnds(u)
    BY <2>3 DEF MirrorEnds, Goes, At, Drained
  <2>4. CASE ReplaceAll(u) \/ FindCollection(u)
    BY <2>4 DEF ReplaceAll, FindCollection, Goes, At, Written
  <2>5. CASE MarkDone(u) \/ MarkFailed(u)
    BY <2>5 DEF MarkDone, MarkFailed, Goes, At
  <2> QED
    BY <1>6, <2>1, <2>2, <2>3, <2>4, <2>5 DEF Import
<1>7. CASE Crash
  BY <1>7 DEF Crash, UnderWay
<1>8. CASE Start
  BY <1>8 DEF Start, Processing
<1> QED
  BY <1>2, <1>3, <1>4, <1>5, <1>6, <1>7, <1>8 DEF JobsNext

\* Whatever fails or is deleted in between, a job that is done and linked has a
\* complete test, and a done job is only without its link when the test is gone.
THEOREM DoneSound == JobsSpec => []DoneIsFull
<1>1. JobsInit => DoneInv
  <2> SUFFICES ASSUME JobsInit PROVE DoneInv
    OBVIOUS
  <2>1. MaterialsInv
    BY TypeInit DEF JobsInit, MaterialsInv, MaterialsPresent, Stored, Requests
  <2> QED
    BY <2>1 DEF JobsInit, DoneInv, DoneIsFull, Requests
<1>2. DoneInv /\ [JobsNext]_jobsVars => DoneInv'
  BY DoneStep
<1>3. DoneInv => DoneIsFull
  BY DEF DoneInv
<1> QED
  BY <1>1, <1>2, <1>3, PTL DEF JobsSpec

-----------------------------------------------------------------------------
(* The quota                                                               *)

HeldTests == {r \in Requests : Stored(r)}

\* As long as nobody overlapped, one request is under way at most, and while it
\* has no row yet there is room for it.
QuotaInv ==
  /\ MaterialsInv
  /\ QuotaKept
  /\ ~overlapped =>
       /\ \A r, s \in Requests : UnderWay(r) /\ UnderWay(s) => r = s
       /\ \A r \in Requests : UnderWay(r) /\ row[r] = "none" => Owned < Cap

LEMMA HeldFinite == Owned \in Nat
<1>1. IsFiniteSet(HeldTests)
  BY RequestsAssumption, FS_Subset DEF HeldTests
<1> QED
  BY <1>1, FS_CardinalityType DEF Owned, HeldTests

\* A step that stores nothing new.
LEMMA HeldShrinks ==
  ASSUME HeldTests' \subseteq HeldTests
  PROVE  Owned' \in Nat /\ Owned' <= Owned
<1>1. IsFiniteSet(HeldTests)
  BY RequestsAssumption, FS_Subset DEF HeldTests
<1>2. IsFiniteSet(HeldTests') /\ Cardinality(HeldTests') <= Cardinality(HeldTests)
  BY <1>1, FS_Subset
<1>3. Cardinality(HeldTests') \in Nat
  BY <1>2, FS_CardinalityType
<1> QED
  BY <1>2, <1>3 DEF Owned, HeldTests

\* A step that stores one test more.
LEMMA HeldGrows ==
  ASSUME NEW r \in Requests, HeldTests' = HeldTests \cup {r}
  PROVE  Owned' \in Nat /\ Owned' <= Owned + 1
<1>1. IsFiniteSet(HeldTests)
  BY RequestsAssumption, FS_Subset DEF HeldTests
<1>2. Cardinality(HeldTests) \in Nat
  BY <1>1, FS_CardinalityType
<1>3. Cardinality(HeldTests') = Cardinality(HeldTests) \/ Cardinality(HeldTests') = Cardinality(HeldTests) + 1
  BY <1>1, FS_AddElement
<1> QED
  BY <1>2, <1>3 DEF Owned, HeldTests

\* A step that stores nothing, starts nothing and takes no row back to "none".
LEMMA QuotaQuiet ==
  ASSUME QuotaInv, MaterialsInv',
         HeldTests' \subseteq HeldTests,
         overlapped' = overlapped,
         \A r \in Requests : UnderWay(r)' => UnderWay(r),
         \A r \in Requests : row'[r] = "none" => row[r] = "none"
  PROVE  QuotaInv'
<1>1. Owned \in Nat /\ Owned' \in Nat /\ Owned' <= Owned
  BY HeldFinite, HeldShrinks
<1>2. QuotaKept'
  BY <1>1, CapAssumption DEF QuotaInv, QuotaKept
<1>3. ASSUME ~overlapped', NEW r \in Requests, UnderWay(r)', row'[r] = "none"
      PROVE  Owned' < Cap
  <2>1. Owned < Cap
    BY <1>3 DEF QuotaInv
  <2> QED
    BY <2>1, <1>1, CapAssumption
<1> QED
  BY <1>2, <1>3 DEF QuotaInv

LEMMA QuotaStep ==
  ASSUME QuotaInv, [JobsNext]_jobsVars
  PROVE  QuotaInv'
<1>1. MaterialsInv'
  BY MaterialsStep DEF QuotaInv
<1>2. JobsTypeOK
  BY DEF QuotaInv, MaterialsInv
<1> USE <1>1, RequestsAssumption DEF Requests
<1>3. CASE UNCHANGED jobsVars
  <2>1. HeldTests' = HeldTests
    BY <1>3 DEF jobsVars, HeldTests, Stored
  <2> QED
    BY <1>3, <2>1, QuotaQuiet DEF jobsVars, UnderWay
<1>4. ASSUME NEW r \in Requests, Send(r) PROVE QuotaInv'
  <2>1. HeldTests' = HeldTests /\ Owned' = Owned
    BY <1>4 DEF Send, HeldTests, Owned, Stored
  <2>2. QuotaKept'
    BY <1>4, <2>1 DEF QuotaInv, QuotaKept, Send
  <2>3. ASSUME ~overlapped' PROVE ~overlapped /\ \A s \in Requests : ~UnderWay(s)
    BY <1>4, <2>3 DEF Send
  <2>4. \A s \in Requests \ {r} : req'[s] = req[s]
    BY <1>4, <1>2 DEF Send, Goes, JobsTypeOK
  <2>5. ASSUME ~overlapped', NEW s \in Requests, UnderWay(s)' PROVE s = r
    BY <2>3, <2>4, <2>5 DEF UnderWay
  <2>6. ASSUME ~overlapped', NEW s \in Requests, UnderWay(s)' PROVE Owned' < Cap
    <3>1. s = r
      BY <2>5, <2>6
    <3>2. ~AtCap
      BY <1>4, <1>2, <2>6, <3>1 DEF Send, Goes, UnderWay, JobsTypeOK
    <3> QED
      BY <3>2, <2>1, HeldFinite, CapAssumption DEF AtCap
  <2> QED
    BY <2>2, <2>5, <2>6 DEF QuotaInv
<1>5. ASSUME NEW r \in Requests, CreateRow(r) PROVE QuotaInv'
  <2>1. row[r] = "none" /\ UnderWay(r)
    BY <1>5 DEF CreateRow, At, UnderWay, QuotaInv, MaterialsInv, Unborn
  <2>2. HeldTests' = HeldTests \cup {r}
    BY <1>5, <1>2 DEF CreateRow, HeldTests, Stored, JobsTypeOK
  <2>3. Owned \in Nat /\ Owned' \in Nat /\ Owned' <= Owned + 1
    BY <2>2, HeldFinite, HeldGrows
  <2>4. \A s \in Requests : UnderWay(s)' <=> UnderWay(s)
    BY <1>5, <1>2, <2>1 DEF CreateRow, Goes, UnderWay, JobsTypeOK
  <2>5. overlapped' = overlapped /\ row' = [row EXCEPT ![r] = "empty"]
    BY <1>5 DEF CreateRow, history
  <2>6. ASSUME ~overlapped PROVE Owned' <= Cap
    BY <2>1, <2>3, <2>6, CapAssumption DEF QuotaInv
  <2>7. ASSUME ~overlapped, NEW s \in Requests, UnderWay(s) PROVE row'[s] # "none"
    BY <2>1, <2>5, <2>7, <1>2 DEF QuotaInv, JobsTypeOK
  <2> QED
    BY <2>4, <2>5, <2>6, <2>7 DEF QuotaInv, QuotaKept
<1>6. ASSUME NEW r \in Requests, SaveSettings(r) \/ StepFails(r) PROVE QuotaInv'
  <2>1. row' = row /\ overlapped' = overlapped
    BY <1>6 DEF SaveSettings, StepFails, history
  <2>2. UnderWay(r) /\ req' = [req EXCEPT ![r] = req'[r]]
    BY <1>6, <1>2 DEF SaveSettings, StepFails, At, Goes, UnderWay, JobsTypeOK
  <2>3. \A s \in Requests : UnderWay(s)' => UnderWay(s)
    BY <2>2, <1>2 DEF UnderWay, JobsTypeOK
  <2> QED
    BY <2>1, <2>3, QuotaQuiet DEF HeldTests, Stored
<1>7. ASSUME NEW r \in Requests, DeleteRow(r) \/ DropPrefix(r) PROVE QuotaInv'
  <2>1. req' = req /\ overlapped' = overlapped
    BY <1>7 DEF DeleteRow, DropPrefix, history
  <2>2. row' = row \/ row' = [row EXCEPT ![r] = "deleted"]
    BY <1>7 DEF DeleteRow, DropPrefix
  <2>3. \A s \in Requests : row'[s] = row[s] \/ row'[s] = "deleted"
    BY <2>2, <1>2 DEF JobsTypeOK
  <2> QED
    BY <2>1, <2>3, QuotaQuiet DEF HeldTests, Stored, UnderWay
<1>8. ASSUME NEW u \in Uploads, Import(u) PROVE QuotaInv'
  <2>1. overlapped' = overlapped
    BY <1>8 DEF Import, Queue, Park, ParkFails, Claim, Extract, Put, MirrorEnds, ReplaceAll,
           FindCollection, MarkDone, MarkFailed, history
  <2>2. row' = row \/ row' = Written(u)
    BY <1>8 DEF Import, Queue, Park, ParkFails, Claim, Extract, Put, MirrorEnds, ReplaceAll,
           FindCollection, MarkDone, MarkFailed
  <2>3. \A s \in Requests : row'[s] = row[s] \/ (s = u /\ Stored(u) /\ row'[u] = "full")
    BY <2>2, <1>2 DEF Written, JobsTypeOK
  <2>4. HeldTests' \subseteq HeldTests
    BY <2>3 DEF HeldTests, Stored
  <2>5. UnderWay(u) /\ (req' = req \/ req' = [req EXCEPT ![u] = req'[u]])
    <3>1. CASE Queue(u) \/ Park(u) \/ ParkFails(u) \/ Claim(u) \/ Extract(u)
      BY <3>1, <1>2 DEF Queue, Park, ParkFails, Claim, Extract, At, Goes, UnderWay, JobsTypeOK
    <3>2. ASSUME NEW a \in Assets, Put(u, a) PROVE UnderWay(u) /\ req' = req
      BY <3>2 DEF Put, At, UnderWay
    <3>3. CASE MirrorEnds(u) \/ ReplaceAll(u) \/ FindCollection(u)
      BY <3>3, <1>2 DEF MirrorEnds, ReplaceAll, FindCollection, At, Goes, UnderWay, JobsTypeOK
    <3>4. CASE MarkDone(u) \/ MarkFailed(u)
      BY <3>4, <1>2 DEF MarkDone, MarkFailed, At, Goes, UnderWay, JobsTypeOK
    <3> QED
      BY <1>8, <3>1, <3>2, <3>3, <3>4 DEF Import
  <2>6. \A s \in Requests : UnderWay(s)' => UnderWay(s)
    BY <2>5, <1>2 DEF UnderWay, JobsTypeOK
  <2> QED
    BY <2>1, <2>3, <2>4, <2>6, QuotaQuiet DEF Stored
<1>9. CASE Crash
  <2>1. row' = row /\ overlapped' = overlapped
    BY <1>9 DEF Crash
  <2>2. \A s \in Requests : UnderWay(s)' => UnderWay(s)
    BY <1>9 DEF Crash, UnderWay
  <2> QED
    BY <2>1, <2>2, QuotaQuiet DEF HeldTests, Stored
<1>10. CASE Start
  <2>1. row' = row /\ overlapped' = overlapped /\ req' = req
    BY <1>10 DEF Start
  <2> QED
    BY <2>1, QuotaQuiet DEF HeldTests, Stored, UnderWay
<1> QED
  BY <1>3, <1>4, <1>5, <1>6, <1>7, <1>8, <1>9, <1>10 DEF JobsNext

\* For any cap and any number of tests: an owner who makes one test at a time
\* never has more than the cap, whatever fails or crashes in between.
THEOREM QuotaHolds == JobsSpec => []QuotaKept
<1>1. JobsInit => QuotaInv
  <2> SUFFICES ASSUME JobsInit PROVE QuotaInv
    OBVIOUS
  <2>1. MaterialsInv
    BY TypeInit DEF JobsInit, MaterialsInv, MaterialsPresent, Stored, Requests
  <2>2. {r \in Requests : Stored(r)} = {}
    BY DEF JobsInit, Stored
  <2>3. Owned = 0
    BY <2>2, FS_EmptySet DEF Owned
  <2>4. \A r \in Requests : ~UnderWay(r)
    BY DEF JobsInit, UnderWay
  <2> QED
    BY <2>1, <2>3, <2>4, CapAssumption DEF QuotaInv, QuotaKept
<1>2. QuotaInv /\ [JobsNext]_jobsVars => QuotaInv'
  BY QuotaStep
<1>3. QuotaInv => QuotaKept
  BY DEF QuotaInv
<1> QED
  BY <1>1, <1>2, <1>3, PTL DEF JobsSpec

-----------------------------------------------------------------------------
(* One process                                                             *)

Busy == {"processing", "mirroring", "mirrored", "created", "titled", "filled",
         "linking", "unlinked", "failing"}

\* Without a second process, nobody but its own request decides a job: recovery
\* runs while no request does.
JobInv ==
  /\ JobsTypeOK
  /\ ~up => \A r \in Requests : ~UnderWay(r)
  /\ \A u \in Uploads : req[u] \in Busy => job[u] = "processing"
  /\ \A u \in Uploads : req[u] \in {"queued", "parked"} => job[u] = "pending"
  /\ \A u \in Uploads : req[u] \in {"idle", "admitted"} => job[u] = "none"

LEMMA JobStep ==
  ASSUME ~Rolling, JobInv, [JobsNext]_jobsVars
  PROVE  /\ JobInv'
         /\ \A u \in Uploads : job[u] \in {"done", "failed"} => job'[u] = job[u]
<1> DEFINE Goal == /\ JobInv'
                   /\ \A u \in Uploads : job[u] \in {"done", "failed"} => job'[u] = job[u]
<1>1. JobsTypeOK'
  BY JobsTypeStep DEF JobInv
<1> USE <1>1, RequestsAssumption DEF Requests, history, store, jobs
<1> USE DEF JobInv, JobsTypeOK, UnderWay, Busy
<1>2. CASE UNCHANGED jobsVars
  BY <1>2 DEF jobsVars
<1>3. ASSUME NEW r \in Requests, Send(r) \/ CreateRow(r) \/ SaveSettings(r)
      PROVE  Goal
  <2>1. CASE Send(r)
    BY <2>1 DEF Send, Goes, At
  <2>2. CASE CreateRow(r)
    BY <2>2 DEF CreateRow, Goes, At
  <2>3. CASE SaveSettings(r)
    BY <2>3 DEF SaveSettings, Goes, Gone, At
  <2> QED
    BY <1>3, <2>1, <2>2, <2>3
<1>4. ASSUME NEW r \in Requests, StepFails(r) PROVE Goal
  <2>1. /\ req' = [req EXCEPT ![r] = req'[r]]
        /\ req'[r] \in {"failing", "raised"}
        /\ r \in Uploads /\ req'[r] = "failing" => req[r] \in Busy
    BY <1>4 DEF StepFails, Goes, InTry
  <2> QED
    BY <1>4, <2>1 DEF StepFails
<1>5. ASSUME NEW r \in Requests, DeleteRow(r) \/ DropPrefix(r) PROVE Goal
  BY <1>5 DEF DeleteRow, DropPrefix
<1>6. ASSUME NEW u \in Uploads, Import(u) PROVE Goal
  <2>1. CASE Queue(u) \/ Park(u) \/ ParkFails(u) \/ Claim(u) \/ Extract(u)
    BY <2>1 DEF Queue, Park, ParkFails, Claim, Extract, Goes, At
  <2>2. ASSUME NEW a \in Assets, Put(u, a) PROVE Goal
    BY <2>2 DEF Put
  <2>3. CASE MirrorEnds(u)
    BY <2>3 DEF MirrorEnds, Goes, At, Drained
  <2>4. CASE ReplaceAll(u) \/ FindCollection(u)
    BY <2>4 DEF ReplaceAll, FindCollection, Goes, At
  <2>5. CASE MarkDone(u) \/ MarkFailed(u)
    BY <2>5 DEF MarkDone, MarkFailed, Goes, At
  <2> QED
    BY <1>6, <2>1, <2>2, <2>3, <2>4, <2>5 DEF Import
<1>7. CASE Crash
  BY <1>7 DEF Crash
<1>8. CASE Start
  BY <1>8 DEF Start, Processing
<1> QED
  BY <1>2, <1>3, <1>4, <1>5, <1>6, <1>7, <1>8 DEF JobsNext

\* With one process at a time, a job that is done or failed stays so, whatever
\* crashes and restarts come between.
THEOREM JobsStand == ~Rolling /\ JobsSpec => JobFinal
<1> SUFFICES ASSUME ~Rolling PROVE JobsSpec => JobFinal
  OBVIOUS
<1> DEFINE Keeps == \A u \in Uploads : job[u] \in {"done", "failed"} => job'[u] = job[u]
<1>1. JobsInit => JobInv
  <2> SUFFICES ASSUME JobsInit PROVE JobInv
    OBVIOUS
  <2> QED
    BY TypeInit DEF JobsInit, JobInv, UnderWay, Busy, Requests
<1>2. JobInv /\ [JobsNext]_jobsVars => JobInv' /\ Keeps
  BY JobStep
<1>3. JobsSpec => [][Keeps]_jobsVars
  BY <1>1, <1>2, PTL DEF JobsSpec
<1> QED
  BY <1>3 DEF JobFinal

-----------------------------------------------------------------------------
(* What is left in the store                                               *)

\* Without a mishap the mirror is complete when it ends, nothing is in the
\* store before it, and a deleted test takes its materials along.
CleanInv ==
  /\ MaterialsInv
  /\ ~mishap =>
       \A u \in Uploads :
         /\ req[u] \in {"idle", "admitted", "queued", "parked", "processing"} =>
              objects[u] = {} /\ untried[u] = Assets
         /\ req[u] = "mirroring" => objects[u] = Assets \ untried[u]
         /\ row[u] = "none" /\ req[u] \notin {"mirroring", "mirrored"} => objects[u] = {}
         /\ row[u] = "deleted" => removal[u] = "dropping" \/ objects[u] = {}

LEMMA CleanStep ==
  ASSUME CleanInv, [JobsNext]_jobsVars
  PROVE  CleanInv'
<1>1. MaterialsInv'
  BY MaterialsStep DEF CleanInv
<1>0. CASE mishap'
  BY <1>0, <1>1 DEF CleanInv
<1> USE <1>1, RequestsAssumption DEF Requests, history, store, jobs
<1> USE DEF CleanInv, MaterialsInv, JobsTypeOK, Stored, Unborn
<1>2. CASE UNCHANGED jobsVars
  BY <1>2 DEF jobsVars
<1>3. ASSUME NEW r \in Requests, Send(r) \/ CreateRow(r) \/ SaveSettings(r)
      PROVE  CleanInv'
  <2>1. CASE Send(r)
    BY <2>1 DEF Send, Goes, At
  <2>2. CASE CreateRow(r)
    BY <2>2 DEF CreateRow, Goes, At
  <2>3. CASE SaveSettings(r)
    BY <2>3 DEF SaveSettings, Goes, Gone, At
  <2> QED
    BY <1>3, <2>1, <2>2, <2>3
<1>4. ASSUME NEW r \in Requests, StepFails(r) PROVE CleanInv'
  BY <1>0, <1>4 DEF StepFails
<1>5. ASSUME NEW r \in Requests, DeleteRow(r) \/ DropPrefix(r) PROVE CleanInv'
  <2>1. CASE DeleteRow(r)
    BY <2>1 DEF DeleteRow
  <2>2. CASE DropPrefix(r)
    BY <1>0, <2>2 DEF DropPrefix, Dropped
  <2> QED
    BY <1>5, <2>1, <2>2
<1>6. ASSUME NEW u \in Uploads, Import(u) PROVE CleanInv'
  <2>1. CASE Queue(u) \/ Park(u) \/ ParkFails(u) \/ Claim(u) \/ Extract(u)
    BY <2>1 DEF Queue, Park, ParkFails, Claim, Extract, Goes, At
  <2>2. ASSUME NEW a \in Assets, Put(u, a) PROVE CleanInv'
    BY <1>0, <2>2 DEF Put, At
  <2>3. CASE MirrorEnds(u)
    BY <2>3 DEF MirrorEnds, Goes, At, Drained
  <2>4. CASE ReplaceAll(u) \/ FindCollection(u)
    BY <2>4 DEF ReplaceAll, FindCollection, Goes, At, Written
  <2>5. CASE MarkDone(u) \/ MarkFailed(u)
    BY <2>5 DEF MarkDone, MarkFailed, Goes, At
  <2> QED
    BY <1>6, <2>1, <2>2, <2>3, <2>4, <2>5 DEF Import
<1>7. CASE Crash
  BY <1>0, <1>7 DEF Crash
<1>8. CASE Start
  BY <1>8 DEF Start
<1> QED
  BY <1>2, <1>3, <1>4, <1>5, <1>6, <1>7, <1>8 DEF JobsNext

\* When nothing is under way and nothing ever failed, the store holds nothing of
\* a test that does not exist, also when it was deleted while it was imported.
THEOREM StoreClean == JobsSpec => []CleanWhenQuiet
<1>1. JobsInit => CleanInv
  BY TypeInit DEF JobsInit, CleanInv, MaterialsInv, MaterialsPresent, Stored, Requests
<1>2. CleanInv /\ [JobsNext]_jobsVars => CleanInv'
  BY CleanStep
<1>3. CleanInv => CleanWhenQuiet
  BY RequestsAssumption
     DEF CleanInv, MaterialsInv, JobsTypeOK, CleanWhenQuiet, UnderWay, Stored, Requests
<1> QED
  BY <1>1, <1>2, <1>3, PTL DEF JobsSpec
=============================================================================
