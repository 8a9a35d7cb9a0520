-------------------------- MODULE AccessControlProofs --------------------------
(***************************************************************************)
(* Proofs about AccessControl, for any readers, server threads and number of  *)
(* requests: what a thread holds between its commits, what a reader's rows can *)
(* be, and that both implementations of the reading rule agree.                *)
(***************************************************************************)
EXTENDS AccessControl, FiniteSetTheorems, TLAPS

Threads == [pc: {"idle", "checked", "adding", "shared", "writing", "done", "failed", "refused"},
            job: {"none", "request", "share", "approve", "reject"},
            user: Users \cup {Nobody}, id: 0..MaxRequests, seen: BOOLEAN]

\* A thread that shares or asks has a reader, one that decides has a request of that reader.
Shaped ==
  \A h \in Handlers :
    /\ Working(h) => handler[h].user \in Users
    /\ Deciding(h) => handler[h].id \in Ids /\ requests[handler[h].id].status # "none"
    /\ handler[h].pc = "writing" => handler[h].job \in {"approve", "reject"}

\* Rows belong to readers, and no reader has two that are pending.
RowsSound ==
  /\ \A i \in Ids : requests[i].status # "none" => requests[i].user \in Users
  /\ \A i, j \in Ids :
       /\ requests[i].status = "pending"
       /\ requests[j].status = "pending"
       /\ requests[i].user = requests[j].user
       => i = j

\* add_share is behind every approval that is written or about to be.
SharedFirst ==
  /\ ApprovedWasGranted
  /\ \A h \in Handlers :
       handler[h].pc = "writing" /\ handler[h].job = "approve" => handler[h].id \in granted

\* Nobody decided while a decision was under way: there is one, on a pending request.
OneDecision ==
  ~overlapped =>
    \A h \in Handlers :
      Deciding(h) =>
        /\ requests[handler[h].id].status = "pending"
        /\ \A g \in Handlers : Deciding(g) => g = h

IInv == TypeOK /\ Shaped /\ RowsSound /\ SharedFirst /\ OneDecision

LEMMA TypeUnfolded == TypeOK <=>
  /\ level \in Levels /\ shares \subseteq Users /\ requests \in [Ids -> Request]
  /\ handler \in [Handlers -> Threads] /\ granted \subseteq Ids /\ overlapped \in BOOLEAN
  BY DEF TypeOK, Threads

\* A step of one thread that only moves it on.
LEMMA Moved ==
  ASSUME handler \in [Handlers -> Threads], NEW h \in Handlers,
         NEW pc \in {"idle", "checked", "adding", "shared", "writing", "done", "failed", "refused"},
         Goes(h, pc)
  PROVE  /\ handler' \in [Handlers -> Threads]
         /\ \A g \in Handlers : g # h => handler'[g] = handler[g]
         /\ handler'[h].pc = pc /\ handler'[h].job = handler[h].job
         /\ handler'[h].user = handler[h].user /\ handler'[h].id = handler[h].id
  BY DEF Goes, Threads

\* A thread takes a request.
LEMMA Started ==
  ASSUME handler \in [Handlers -> Threads], NEW h \in Handlers,
         NEW pc \in {"checked", "writing"}, NEW job \in {"request", "share", "approve", "reject"},
         NEW u \in Users \cup {Nobody}, NEW i \in 0..MaxRequests, Starts(h, pc, job, u, i)
  PROVE  /\ handler' \in [Handlers -> Threads]
         /\ \A g \in Handlers : g # h => handler'[g] = handler[g]
         /\ handler'[h].pc = pc /\ handler'[h].job = job
         /\ handler'[h].user = u /\ handler'[h].id = i
  BY DEF Starts, Threads

LEMMA InitInv == Init => IInv
  <1> SUFFICES ASSUME Init PROVE IInv
    OBVIOUS
  <1>1. /\ \A h \in Handlers : handler[h].pc = "idle" /\ ~Working(h) /\ ~Deciding(h)
        /\ \A i \in Ids : requests[i].status = "none"
    BY DEF Init, Working, Deciding
  <1>2. TypeOK
    <2>1. 0 \in 0..MaxRequests
      BY MaxRequestsAssumption
    <2>2. [pc |-> "idle", job |-> "none", user |-> Nobody, id |-> 0, seen |-> FALSE] \in Threads
      BY <2>1 DEF Threads
    <2>3. handler \in [Handlers -> Threads]
      BY <2>2 DEF Init
    <2>4. requests \in [Ids -> Request]
      BY DEF Init, Request
    <2> QED BY <2>3, <2>4, TypeUnfolded DEF Init, Levels
  <1> QED BY <1>1, <1>2 DEF IInv, Shaped, RowsSound, SharedFirst, OneDecision, ApprovedWasGranted

\* A step that leaves the tables of requests and grants alone and moves one thread on.
LEMMA GoesOn ==
  ASSUME IInv, NEW h \in Handlers, NEW pc \in {"adding", "done", "failed", "refused"},
         Goes(h, pc), Working(h), pc = "adding" => handler[h].pc = "checked",
         UNCHANGED <<level, shares, requests, granted, overlapped>>
  PROVE  IInv'
  <1>1. handler \in [Handlers -> Threads]
    BY TypeUnfolded DEF IInv
  <1>2. /\ handler' \in [Handlers -> Threads]
        /\ \A g \in Handlers : g # h => handler'[g] = handler[g]
        /\ handler'[h].pc = pc /\ handler'[h].job = handler[h].job
        /\ handler'[h].user = handler[h].user /\ handler'[h].id = handler[h].id
    BY <1>1, Moved
  <1>3. TypeOK'
    BY <1>2 DEF IInv, TypeOK, Threads
  <1>4. \A g \in Handlers : /\ Working(g)' => Working(g)
                            /\ Deciding(g)' => Deciding(g)
                            /\ handler'[g].user = handler[g].user /\ handler'[g].id = handler[g].id
    BY <1>2 DEF Working, Deciding
  <1>5. Shaped'
    BY <1>2, <1>4 DEF IInv, Shaped
  <1>6. RowsSound'
    BY DEF IInv, RowsSound
  <1>7. SharedFirst'
    BY <1>2 DEF IInv, SharedFirst, ApprovedWasGranted
  <1>8. OneDecision'
    BY <1>4 DEF IInv, OneDecision
  <1> QED BY <1>3, <1>5, <1>6, <1>7, <1>8 DEF IInv

\* The same for a look that is remembered.
LEMMA LookKeeps == ASSUME IInv, NEW h \in Handlers, LookForShare(h) PROVE IInv'
  <1>1. handler \in [Handlers -> Threads]
    BY TypeUnfolded DEF IInv
  <1>2. /\ handler' \in [Handlers -> Threads]
        /\ \A g \in Handlers : g # h => handler'[g] = handler[g]
        /\ handler'[h].pc = "adding" /\ handler'[h].job = handler[h].job
        /\ handler'[h].user = handler[h].user /\ handler'[h].id = handler[h].id
        /\ handler[h].pc = "checked"
        /\ UNCHANGED <<level, shares, requests, granted, overlapped>>
    <2>1. handler[h] \in Threads /\ (handler[h].user \in shares) \in BOOLEAN
      BY <1>1
    <2>2. handler' = [handler EXCEPT ![h] = 
                        [handler[h] EXCEPT !.pc = "adding", !.seen = handler[h].user \in shares]]
      BY DEF LookForShare
    <2>3. [handler[h] EXCEPT !.pc = "adding", !.seen = handler[h].user \in shares] \in Threads
      BY <2>1 DEF Threads
    <2> QED BY <1>1, <2>2, <2>3 DEF LookForShare, Threads
  <1>3. TypeOK'
    BY <1>2 DEF IInv, TypeOK, Threads
  <1>4. \A g \in Handlers : /\ Working(g)' => Working(g)
                            /\ Deciding(g)' => Deciding(g)
                            /\ handler'[g].user = handler[g].user /\ handler'[g].id = handler[g].id
    BY <1>2 DEF Working, Deciding
  <1>5. Shaped'
    BY <1>2, <1>4 DEF IInv, Shaped
  <1>6. RowsSound'
    BY <1>2 DEF IInv, RowsSound
  <1>7. SharedFirst'
    BY <1>2 DEF IInv, SharedFirst, ApprovedWasGranted
  <1>8. OneDecision'
    BY <1>2, <1>4 DEF IInv, OneDecision
  <1> QED BY <1>3, <1>5, <1>6, <1>7, <1>8 DEF IInv

LEMMA StartKeeps ==
  ASSUME IInv, NEW h \in Handlers, NEW job \in {"request", "share"}, NEW u \in Users,
         Starts(h, "checked", job, u, 0), UNCHANGED <<level, shares, requests, granted, overlapped>>
  PROVE  IInv'
  <1>0. 0 \in 0..MaxRequests
    BY MaxRequestsAssumption
  <1>1. handler \in [Handlers -> Threads]
    BY TypeUnfolded DEF IInv
  <1>2. /\ handler' \in [Handlers -> Threads]
        /\ \A g \in Handlers : g # h => handler'[g] = handler[g]
        /\ handler'[h].pc = "checked" /\ handler'[h].job = job /\ handler'[h].user = u
    BY <1>0, <1>1, Started
  <1>3. TypeOK'
    BY <1>2 DEF IInv, TypeOK, Threads
  <1>4. \A g \in Handlers : Deciding(g)' => g # h /\ Deciding(g)
    BY <1>2 DEF Working, Deciding
  <1>5. Shaped'
    BY <1>2, <1>4 DEF IInv, Shaped, Working
  <1>6. RowsSound'
    BY DEF IInv, RowsSound
  <1>7. SharedFirst'
    BY <1>2 DEF IInv, SharedFirst, ApprovedWasGranted
  <1>8. OneDecision'
    BY <1>2, <1>4 DEF IInv, OneDecision
  <1> QED BY <1>3, <1>5, <1>6, <1>7, <1>8 DEF IInv

LEMMA DecideKeeps ==
  ASSUME IInv, NEW h \in Handlers, NEW i \in Ids, NEW job \in {"approve", "reject"},
         Decide(h, i, job)
  PROVE  IInv'
  <1>1. /\ handler \in [Handlers -> Threads] /\ requests[i].user \in Users \cup {Nobody}
        /\ i \in 0..MaxRequests /\ i # 0
    BY TypeUnfolded, MaxRequestsAssumption DEF IInv, Request, Ids
  <1>2. /\ handler' \in [Handlers -> Threads]
        /\ \A g \in Handlers : g # h => handler'[g] = handler[g]
        /\ handler'[h].pc = FirstStep(job) /\ handler'[h].job = job
        /\ handler'[h].user = requests[i].user /\ handler'[h].id = i
    BY <1>1, Started DEF Decide, FirstStep
  <1>3. /\ UNCHANGED <<level, shares, requests, granted>> /\ requests[i].status = "pending"
        /\ overlapped' = (overlapped \/ \E g \in Handlers : Deciding(g))
    BY DEF Decide, Open
  <1>4. TypeOK'
    BY <1>2, <1>3 DEF IInv, TypeOK, Threads
  <1>5. \A g \in Handlers : g # h => (Working(g)' <=> Working(g)) /\ (Deciding(g)' <=> Deciding(g))
    BY <1>2 DEF Working, Deciding
  <1>6. Shaped'
    <2>1. handler'[h].user \in Users
      BY <1>2, <1>3 DEF IInv, RowsSound
    <2> QED BY <1>2, <1>3, <1>5, <2>1 DEF IInv, Shaped
  <1>7. RowsSound'
    BY <1>3 DEF IInv, RowsSound
  <1>8. SharedFirst'
    BY <1>2, <1>3 DEF IInv, SharedFirst, ApprovedWasGranted, FirstStep
  <1>9. OneDecision'
    BY <1>2, <1>3, <1>5 DEF IInv, OneDecision
  <1> QED BY <1>4, <1>6, <1>7, <1>8, <1>9 DEF IInv

LEMMA EnterKeeps == ASSUME IInv, NEW h \in Handlers, Enter(h) PROVE IInv'
  <1>1. CASE Duplicate(0, handler[h].user, "pending")
    BY <1>1, GoesOn DEF Enter, Working
  <1>2. CASE ~Duplicate(0, handler[h].user, "pending")
    <2> DEFINE u == handler[h].user
    <2>1. PICK i \in Unused :
            requests' = [requests EXCEPT ![i] = [user |-> u, status |-> "pending"]]
      BY <1>2 DEF Enter
    <2>2. /\ handler \in [Handlers -> Threads] /\ requests \in [Ids -> Request]
          /\ i \in Ids /\ requests[i].status = "none" /\ Goes(h, "done") /\ Working(h)
          /\ handler[h].job = "request" /\ UNCHANGED <<level, shares, granted, overlapped>>
      BY <1>2, <2>1, TypeUnfolded DEF IInv, Unused, Enter, Working
    <2>3. /\ handler' \in [Handlers -> Threads]
          /\ \A g \in Handlers : g # h => handler'[g] = handler[g]
          /\ handler'[h].pc = "done"
      BY <2>2, Moved
    <2>4. u \in Users
      BY <2>2 DEF IInv, Shaped
    <2>5. /\ requests' \in [Ids -> Request] /\ requests'[i] = [user |-> u, status |-> "pending"]
          /\ \A j \in Ids : j # i => requests'[j] = requests[j]
      BY <2>1, <2>2, <2>4 DEF Request
    <2>6. TypeOK'
      BY <2>2, <2>3, <2>5 DEF IInv, TypeOK, Threads
    <2>7. \A g \in Handlers : /\ Working(g)' => g # h /\ Working(g)
                              /\ Deciding(g)' => g # h /\ Deciding(g)
      BY <2>3 DEF Working, Deciding
    <2>8. Shaped'
      BY <2>2, <2>3, <2>5, <2>7 DEF IInv, Shaped
    <2>9. \A j \in Ids : ~(requests[j].status = "pending" /\ requests[j].user = u)
      <3>1. \A j \in Ids : requests[j] # [user |-> u, status |-> "pending"]
        BY <1>2 DEF Duplicate, Rows, Ids
      <3> QED BY <2>2, <3>1 DEF Request
    <2>10. RowsSound'
      BY <2>4, <2>5, <2>9 DEF IInv, RowsSound
    <2>11. SharedFirst'
      BY <2>2, <2>3, <2>5 DEF IInv, SharedFirst, ApprovedWasGranted
    <2>12. OneDecision'
      BY <2>2, <2>3, <2>5, <2>7 DEF IInv, OneDecision, Shaped
    <2> QED BY <2>6, <2>8, <2>10, <2>11, <2>12 DEF IInv
  <1> QED BY <1>1, <1>2

LEMMA AddShareKeeps == ASSUME IInv, NEW h \in Handlers, AddShare(h) PROVE IInv'
  <1>1. /\ handler \in [Handlers -> Threads] /\ Working(h) /\ handler[h].user \in Users
    BY TypeUnfolded DEF IInv, Shaped, AddShare, Working
  <1>2. PICK pc \in {"writing", "done"} :
          /\ Goes(h, pc)
          /\ pc = "writing" => handler[h].job = "approve" /\ granted' = granted \cup {handler[h].id}
          /\ pc = "done" => UNCHANGED granted
    BY DEF AddShare
  <1>3. /\ handler' \in [Handlers -> Threads]
        /\ \A g \in Handlers : g # h => handler'[g] = handler[g]
        /\ handler'[h].pc = pc /\ handler'[h].job = handler[h].job
        /\ handler'[h].user = handler[h].user /\ handler'[h].id = handler[h].id
    BY <1>1, <1>2, Moved
  <1>4. /\ shares' \subseteq Users /\ UNCHANGED <<level, requests, overlapped>>
    BY <1>1 DEF AddShare, IInv, TypeOK
  <1>5. pc = "writing" => Deciding(h) /\ handler[h].id \in Ids
    BY <1>1, <1>2 DEF Deciding, IInv, Shaped
  <1>6. granted' \subseteq Ids /\ granted \subseteq granted'
    BY <1>2, <1>5 DEF IInv, TypeOK
  <1>7. TypeOK'
    BY <1>3, <1>4, <1>6 DEF IInv, TypeOK, Threads
  <1>8. \A g \in Handlers : /\ Working(g)' => Working(g)
                            /\ Deciding(g)' => Deciding(g)
                            /\ handler'[g].user = handler[g].user /\ handler'[g].id = handler[g].id
    BY <1>1, <1>3 DEF Working, Deciding
  <1>9. Shaped'
    BY <1>2, <1>3, <1>4, <1>8 DEF IInv, Shaped
  <1>10. RowsSound'
    BY <1>4 DEF IInv, RowsSound
  <1>11. SharedFirst'
    BY <1>2, <1>3, <1>4, <1>6 DEF IInv, SharedFirst, ApprovedWasGranted
  <1>12. OneDecision'
    BY <1>4, <1>8 DEF IInv, OneDecision
  <1> QED BY <1>7, <1>9, <1>10, <1>11, <1>12 DEF IInv

LEMMA WriteKeeps == ASSUME IInv, NEW h \in Handlers, WriteStatus(h) PROVE IInv'
  <1> DEFINE i == handler[h].id
  <1>1. CASE Duplicate(i, handler[h].user, Verdict(h))
    BY <1>1, GoesOn DEF WriteStatus, Working
  <1>2. CASE ~Duplicate(i, handler[h].user, Verdict(h))
    <2>1. /\ handler \in [Handlers -> Threads] /\ requests \in [Ids -> Request]
          /\ Goes(h, "done") /\ handler[h].pc = "writing"
          /\ requests' = [requests EXCEPT ![i].status = Verdict(h)]
          /\ UNCHANGED <<level, shares, granted, overlapped>>
      BY <1>2, TypeUnfolded DEF IInv, WriteStatus
    <2>2. /\ handler' \in [Handlers -> Threads]
          /\ \A g \in Handlers : g # h => handler'[g] = handler[g]
          /\ handler'[h].pc = "done"
      BY <2>1, Moved
    <2>3. Verdict(h) \in {"approved", "rejected"}
          /\ (Verdict(h) = "approved" => handler[h].job = "approve")
      BY DEF Verdict
    <2>4. \A j \in Ids : /\ requests'[j].user = requests[j].user
                         /\ j # i => requests'[j] = requests[j]
                         /\ j = i => requests'[j].status = Verdict(h)
      BY <2>1 DEF Request
    <2>5. requests' \in [Ids -> Request]
      BY <2>1, <2>3 DEF Request
    <2>6. TypeOK'
      BY <2>1, <2>2, <2>5 DEF IInv, TypeOK, Threads
    <2>7. \A g \in Handlers : /\ Working(g)' => g # h /\ Working(g)
                              /\ Deciding(g)' => g # h /\ Deciding(g)
      BY <2>2 DEF Working, Deciding
    <2>8. Shaped'
      BY <2>2, <2>3, <2>4, <2>7 DEF IInv, Shaped
    <2>9. \A j \in Ids : /\ requests'[j].status = "pending" => requests[j].status = "pending"
                         /\ requests'[j].status # "none" => requests[j].status # "none" \/ j = i
      BY <2>3, <2>4
    <2>14. Deciding(h)
      BY <2>1 DEF IInv, Shaped, Deciding, Working
    <2>10. i \in Ids => requests[i].status # "none"
      BY <2>14 DEF IInv, Shaped
    <2>11. RowsSound'
      BY <2>4, <2>9, <2>10 DEF IInv, RowsSound
    <2>12. SharedFirst'
      BY <2>1, <2>2, <2>3, <2>4 DEF IInv, SharedFirst, ApprovedWasGranted
    <2>13. OneDecision'
      BY <2>1, <2>2, <2>4, <2>7, <2>14 DEF IInv, OneDecision
    <2> QED BY <2>6, <2>8, <2>11, <2>12, <2>13 DEF IInv
  <1> QED BY <1>1, <1>2

LEMMA TablesKeep ==
  ASSUME IInv,
         \/ \E u \in Users : Unshare(u)
         \/ \E l \in Levels : SetLevel(l)
         \/ UNCHANGED vars
  PROVE  IInv'
  <1>1. /\ UNCHANGED <<requests, handler, granted, overlapped>>
        /\ level' \in Levels /\ shares' \subseteq Users
    BY DEF Unshare, SetLevel, vars, IInv, TypeOK
  <1>2. \A g \in Handlers : (Working(g)' <=> Working(g)) /\ (Deciding(g)' <=> Deciding(g))
    BY <1>1 DEF Working, Deciding
  <1>3. TypeOK'
    BY <1>1 DEF IInv, TypeOK
  <1>4. Shaped' /\ OneDecision'
    BY <1>1, <1>2 DEF IInv, Shaped, OneDecision
  <1>5. RowsSound' /\ SharedFirst'
    BY <1>1 DEF IInv, RowsSound, SharedFirst, ApprovedWasGranted
  <1> QED BY <1>3, <1>4, <1>5 DEF IInv

LEMMA StepInv == IInv /\ [Next]_vars => IInv'
  <1> SUFFICES ASSUME IInv, [Next]_vars PROVE IInv'
    OBVIOUS
  <1>1. ASSUME NEW h \in Handlers, NEW u \in Users, Ask(h, u) \/ Share(h, u) PROVE IInv'
    BY <1>1, StartKeeps DEF Ask, Share
  <1>2. ASSUME NEW h \in Handlers, ShareRefused(h) \/ Die(h) PROVE IInv'
    BY <1>2, GoesOn DEF ShareRefused, Die, Working
  <1> QED BY <1>1, <1>2, DecideKeeps, EnterKeeps, LookKeeps, AddShareKeeps, WriteKeeps, TablesKeep
          DEF Next

THEOREM Inductive == Spec => []IInv
  BY InitInv, StepInv, PTL DEF Spec

\* The parts of the state have their types (tables and handlers of routes/access.py).
THEOREM TypeCorrect == Spec => []TypeOK
  <1>1. IInv => TypeOK
    BY DEF IInv
  <1> QED BY <1>1, Inductive, PTL

\* The listing shows the test to exactly those who may open it (can_view_test,
\* get_accessible_test_ids).
THEOREM ListingSound == Spec => []ListingAgrees
  <1>1. TypeOK => ListingAgrees
    BY DEF TypeOK, Levels, ListingAgrees, Listed, SharedBranch, PublicBranch, CanView
  <1> QED BY <1>1, TypeCorrect, PTL

\* A reader never has two pending requests, although two handlers may both have found none
\* (request_test_access).
THEOREM PendingSound == Spec => []OnePending
  <1>1. IInv => OnePending
    <2> SUFFICES ASSUME IInv, NEW u \in Users PROVE Cardinality(Rows(u, "pending")) <= 1
      BY DEF OnePending
    <2>1. \A i, j \in Rows(u, "pending") : i = j
      BY DEF IInv, RowsSound, Rows
    <2>2. CASE Rows(u, "pending") = {}
      BY <2>2, FS_EmptySet
    <2>3. ASSUME NEW i \in Rows(u, "pending") PROVE Cardinality(Rows(u, "pending")) <= 1
      <3>1. Rows(u, "pending") = {i}
        BY <2>1, <2>3
      <3> QED BY <3>1, FS_Singleton
    <2> QED BY <2>2, <2>3
  <1> QED BY <1>1, Inductive, PTL

\* An approved requester was put on the list before, also when handlers die between the two
\* commits (decide_access_request).
THEOREM ApprovedSound == Spec => []ApprovedWasGranted
  <1>1. IInv => ApprovedWasGranted
    BY DEF IInv, SharedFirst
  <1> QED BY <1>1, Inductive, PTL

\* As long as no decision was sent while another was under way, a decision stands
\* (decide_access_request).
THEOREM DecisionsStand == Spec => DecisionFinal
  <1> DEFINE Stands == ~overlapped' =>
        \A i \in Ids : requests[i].status \in {"approved", "rejected"} =>
                        requests'[i].status = requests[i].status
  <1>1. IInv /\ [Next]_vars => [Stands]_vars
    <2> SUFFICES ASSUME IInv, Next PROVE Stands
      OBVIOUS
    <2>1. CASE UNCHANGED requests
      BY <2>1
    <2>2. ASSUME NEW h \in Handlers, Enter(h) PROVE Stands
      <3>1. UNCHANGED requests \/ \E i \in Unused :
              requests' = [requests EXCEPT ![i] = [user |-> handler[h].user, status |-> "pending"]]
        BY <2>2 DEF Enter
      <3> QED BY <3>1 DEF Unused, IInv, TypeOK
    <2>3. ASSUME NEW h \in Handlers, WriteStatus(h) PROVE Stands
      <3>1. CASE ~overlapped
        <4>1. requests[handler[h].id].status = "pending"
          BY <2>3, <3>1 DEF WriteStatus, IInv, Shaped, OneDecision, Deciding, Working
        <4>2. \/ UNCHANGED requests
              \/ requests' = [requests EXCEPT ![handler[h].id].status = Verdict(h)]
          BY <2>3 DEF WriteStatus
        <4> QED BY <4>1, <4>2 DEF IInv, TypeOK, Request
      <3> QED BY <2>3, <3>1 DEF WriteStatus
    <2> QED BY <2>1, <2>2, <2>3 DEF Next, Ask, Share, Decide, LookForShare, AddShare, ShareRefused,
               Die, Unshare, SetLevel
  <1>2. Spec => [][Stands]_vars
    BY <1>1, Inductive, PTL DEF Spec
  <1> QED BY <1>2 DEF DecisionFinal
=============================================================================
