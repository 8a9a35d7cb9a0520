------------------------- MODULE ChangeRequestsProofs -------------------------
(***************************************************************************)
(* Proofs about ChangeRequests, for any bank, proposals, reviews, processes *)
(* and number of crashes.  The first half, about decisions, uses of a bank   *)
(* operation only that it moves the request it belongs to; the second half   *)
(* is about what the operations do to the questions.                         *)
(***************************************************************************)
EXTENDS ChangeRequests, FiniteSetTheorems, WellFoundedInduction, TLAPS

USE ReviewsAssumption, HomeAssumption, ProposalAssumption, NobodyAssumption,
    CrashesAssumption

-----------------------------------------------------------------------------
(* The bank as a reader of pc sees it                                      *)

WriterFields == {"pc", "op", "id", "index", "uid", "body"}
WriterShape ==
  /\ DOMAIN writer = Writers
  /\ \A w \in Writers : DOMAIN writer[w] = WriterFields

\* Moving one request leaves the others, and the shape of all, alone.
LEMMA GoesLocal ==
  ASSUME WriterShape, NEW w \in Writers, NEW pc, Goes(w, pc)
  PROVE  /\ WriterShape'
         /\ writer'[w].pc = pc
         /\ \A u \in Writers \ {w} : writer'[u] = writer[u]
BY DEF WriterShape, WriterFields, Goes

\* A bank operation moves its own request, and only that.
LEMMA WorkLocal ==
  ASSUME WriterShape, NEW w \in Writers, Work(w)
  PROVE  /\ WriterShape'
         /\ \A u \in Writers \ {w} : writer'[u] = writer[u]
<1>1. CASE AddNumber(w)
  BY <1>1 DEF AddNumber, WriterShape, WriterFields
<1>2. CASE AddCheck(w)
  <2>1. CASE Goes(w, "failed")
    BY <2>1, GoesLocal
  <2>2. CASE writer' = [writer EXCEPT ![w] = [@ EXCEPT !.pc = "checked", !.id = CheckedId(w)]]
    BY <2>2 DEF WriterShape, WriterFields
  <2> QED
    BY <1>2, <2>1, <2>2 DEF AddCheck
<1>3. CASE AddPlace(w)
  BY <1>3 DEF AddPlace, WriterShape, WriterFields
<1>4. CASE AddCommit(w) \/ AddRefused(w) \/ EditCommit(w) \/ EditGone(w)
           \/ DeleteCommit(w) \/ DeleteRefused(w)
  BY <1>4, GoesLocal DEF AddCommit, AddRefused, EditCommit, EditGone, DeleteCommit,
     DeleteRefused, Ends
<1>5. CASE EditLoad(w)
  <2>1. CASE Goes(w, "failed")
    BY <2>1, GoesLocal
  <2>2. ASSUME NEW r, writer' = [writer EXCEPT ![w] = [@ EXCEPT !.pc = "loaded", !.body = r.body]]
        PROVE  /\ WriterShape'
               /\ \A u \in Writers \ {w} : writer'[u] = writer[u]
    BY <2>2 DEF WriterShape, WriterFields
  <2> QED
    BY <1>5, <2>1, <2>2 DEF EditLoad
<1>6. CASE DeleteLoad(w)
  <2>1. CASE Goes(w, "failed")
    BY <2>1, GoesLocal
  <2>2. ASSUME NEW r, writer' = [writer EXCEPT ![w] =
                 [@ EXCEPT !.pc = "found", !.uid = r.uid, !.index = r.index]]
        PROVE  /\ WriterShape'
               /\ \A u \in Writers \ {w} : writer'[u] = writer[u]
    BY <2>2 DEF WriterShape, WriterFields
  <2> QED
    BY <1>6, <2>1, <2>2 DEF DeleteLoad
<1> QED
  BY <1>1, <1>2, <1>3, <1>4, <1>5, <1>6 DEF Work

\* A bank operation works on a request that was submitted.
LEMMA WorkStarted ==
  ASSUME WriterShape, NEW w \in Writers, Work(w)
  PROVE  writer[w].pc # "idle" /\ writer'[w].pc # "idle"
BY DEF Work, AddNumber, AddCheck, AddPlace, AddCommit, AddRefused, EditLoad, EditCommit,
       EditGone, DeleteLoad, DeleteCommit, DeleteRefused, Ends, Goes, WriterShape, WriterFields

\* A submitted request is at its start.
LEMMA SubmitLocal ==
  ASSUME WriterShape, NEW w \in Writers, NEW op, Submit(w, op)
  PROVE  /\ WriterShape'
         /\ writer'[w].pc = "sent"
         /\ \A u \in Writers \ {w} : writer'[u] = writer[u]
BY DEF Submit, WriterShape, WriterFields

-----------------------------------------------------------------------------
(* Approved requests were applied                                          *)

Shape ==
  /\ WriterShape
  /\ status \in [CRs -> {"absent", "pending", "approved", "rejected"}]
  /\ review \in [Reviews ->
       [pc: {"idle", "loaded", "applying", "applied", "done", "failed"},
        cr: CRs \cup {Nobody}, verdict: Verdicts]]
  /\ applied \in [CRs -> Nat]
  /\ \A v \in Reviews : UnderReview(v) => review[v].cr \in CRs

\* The change of the request has been committed by this review.
Landed(v) ==
  \/ review[v].pc = "applied"
  \/ review[v].pc = "applying" /\ writer[v].pc = "done"

\* A review that holds the lock works on the bank, unless its request asks nothing of it.
AppliedInv ==
  /\ Shape
  /\ \A v \in Reviews : review[v].pc = "applying" =>
       (Asked(review[v].cr) <=> writer[v].pc # "idle")
  /\ \A v \in Reviews : review[v].pc \in {"idle", "loaded"} => writer[v].pc = "idle"
  /\ \A v \in Reviews : Landed(v) /\ Asked(review[v].cr) => applied[review[v].cr] > 0
  /\ ApprovedWasApplied

\* The steps that only touch the desk.
LEMMA DeskStep ==
  ASSUME AppliedInv,
         \/ \E c \in CRs : Propose(c)
         \/ \E v \in Reviews : \/ \E c \in CRs, verdict \in Verdicts : Load(v, c, verdict)
                               \/ Reject(v) \/ Approve(v)
  PROVE  AppliedInv'
<1> USE DEF AppliedInv, Shape, WriterShape, WriterFields, bank, Landed, UnderReview,
            ApprovedWasApplied, Asked
<1>1. ASSUME NEW c \in CRs, Propose(c) PROVE AppliedInv'
  BY <1>1 DEF Propose
<1>2. ASSUME NEW v \in Reviews, NEW c \in CRs, NEW verdict \in Verdicts, Load(v, c, verdict)
      PROVE  AppliedInv'
  BY <1>2 DEF Load
<1>3. ASSUME NEW v \in Reviews, Reject(v) PROVE AppliedInv'
  BY <1>3 DEF Reject, Moves
<1>4. ASSUME NEW v \in Reviews, Approve(v) PROVE AppliedInv'
  BY <1>4 DEF Approve, Moves
<1> QED
  BY <1>1, <1>2, <1>3, <1>4

\* The steps of a review on the bank, the owner's own, and the end of a review.
LEMMA BankStep ==
  ASSUME AppliedInv,
         \/ \E v \in Reviews : Apply(v) \/ ApplyStep(v) \/ Unlock(v) \/ Die(v)
         \/ \E w \in Writers : Direct(w)
  PROVE  AppliedInv'
<1> USE DEF AppliedInv, Shape, Landed, UnderReview, ApprovedWasApplied
<1>1. ASSUME NEW v \in Reviews, Apply(v) PROVE AppliedInv'
  <2> DEFINE asked == Asked(review[v].cr)
  <2>1. /\ WriterShape'
        /\ asked <=> writer'[v].pc # "idle"
        /\ writer'[v].pc # "done"
        /\ \A u \in Writers \ {v} : writer'[u] = writer[u]
    <3>1. CASE asked
      BY <1>1, <3>1, SubmitLocal DEF Apply
    <3>2. CASE ~asked
      BY <1>1, <3>2 DEF Apply, bank, WriterShape, WriterFields
    <3> QED
      BY <3>1, <3>2
  <2> QED
    BY <1>1, <2>1 DEF Apply, Moves, Asked
<1>2. ASSUME NEW v \in Reviews, ApplyStep(v) PROVE AppliedInv'
  <2>1. /\ WriterShape'
        /\ \A u \in Writers \ {v} : writer'[u] = writer[u]
    BY <1>2, WorkLocal DEF ApplyStep
  <2>2. /\ review[v].cr \in CRs /\ Asked(review[v].cr)
        /\ writer'[v].pc # "idle"
    BY <1>2, WorkStarted DEF ApplyStep
  <2>3. CASE writer'[v].pc = "done"
    BY <1>2, <2>1, <2>2, <2>3 DEF ApplyStep, Asked
  <2>4. CASE writer'[v].pc # "done"
    BY <1>2, <2>1, <2>2, <2>4 DEF ApplyStep, Asked
  <2> QED
    BY <2>3, <2>4
<1>3. ASSUME NEW v \in Reviews, Unlock(v) PROVE AppliedInv'
  BY <1>3 DEF Unlock, Moves, Outcome, bank, WriterShape, WriterFields, Asked
<1>4. ASSUME NEW v \in Reviews, Die(v) PROVE AppliedInv'
  <2>1. /\ WriterShape'
        /\ \A u \in Writers \ {v} : writer'[u] = writer[u]
    <3>1. CASE Running(v)
      BY <1>4, <3>1, GoesLocal DEF Die, Drop, Ends
    <3>2. CASE ~Running(v)
      BY <1>4, <3>2 DEF Die, bank, WriterShape, WriterFields
    <3> QED
      BY <3>1, <3>2
  <2> QED
    BY <1>4, <2>1 DEF Die, Moves, Asked
<1>5. ASSUME NEW w \in Writers, Direct(w) PROVE AppliedInv'
  <2>1. /\ WriterShape'
        /\ \A u \in Writers \ {w} : writer'[u] = writer[u]
    BY <1>5, WorkLocal, SubmitLocal DEF Direct
  <2> QED
    BY <1>5, <2>1 DEF Direct, desk, Asked
<1> QED
  BY <1>1, <1>2, <1>3, <1>4, <1>5

LEMMA AppliedStep ==
  ASSUME AppliedInv, [Next]_vars
  PROVE  AppliedInv'
<1>1. CASE UNCHANGED vars
  BY <1>1 DEF vars, AppliedInv, Shape, WriterShape, WriterFields, Landed, UnderReview,
              ApprovedWasApplied, Asked
<1>2. CASE Next
  BY <1>2, DeskStep, BankStep DEF Next, ReviewStep
<1> QED
  BY <1>1, <1>2

LEMMA AppliedInit == Init => AppliedInv
BY DEF Init, BankInit, Idle, AppliedInv, Shape, WriterShape, WriterFields, Landed,
       UnderReview, ApprovedWasApplied, Verdicts, Asked

\* Whatever fails, dies or runs beside it, a request whose status says approved
\* had its change committed to the test, unless it names no question; then
\* nothing is ever committed for it.
THEOREM ApprovedSound == Spec => []ApprovedWasApplied
<1>1. AppliedInv => ApprovedWasApplied
  BY DEF AppliedInv
<1>2. AppliedInv /\ [Next]_vars => AppliedInv'
  BY AppliedStep
<1> QED
  BY <1>1, <1>2, AppliedInit, PTL DEF Spec

-----------------------------------------------------------------------------
(* An owner who waits for each answer                                      *)

\* At most one review is under way, and its request is still pending.
LoneInv ==
  /\ AppliedInv
  /\ overlapped \in BOOLEAN
  /\ ~overlapped =>
       /\ \A u, v \in Reviews : UnderReview(u) /\ UnderReview(v) => u = v
       /\ \A v \in Reviews : UnderReview(v) => status[review[v].cr] = "pending"

LEMMA LoneStep ==
  ASSUME LoneInv, [Next]_vars
  PROVE  LoneInv'
<1> USE DEF LoneInv, UnderReview
<1>1. AppliedInv'
  BY AppliedStep
<1>2. CASE UNCHANGED vars
  BY <1>1, <1>2 DEF vars
<1>0. Shape
  BY DEF AppliedInv
<1> USE <1>0 DEF Shape
<1>3. ASSUME NEW c \in CRs, Propose(c) PROVE LoneInv'
  BY <1>1, <1>3 DEF Propose
<1>4. ASSUME NEW v \in Reviews, NEW c \in CRs, NEW verdict \in Verdicts, Load(v, c, verdict)
      PROVE  LoneInv'
  BY <1>1, <1>4 DEF Load, Pending
<1>5. ASSUME NEW v \in Reviews, ReviewStep(v) PROVE LoneInv'
  <2>1. CASE Reject(v)
    BY <1>1, <2>1 DEF Reject, Moves
  <2>2. CASE Apply(v)
    BY <1>1, <2>2 DEF Apply, Moves
  <2>3. CASE ApplyStep(v)
    BY <1>1, <2>3 DEF ApplyStep
  <2>4. CASE Unlock(v)
    BY <1>1, <2>4 DEF Unlock, Moves, Outcome
  <2>5. CASE Approve(v)
    BY <1>1, <2>5 DEF Approve, Moves
  <2> QED
    BY <1>5, <2>1, <2>2, <2>3, <2>4, <2>5 DEF ReviewStep
<1>6. ASSUME NEW v \in Reviews, Die(v) PROVE LoneInv'
  BY <1>1, <1>6 DEF Die, Moves
<1>7. ASSUME NEW w \in Writers, Direct(w) PROVE LoneInv'
  BY <1>1, <1>7 DEF Direct, desk
<1> QED
  BY <1>2, <1>3, <1>4, <1>5, <1>6, <1>7 DEF Next

LEMMA LoneInit == Init => LoneInv
<1> SUFFICES ASSUME Init PROVE LoneInv
  OBVIOUS
<1>1. AppliedInv
  BY AppliedInit
<1>2. \A v \in Reviews : ~UnderReview(v)
  BY DEF Init, UnderReview
<1>3. overlapped \in BOOLEAN
  BY DEF Init
<1> QED
  BY <1>1, <1>2, <1>3, Zenon DEF LoneInv

\* An owner who waits for each answer never sees a decision change: nobody
\* else decides between the look at the status and its write.
THEOREM DecisionsStand == Spec => DecisionFinal
<1> DEFINE Keeps == ~overlapped' =>
                      \A c \in CRs : status[c] \in Decided => status'[c] = status[c]
<1>1. LoneInv /\ [Next]_vars => Keeps
  <2> SUFFICES ASSUME LoneInv, [Next]_vars, ~overlapped', NEW c \in CRs, status[c] \in Decided
               PROVE  status'[c] = status[c]
    OBVIOUS
  <2> USE DEF LoneInv, AppliedInv, Shape, UnderReview, Decided
  <2>1. CASE UNCHANGED vars
    BY <2>1 DEF vars
  <2>2. CASE \E d \in CRs : Propose(d)
    BY <2>2 DEF Propose
  <2>3. CASE \E v \in Reviews : Reject(v) \/ Approve(v)
    BY <2>3 DEF Reject, Approve
  <2>4. CASE \/ \E v \in Reviews : \/ \E d \in CRs, verdict \in Verdicts : Load(v, d, verdict)
                                  \/ Apply(v) \/ ApplyStep(v) \/ Unlock(v) \/ Die(v)
             \/ \E w \in Writers : Direct(w)
    BY <2>4 DEF Load, Apply, ApplyStep, Unlock, Die, Direct, desk
  <2> QED
    BY <2>1, <2>2, <2>3, <2>4 DEF Next, ReviewStep
<1>2. LoneInv /\ [Next]_vars => LoneInv'
  BY LoneStep
<1>3. Spec => [][Keeps]_vars
  BY <1>1, <1>2, LoneInit, PTL DEF Spec
<1> QED
  BY <1>3 DEF DecisionFinal

\* What is applied is applied once, by the review under way, and belongs to a
\* request that is pending until that review writes its status.
OnceInv ==
  /\ LoneInv
  /\ crashes \in Nat
  /\ ~overlapped /\ crashes = 0 =>
       \A c \in CRs :
         /\ applied[c] \in {0, 1}
         /\ status[c] \in {"absent", "rejected"} => applied[c] = 0
         /\ status[c] = "pending" /\ applied[c] = 1 =>
              \E v \in Reviews : Landed(v) /\ review[v].cr = c

\* Only a request that has not ended works.
LEMMA WorkRuns ==
  ASSUME NEW w \in Writers, Work(w)
  PROVE  writer[w].pc # "done"
BY DEF Work, AddNumber, AddCheck, AddPlace, AddCommit, AddRefused, EditLoad, EditCommit,
       EditGone, DeleteLoad, DeleteCommit, DeleteRefused

LEMMA OnceStep ==
  ASSUME OnceInv, [Next]_vars
  PROVE  OnceInv'
<1>1. LoneInv'
  BY LoneStep DEF OnceInv
<1>2. crashes' \in Nat
  <2>1. CASE \E v \in Reviews : Die(v)
    BY <2>1 DEF OnceInv, Die
  <2>2. CASE crashes' = crashes
    BY <2>2 DEF OnceInv
  <2> QED
    BY <2>1, <2>2 DEF Next, vars, Propose, Load, ReviewStep, Reject, Apply, ApplyStep, Unlock,
       Approve, Direct, desk
<1>3. ~overlapped' => ~overlapped
  BY DEF Next, vars, Propose, Load, ReviewStep, Reject, Apply, ApplyStep, Unlock,
     Approve, Direct, desk, Die
<1> SUFFICES ASSUME ~overlapped', crashes' = 0 PROVE OnceInv'
  BY <1>1, <1>2 DEF OnceInv
<1> USE <1>3 DEF OnceInv, LoneInv, AppliedInv, Shape, UnderReview, Landed
<1>4. CASE UNCHANGED vars
  BY <1>1, <1>4 DEF vars
<1>5. ASSUME NEW c \in CRs, Propose(c) PROVE OnceInv'
  BY <1>1, <1>5 DEF Propose, bank
<1>6. ASSUME NEW v \in Reviews, NEW c \in CRs, NEW verdict \in Verdicts, Load(v, c, verdict)
      PROVE  OnceInv'
  BY <1>1, <1>6 DEF Load, bank
<1>7. ASSUME NEW v \in Reviews, Reject(v) PROVE OnceInv'
  BY <1>1, <1>7 DEF Reject, Moves, bank
<1>8. ASSUME NEW v \in Reviews, Apply(v) PROVE OnceInv'
  <2>1. \A u \in Reviews : ~Landed(u)
    BY <1>8 DEF Apply
  <2>2. \A c \in CRs : status[c] = "pending" => applied[c] = 0
    BY <1>8, <2>1 DEF Apply
  <2> QED
    BY <1>1, <1>8, <2>2 DEF Apply
<1>9. ASSUME NEW v \in Reviews, ApplyStep(v) PROVE OnceInv'
  <2>1. /\ writer[v].pc # "done"
        /\ review[v].pc = "applying" /\ review[v].cr \in CRs
        /\ status[review[v].cr] = "pending"
    BY <1>9, WorkRuns DEF ApplyStep
  <2>2. \A c \in CRs : status[c] = "pending" => applied[c] = 0
    BY <1>9, <2>1 DEF ApplyStep
  <2>3. CASE writer'[v].pc = "done"
    BY <1>1, <1>9, <2>1, <2>2, <2>3 DEF ApplyStep
  <2>4. CASE writer'[v].pc # "done"
    BY <1>1, <1>9, <2>1, <2>2, <2>4 DEF ApplyStep
  <2> QED
    BY <2>3, <2>4
<1>10. ASSUME NEW v \in Reviews, Unlock(v) PROVE OnceInv'
  <2>1. CASE writer[v].pc = "done"
    BY <1>1, <1>10, <2>1 DEF Unlock, Moves, Outcome, bank
  <2>2. CASE writer[v].pc # "done"
    <3>1. \A c \in CRs : status[c] = "pending" => applied[c] = 0
      BY <1>10, <2>2 DEF Unlock
    <3> QED
      BY <1>1, <1>10, <3>1 DEF Unlock
  <2> QED
    BY <2>1, <2>2
<1>11. ASSUME NEW v \in Reviews, Approve(v) PROVE OnceInv'
  BY <1>1, <1>11 DEF Approve, Moves, bank
<1>12. ASSUME NEW v \in Reviews, Die(v) PROVE FALSE
  BY <1>12 DEF Die
<1>13. ASSUME NEW w \in Writers, Direct(w) PROVE OnceInv'
  <2>1. \A u \in Writers \ {w} : writer'[u] = writer[u]
    BY <1>13, WorkLocal, SubmitLocal DEF Direct
  <2> QED
    BY <1>1, <1>13, <2>1 DEF Direct, desk
<1> QED
  BY <1>4, <1>5, <1>6, <1>7, <1>8, <1>9, <1>10, <1>11, <1>12, <1>13 DEF Next, ReviewStep

LEMMA OnceInit == Init => OnceInv
BY LoneInit DEF Init, OnceInv

\* As long as the owner waits for each answer and no review dies, the test
\* holds the approved changes once each and nothing that was rejected.
THEOREM BankFollows == Spec => []BankFollowsDecisions
<1>1. OnceInv => BankFollowsDecisions
  BY DEF OnceInv, LoneInv, AppliedInv, ApprovedWasApplied, BankFollowsDecisions
<1>2. OnceInv /\ [Next]_vars => OnceInv'
  BY OnceStep
<1> QED
  BY <1>1, <1>2, OnceInit, PTL DEF Spec
-----------------------------------------------------------------------------
(* Greatest numbers                                                        *)

\* A finite set of numbers that is not empty has a greatest one.
LEMMA MaxExists ==
  ASSUME NEW S \in SUBSET Int, IsFiniteSet(S), S # {}
  PROVE  Max(S) \in S /\ \A x \in S : x <= Max(S)
<1> DEFINE HasMax(T) == \E m \in T : \A x \in T : m >= x
           Bad == {T \in FiniteSubsetsOf(Int) : T # {} /\ ~HasMax(T)}
           R == StrictSubsetOrdering(Int)
<1>1. ASSUME NEW T \in Bad, \A U \in Bad : <<U, T>> \notin R PROVE FALSE
  <2>1. PICK x \in T : TRUE
    BY <1>1
  <2>2. T \ {x} \in FiniteSubsetsOf(Int)
    BY <1>1, FS_RemoveElement DEF FiniteSubsetsOf
  <2>3. CASE T \ {x} = {}
    <3>1. \A y \in T : y = x
      BY <2>3
    <3> QED BY <1>1, <2>1, <3>1 DEF FiniteSubsetsOf
  <2>4. CASE T \ {x} # {}
    <3>1. <<T \ {x}, T>> \in R
      BY <1>1, <2>1 DEF StrictSubsetOrdering, FiniteSubsetsOf
    <3>2. HasMax(T \ {x})
      BY <1>1, <2>2, <2>4, <3>1
    <3>3. PICK m \in T \ {x} : \A y \in T \ {x} : m >= y
      BY <3>2
    <3>4. m \in Int /\ x \in Int /\ \A y \in T : y \in Int
      BY <1>1, <2>1 DEF FiniteSubsetsOf
    <3>5. CASE m >= x
      BY <1>1, <3>3, <3>4, <3>5
    <3>6. CASE x > m
      BY <1>1, <2>1, <3>3, <3>4, <3>6
    <3> QED BY <3>4, <3>5, <3>6
  <2> QED BY <2>3, <2>4
<1>2. IsWellFoundedOn(R, FiniteSubsetsOf(Int))
  BY FS_StrictSubsetOrderingWellFounded
<1>3. Bad = {}
  <2> HIDE DEF R
  <2>1. Bad \subseteq FiniteSubsetsOf(Int)
    OBVIOUS
  <2> HIDE DEF Bad
  <2> QED BY <1>1, <1>2, <2>1, WFMin
<1>4. HasMax(S)
  BY <1>3 DEF FiniteSubsetsOf
<1> QED BY <1>4 DEF Max

\* One more than the greatest of the numbers f gives to the rows, and of low.
LEMMA MaxAhead ==
  ASSUME NEW T, IsFiniteSet(T), NEW f \in [T -> Int], NEW low \in Int
  PROVE  LET m == Max({low} \cup {f[r] : r \in T}) IN
         m \in Int /\ m >= low /\ \A r \in T : f[r] <= m
<1> DEFINE U == {f[r] : r \in T}
           S == {low} \cup U
<1>1. f \in Surjection(T, U)
  BY DEF Surjection
<1>2. IsFiniteSet(U)
  BY <1>1, FS_Surjection
<1>3. IsFiniteSet(S) /\ S \in SUBSET Int /\ S # {}
  BY <1>2, FS_AddElement
<1>4. Max(S) \in S /\ \A x \in S : x <= Max(S)
  BY <1>3, MaxExists
<1>5. low \in S /\ \A r \in T : f[r] \in S
  OBVIOUS
<1> QED BY <1>4, <1>5

LEMMA NextNumbers ==
  ASSUME IsFiniteSet(table), table \subseteq Row
  PROVE  /\ NextId \in Nat /\ \A r \in table : r.id < NextId
         /\ NextIndex \in Nat /\ \A r \in table : r.index < NextIndex
         /\ NextIndex = 0 \/ \E r \in table : r.index = NextIndex - 1
         /\ NextTid \in Nat
<1>1. \A r \in table : r.id \in Nat /\ r.index \in Nat /\ r.tid \in Nat
  BY DEF Row
<1>2. NextId \in Nat /\ \A r \in table : r.id < NextId
  <2> DEFINE f == [r \in table |-> r.id]
  <2>1. f \in [table -> Int] /\ {f[r] : r \in table} = {r.id : r \in table}
    BY <1>1
  <2> DEFINE m == Max({0} \cup {f[r] : r \in table})
  <2>2. m \in Int /\ m >= 0 /\ \A r \in table : f[r] <= m
    <3> HIDE DEF f
    <3> QED BY <2>1, MaxAhead
  <2>3. NextId = 1 + m
    BY <2>1 DEF NextId
  <2> HIDE DEF m
  <2> QED BY <1>1, <2>2, <2>3
<1>3. /\ NextIndex \in Nat /\ \A r \in table : r.index < NextIndex
      /\ NextIndex = 0 \/ \E r \in table : r.index = NextIndex - 1
  <2> DEFINE U == {r.index : r \in table}
             S == {-1} \cup U
             f == [r \in table |-> r.index]
  <2>1. f \in Surjection(table, U)
    BY DEF Surjection
  <2>2. IsFiniteSet(U)
    <3> HIDE DEF U, f
    <3> QED BY <2>1, FS_Surjection
  <2>3. IsFiniteSet(S) /\ S \in SUBSET Int /\ S # {}
    <3>1. U \subseteq Int
      BY <1>1
    <3> HIDE DEF U
    <3>2. S = U \cup {-1}
      OBVIOUS
    <3>3. IsFiniteSet(S)
      BY <2>2, <3>2, FS_AddElement, Zenon
    <3> QED BY <3>1, <3>3
  <2>4. Max(S) \in S /\ \A x \in S : x <= Max(S)
    BY <2>3, MaxExists
  <2>5. NextIndex = 1 + Max(S)
    BY DEF NextIndex
  <2>6. -1 \in S /\ \A r \in table : r.index \in S
    OBVIOUS
  <2>7. Max(S) = -1 \/ \E r \in table : r.index = Max(S)
    BY <2>4
  <2> DEFINE m == Max(S)
  <2>8. m \in Int /\ m >= -1 /\ \A r \in table : r.index <= m
    BY <2>3, <2>4, <2>6
  <2>9. NextIndex = 1 + m /\ (m = -1 \/ \E r \in table : r.index = m)
    BY <2>5, <2>7
  <2> HIDE DEF m
  <2> QED BY <1>1, <2>8, <2>9
<1>4. NextTid \in Nat
  <2> DEFINE f == [r \in table |-> r.tid]
  <2>1. f \in [table -> Int] /\ {f[r] : r \in table} = {r.tid : r \in table}
    BY <1>1
  <2> DEFINE m == Max({0} \cup {f[r] : r \in table})
  <2>2. m \in Int /\ m >= 0
    <3> HIDE DEF f
    <3> QED BY <2>1, MaxAhead
  <2>3. NextTid = 1 + m
    BY <2>1 DEF NextTid
  <2> HIDE DEF m
  <2> QED BY <2>2, <2>3
<1> QED BY <1>2, <1>3, <1>4

-----------------------------------------------------------------------------
(* The bank, whoever changes it                                            *)

WriterStates ==
  [pc: {"idle", "sent", "numbered", "checked", "placed", "loaded", "found",
        "done", "failed", "refused"},
   op: OpTypes, id: Nat, index: Nat, uid: Uids \cup {0}, body: Body]

\* What the database sees to, whatever overlaps: a primary key and a place have one row, and
\* the key of a question that was added is that of a request that wrote and has ended.
BankSound ==
  /\ BankTypeOK
  /\ IsFiniteSet(table)
  /\ \A r, s \in table : r.uid = s.uid \/ r.index = s.index => r = s
  /\ \A r \in table : r.uid \in Writers => writer[r.uid].pc = "done"

LEMMA BankInitSound == BankInit => BankSound
<1> SUFFICES ASSUME BankInit PROVE BankSound
  OBVIOUS
<1> DEFINE f == [i \in 1..Seed |-> Imported(i)]
<1>1. \A i \in 1..Seed : /\ Imported(i) \in Row /\ Imported(i).uid = i
                         /\ Imported(i).index = i - 1 /\ i \notin Writers
  BY SeedAssumption, WritersAssumption DEF Imported, Row, Uids, Body
<1>2. table = {Imported(i) : i \in 1..Seed}
  BY DEF BankInit
<1>3. IsFiniteSet(table)
  <2>1. f \in Surjection(1..Seed, table)
    BY <1>2 DEF Surjection
  <2>2. IsFiniteSet(1..Seed)
    BY SeedAssumption, FS_Interval
  <2> HIDE DEF f
  <2> QED BY <2>1, <2>2, FS_Surjection
<1>4. BankTypeOK
  <2>1. Idle \in WriterStates
    BY FieldsAssumption DEF Idle, WriterStates, OpTypes, Body
  <2>2. writer \in [Writers -> WriterStates]
    BY <2>1 DEF BankInit
  <2>3. named \subseteq [id: Nat, uid: Uids]
    BY SeedAssumption DEF BankInit, Uids
  <2>4. table \subseteq Row
    BY <1>1, <1>2
  <2> QED BY <2>2, <2>3, <2>4 DEF BankTypeOK, WriterStates
<1>5. \A r \in table : \E i \in 1..Seed : r = Imported(i)
  BY <1>2
<1>6. \A r, s \in table : r.uid = s.uid \/ r.index = s.index => r = s
  <2> SUFFICES ASSUME NEW r \in table, NEW s \in table, r.uid = s.uid \/ r.index = s.index
               PROVE  r = s
    OBVIOUS
  <2>1. PICK i \in 1..Seed : r = Imported(i)
    BY <1>5
  <2>2. PICK j \in 1..Seed : s = Imported(j)
    BY <1>5
  <2>3. i = j
    BY <1>1, <2>1, <2>2, SeedAssumption
  <2> QED BY <2>1, <2>2, <2>3
<1>7. \A r \in table : r.uid \notin Writers
  BY <1>1, <1>5
<1> QED BY <1>3, <1>4, <1>6, <1>7 DEF BankSound

\* A request that writes nothing, or has not yet.
LEMMA ReadSound ==
  ASSUME BankSound, table' = table, named' = named, writer' \in [Writers -> WriterStates],
         \A u \in Writers : writer[u].pc = "done" => writer'[u].pc = "done"
  PROVE  BankSound'
BY DEF BankSound, BankTypeOK, WriterStates

\* What a request may become by a statement of its own.
AsSent(x, op) == [x EXCEPT !.pc = "sent", !.op = op]
AsNumbered(x, n) == [x EXCEPT !.pc = "numbered", !.id = n]
AsChecked(x, n) == [x EXCEPT !.pc = "checked", !.id = n]
AsPlaced(x, n) == [x EXCEPT !.pc = "placed", !.index = n]
AsLoaded(x, b) == [x EXCEPT !.pc = "loaded", !.body = b]
AsFound(x, u, n) == [x EXCEPT !.pc = "found", !.uid = u, !.index = n]
Ended(x, pc) == [x EXCEPT !.pc = pc]

LEMMA Retyped ==
  ASSUME NEW x \in WriterStates
  PROVE  /\ \A op \in OpTypes : AsSent(x, op) \in WriterStates
         /\ \A n \in Nat :
              /\ AsNumbered(x, n) \in WriterStates /\ AsNumbered(x, n).pc # "done"
              /\ AsChecked(x, n) \in WriterStates /\ AsChecked(x, n).pc # "done"
              /\ AsPlaced(x, n) \in WriterStates /\ AsPlaced(x, n).pc # "done"
              /\ \A u \in Uids : /\ AsFound(x, u, n) \in WriterStates
                                 /\ AsFound(x, u, n).pc # "done"
         /\ \A b \in Body : AsLoaded(x, b) \in WriterStates /\ AsLoaded(x, b).pc # "done"
BY DEF WriterStates, AsSent, AsNumbered, AsChecked, AsPlaced, AsLoaded, AsFound

LEMMA RetypedEnd ==
  ASSUME NEW x \in WriterStates, NEW pc \in {"done", "failed", "refused"}
  PROVE  Ended(x, pc) \in WriterStates /\ Ended(x, pc).pc = pc
BY DEF WriterStates, Ended

LEMMA GoesTyped ==
  ASSUME BankSound, NEW w \in Writers, NEW pc \in {"done", "failed", "refused"}, Goes(w, pc)
  PROVE  /\ writer' \in [Writers -> WriterStates]
         /\ writer'[w].pc = pc
         /\ \A u \in Writers \ {w} : writer'[u] = writer[u]
<1>1. writer \in [Writers -> WriterStates]
  BY DEF BankSound, BankTypeOK, WriterStates
<1> DEFINE W == Ended(writer[w], pc)
<1>2. W \in WriterStates /\ W.pc = pc
  <2>1. writer[w] \in WriterStates
    BY <1>1
  <2> QED BY <2>1, RetypedEnd
<1>3. writer' = [writer EXCEPT ![w] = W]
  BY DEF Goes, Ended
<1> HIDE DEF W
<1> QED BY <1>1, <1>2, <1>3

LEMMA SubmitSound ==
  ASSUME BankSound, NEW w \in Writers, NEW op \in OpTypes, Submit(w, op)
  PROVE  BankSound'
<1>1. writer' \in [Writers -> WriterStates]
  <2>1. writer \in [Writers -> WriterStates]
    BY DEF BankSound, BankTypeOK, WriterStates
  <2> DEFINE W == AsSent(writer[w], op)
  <2>2. W \in WriterStates
    <3>1. writer[w] \in WriterStates
      BY <2>1
    <3> QED BY <3>1, Retyped
  <2>3. writer' = [writer EXCEPT ![w] = W]
    BY DEF Submit, AsSent
  <2> HIDE DEF W
  <2> QED BY <2>1, <2>2, <2>3
<1>2. \A u \in Writers : writer[u].pc = "done" => writer'[u].pc = "done"
  BY DEF BankSound, BankTypeOK, Submit
<1> QED BY <1>1, <1>2, ReadSound DEF Submit

LEMMA DropSound ==
  ASSUME BankSound, NEW w \in Writers, Drop(w)
  PROVE  BankSound'
<1>1. writer' \in [Writers -> WriterStates]
  BY GoesTyped DEF Drop, Ends
<1>2. \A u \in Writers : writer[u].pc = "done" => writer'[u].pc = "done"
  BY GoesTyped DEF Drop, Ends, Running
<1> QED BY <1>1, <1>2, ReadSound DEF Drop, Ends

\* The steps that write no row.
Reads(w) == AddNumber(w) \/ AddCheck(w) \/ AddPlace(w) \/ EditLoad(w) \/ DeleteLoad(w)
Stops(w) == AddRefused(w) \/ EditGone(w) \/ DeleteRefused(w)

LEMMA ReadsKeep ==
  ASSUME BankSound, NEW w \in Writers, Reads(w) \/ Stops(w)
  PROVE  /\ writer' \in [Writers -> WriterStates]
         /\ table' = table /\ named' = named
         /\ writer'[w].pc # "done"
<1>1. NextId \in Nat /\ NextIndex \in Nat
  BY NextNumbers DEF BankSound, BankTypeOK
<1>2. writer \in [Writers -> WriterStates]
  BY DEF BankSound, BankTypeOK, WriterStates
<1>3. CASE AddNumber(w)
  <2> DEFINE W == AsNumbered(writer[w], NextId)
  <2>1. writer' = [writer EXCEPT ![w] = W]
    BY <1>3 DEF AddNumber, AsNumbered
  <2>2. W \in WriterStates /\ W.pc # "done"
    <3>1. writer[w] \in WriterStates
      BY <1>2
    <3> QED BY <1>1, <3>1, Retyped
  <2> HIDE DEF W
  <2> QED BY <1>2, <1>3, <2>1, <2>2 DEF AddNumber
<1>4. CASE AddCheck(w)
  <2>1. CASE Goes(w, "failed")
    BY <1>4, <2>1, GoesTyped DEF AddCheck
  <2>2. CASE writer' = [writer EXCEPT ![w] = [@ EXCEPT !.pc = "checked", !.id = CheckedId(w)]]
    <3> DEFINE W == AsChecked(writer[w], CheckedId(w))
    <3>1. CheckedId(w) \in Nat
      BY <1>1, <1>2 DEF CheckedId, WriterStates
    <3>2. W \in WriterStates /\ W.pc # "done"
      <4>1. writer[w] \in WriterStates
        BY <1>2
      <4> QED BY <3>1, <4>1, Retyped
    <3>3. writer' = [writer EXCEPT ![w] = W]
      BY <2>2 DEF AsChecked, AsLoaded, AsFound
    <3> HIDE DEF W
    <3> QED BY <1>2, <1>4, <3>2, <3>3 DEF AddCheck
  <2> QED BY <1>4, <2>1, <2>2 DEF AddCheck
<1>5. CASE AddPlace(w)
  <2> DEFINE W == AsPlaced(writer[w], NextIndex)
  <2>1. writer' = [writer EXCEPT ![w] = W]
    BY <1>5 DEF AddPlace, AsPlaced
  <2>2. W \in WriterStates /\ W.pc # "done"
    <3>1. writer[w] \in WriterStates
      BY <1>2
    <3> QED BY <1>1, <3>1, Retyped
  <2> HIDE DEF W
  <2> QED BY <1>2, <1>5, <2>1, <2>2 DEF AddPlace
<1>6. CASE EditLoad(w)
  <2>1. CASE Goes(w, "failed")
    BY <1>6, <2>1, GoesTyped DEF EditLoad
  <2>2. ASSUME NEW r \in Found(writer[w].op.id),
               writer' = [writer EXCEPT ![w] = [@ EXCEPT !.pc = "loaded", !.body = r.body]]
        PROVE  writer' \in [Writers -> WriterStates] /\ writer'[w].pc # "done"
    <3> DEFINE W == AsLoaded(writer[w], r.body)
    <3>1. r.body \in Body
      BY DEF Found, BankSound, BankTypeOK, Row
    <3>2. W \in WriterStates /\ W.pc # "done"
      <4>1. writer[w] \in WriterStates
        BY <1>2
      <4> QED BY <3>1, <4>1, Retyped
    <3>3. writer' = [writer EXCEPT ![w] = W]
      BY <2>2 DEF AsChecked, AsLoaded, AsFound
    <3> HIDE DEF W
    <3> QED BY <1>2, <3>2, <3>3
  <2> QED BY <1>6, <2>1, <2>2 DEF EditLoad
<1>7. CASE DeleteLoad(w)
  <2>1. CASE Goes(w, "failed")
    BY <1>7, <2>1, GoesTyped DEF DeleteLoad
  <2>2. ASSUME NEW r \in Found(writer[w].op.id),
               writer' = [writer EXCEPT ![w] =
                 [@ EXCEPT !.pc = "found", !.uid = r.uid, !.index = r.index]]
        PROVE  writer' \in [Writers -> WriterStates] /\ writer'[w].pc # "done"
    <3> DEFINE W == AsFound(writer[w], r.uid, r.index)
    <3>1. r.uid \in Uids /\ r.index \in Nat
      BY DEF Found, BankSound, BankTypeOK, Row
    <3>2. W \in WriterStates /\ W.pc # "done"
      <4>1. writer[w] \in WriterStates
        BY <1>2
      <4> QED BY <3>1, <4>1, Retyped
    <3>3. writer' = [writer EXCEPT ![w] = W]
      BY <2>2 DEF AsChecked, AsLoaded, AsFound
    <3> HIDE DEF W
    <3> QED BY <1>2, <3>2, <3>3
  <2> QED BY <1>7, <2>1, <2>2 DEF DeleteLoad
<1>8. CASE Stops(w)
  BY <1>8, GoesTyped DEF Stops, AddRefused, EditGone, DeleteRefused, Ends
<1> QED BY <1>3, <1>4, <1>5, <1>6, <1>7, <1>8 DEF Reads

\* A new row.
LEMMA AddedSound ==
  ASSUME BankSound, NEW w \in Writers, AddCommit(w)
  PROVE  /\ BankSound'
         /\ \E n \in Row : /\ table' = table \cup {n} /\ n \notin table
                           /\ n.uid = w /\ n.id = writer[w].id /\ n.index = writer[w].index
<1> DEFINE n == [uid |-> w, id |-> writer[w].id, index |-> writer[w].index, tid |-> NextTid,
                 body |-> [f \in Fields |-> w]]
<1>1. writer[w] \in WriterStates /\ writer[w].id \in Nat /\ writer[w].index \in Nat
  BY DEF BankSound, BankTypeOK, WriterStates
<1>2. NextTid \in Nat
  BY NextNumbers DEF BankSound, BankTypeOK
<1>3. /\ n \in Row /\ n.uid = w /\ n.id = writer[w].id /\ n.index = writer[w].index
      /\ [id |-> writer[w].id, uid |-> w] \in [id: Nat, uid: Uids]
  BY <1>1, <1>2 DEF Row, Uids, Body
<1>4. /\ table' = table \cup {n}
      /\ named' \subseteq named \cup [id: Nat, uid: Uids]
      /\ Goes(w, "done") /\ writer[w].pc = "placed" /\ ~Taken(writer[w].index)
  BY <1>3 DEF AddCommit
<1> HIDE DEF n
<1>5. \A r \in table : r.uid # w /\ r.index # n.index
  BY <1>3, <1>4 DEF BankSound, Taken
<1>6. /\ writer' \in [Writers -> WriterStates]
      /\ writer'[w].pc = "done"
      /\ \A u \in Writers \ {w} : writer'[u] = writer[u]
  BY <1>4, GoesTyped
<1>7. IsFiniteSet(table')
  BY <1>4, FS_AddElement DEF BankSound
<1>8. BankTypeOK'
  BY <1>3, <1>4, <1>6 DEF BankSound, BankTypeOK, WriterStates
<1>9. \A r, s \in table' : r.uid = s.uid \/ r.index = s.index => r = s
  BY <1>3, <1>4, <1>5 DEF BankSound
<1>10. \A r \in table' : r.uid \in Writers => writer'[r.uid].pc = "done"
  BY <1>3, <1>4, <1>6 DEF BankSound
<1>11. n \notin table
  BY <1>3, <1>5
<1> QED BY <1>3, <1>4, <1>7, <1>8, <1>9, <1>10, <1>11 DEF BankSound

\* A row with another payload.
LEMMA EditedSound ==
  ASSUME BankSound, NEW w \in Writers, EditCommit(w)
  PROVE  /\ BankSound'
         /\ \E r \in table, e \in Row :
              /\ Found(writer[w].op.id) = {r}
              /\ table' = (table \ {r}) \cup {e}
              /\ e.uid = r.uid /\ e.id = r.id /\ e.index = r.index /\ e.body = Merged(w)
<1>1. PICK r \in Found(writer[w].op.id) :
        /\ Found(writer[w].op.id) = {r}
        /\ table' = (table \ {r}) \cup {[r EXCEPT !.body = Merged(w), !.tid = NextTid]}
  BY DEF EditCommit
<1> DEFINE e == [r EXCEPT !.body = Merged(w), !.tid = NextTid]
<1>2. r \in table /\ r \in Row
  BY <1>1 DEF Found, BankSound, BankTypeOK
<1>3. NextTid \in Nat
  BY NextNumbers DEF BankSound, BankTypeOK
<1>4. Merged(w) \in Body
  BY DEF Merged, BankSound, BankTypeOK, Body
<1>5. /\ e \in Row /\ e.uid = r.uid /\ e.id = r.id /\ e.index = r.index /\ e.body = Merged(w)
  <2> DEFINE b == Merged(w)
             m == NextTid
  <2>1. b \in Body /\ m \in Nat
    BY <1>3, <1>4
  <2>2. e = [r EXCEPT !.body = b, !.tid = m]
    OBVIOUS
  <2> HIDE DEF b, m, e
  <2>3. e.body = b
    BY <1>2, <2>1, <2>2 DEF Row
  <2> QED BY <1>2, <2>1, <2>2, <2>3 DEF Row, b
<1>6. table' = (table \ {r}) \cup {e}
  BY <1>1
<1> HIDE DEF e
<1>7. /\ writer' \in [Writers -> WriterStates]
      /\ writer'[w].pc = "done" /\ named' = named
      /\ \A u \in Writers \ {w} : writer'[u] = writer[u]
  BY GoesTyped DEF EditCommit
<1>8. IsFiniteSet(table')
  BY <1>6, FS_AddElement, FS_RemoveElement DEF BankSound
<1>9. BankTypeOK'
  BY <1>5, <1>6, <1>7 DEF BankSound, BankTypeOK, WriterStates
<1>10. \A s, t \in table' : s.uid = t.uid \/ s.index = t.index => s = t
  BY <1>2, <1>5, <1>6 DEF BankSound
<1>11. \A s \in table' : s.uid \in Writers => writer'[s.uid].pc = "done"
  BY <1>2, <1>5, <1>6, <1>7 DEF BankSound
<1> QED BY <1>1, <1>2, <1>5, <1>6, <1>8, <1>9, <1>10, <1>11 DEF BankSound

\* A delete leaves the other rows, those behind it one place further to the front, and no two
\* of them meet: one at the place it read and one behind that would have collided.
Shifted(index, at) == IF index > at THEN index - 1 ELSE index

LEMMA DeletedRows ==
  ASSUME BankSound, NEW w \in Writers, DeleteCommit(w)
  PROVE  /\ \E g \in Surjection(Left(w), table') :
              \A r \in Left(w) : /\ g[r] \in Row
                                 /\ g[r].uid = r.uid /\ g[r].id = r.id /\ g[r].body = r.body
                                 /\ g[r].index = Shifted(r.index, writer[w].index)
         /\ \A r, s \in Left(w) : r.index = writer[w].index + 1 => s.index # writer[w].index
<1> DEFINE moved(r) == [r EXCEPT !.index = @ - 1, !.tid = @ + NextTid]
           g == [r \in Left(w) |-> IF r \in Behind(w) THEN moved(r) ELSE r]
<1>1. writer[w].index \in Nat
  BY DEF BankSound, BankTypeOK
<1>2. NextTid \in Nat
  BY NextNumbers DEF BankSound, BankTypeOK
<1>3. Left(w) \subseteq Row /\ Behind(w) \subseteq Left(w)
  BY DEF Left, Behind, BankSound, BankTypeOK
<1>4. \A r \in Left(w) : r.index \in Nat /\ (r \in Behind(w) <=> r.index > writer[w].index)
  BY <1>3 DEF Behind, Row
<1>5. \A r \in Behind(w) : /\ moved(r) \in Row /\ moved(r).uid = r.uid /\ moved(r).id = r.id
                           /\ moved(r).body = r.body /\ moved(r).index = r.index - 1
  <2> SUFFICES ASSUME NEW r \in Behind(w)
               PROVE  /\ moved(r) \in Row /\ moved(r).uid = r.uid /\ moved(r).id = r.id
                      /\ moved(r).body = r.body /\ moved(r).index = r.index - 1
    OBVIOUS
  <2> DEFINE i == r.index - 1
             k == r.tid + NextTid
             e == moved(r)
  <2>1. r \in Row /\ i \in Nat /\ k \in Nat
    BY <1>1, <1>2, <1>3, <1>4 DEF Row
  <2>2. e = [r EXCEPT !.index = i, !.tid = k]
    BY <2>1 DEF Row
  <2> HIDE DEF i, k, e
  <2>3. e \in Row /\ e.uid = r.uid /\ e.id = r.id /\ e.body = r.body /\ e.index = i
    BY <2>1, <2>2 DEF Row
  <2> QED BY <2>3 DEF e, i
<1>6. table' = (Left(w) \ Behind(w)) \cup {moved(r) : r \in Behind(w)}
  BY DEF DeleteCommit
<1> HIDE DEF moved
<1>7. g \in Surjection(Left(w), table')
  <2>1. \A r \in Left(w) : g[r] \in table'
    BY <1>3, <1>6
  <2>2. \A s \in table' : \E r \in Left(w) : g[r] = s
    <3> SUFFICES ASSUME NEW s \in table' PROVE \E r \in Left(w) : g[r] = s
      OBVIOUS
    <3>1. CASE s \in Left(w) \ Behind(w)
      BY <3>1
    <3>2. CASE \E r \in Behind(w) : s = moved(r)
      BY <1>3, <3>2
    <3> QED BY <1>6, <3>1, <3>2
  <2>3. g \in [Left(w) -> table']
    BY <2>1
  <2> HIDE DEF g
  <2> QED BY <2>2, <2>3 DEF Surjection
<1>8. \A r \in Left(w) : /\ g[r] \in Row
                         /\ g[r].uid = r.uid /\ g[r].id = r.id /\ g[r].body = r.body
                         /\ g[r].index = Shifted(r.index, writer[w].index)
  BY <1>3, <1>4, <1>5 DEF Shifted
<1>9. ASSUME NEW r \in Left(w), NEW s \in Left(w), r.index = writer[w].index + 1,
             s.index = writer[w].index
      PROVE  FALSE
  <2>1. r \in Behind(w) /\ s \notin Behind(w) /\ s.index = r.index - 1
    BY <1>1, <1>4, <1>9
  <2> QED BY <2>1 DEF DeleteCommit, MustCollide, Collides
<1> QED BY <1>7, <1>8, <1>9

\* The rows that stay keep their order.
Ordered ==
  \A r1, r2 \in table, s1, s2 \in table' :
    s1.uid = r1.uid /\ s2.uid = r2.uid /\ r1.index < r2.index => s1.index < s2.index

LEMMA DeletedSound ==
  ASSUME BankSound, NEW w \in Writers, DeleteCommit(w)
  PROVE  BankSound' /\ Ordered
<1>1. PICK g \in Surjection(Left(w), table') :
        \A r \in Left(w) : /\ g[r] \in Row
                           /\ g[r].uid = r.uid /\ g[r].id = r.id /\ g[r].body = r.body
                           /\ g[r].index = Shifted(r.index, writer[w].index)
  BY DeletedRows
<1>2. \A r, s \in Left(w) : r.index = writer[w].index + 1 => s.index # writer[w].index
  BY DeletedRows
<1>3. \A s \in table' : \E r \in Left(w) : g[r] = s
  BY DEF Surjection
<1>4. /\ Left(w) \subseteq table /\ writer[w].index \in Nat
      /\ \A r \in table : r.index \in Nat
      /\ \A r, s \in table : r.uid = s.uid \/ r.index = s.index => r = s
  BY DEF Left, BankSound, BankTypeOK, Row
<1>5. \A r, s \in Left(w) : r.index < s.index => g[r].index < g[s].index
  BY <1>1, <1>2, <1>4 DEF Shifted
<1>6. Ordered
  <2> SUFFICES ASSUME NEW r1 \in table, NEW r2 \in table, NEW s1 \in table', NEW s2 \in table',
                      s1.uid = r1.uid, s2.uid = r2.uid, r1.index < r2.index
               PROVE  s1.index < s2.index
    BY DEF Ordered
  <2>1. PICK q1 \in Left(w) : g[q1] = s1
    BY <1>3
  <2>2. PICK q2 \in Left(w) : g[q2] = s2
    BY <1>3
  <2>3. q1 = r1 /\ q2 = r2
    BY <1>1, <1>4, <2>1, <2>2
  <2> QED BY <1>5, <2>1, <2>2, <2>3
<1>7. /\ writer' \in [Writers -> WriterStates]
      /\ writer'[w].pc = "done" /\ named' = named
      /\ \A u \in Writers \ {w} : writer'[u] = writer[u]
  BY GoesTyped DEF DeleteCommit
<1>8. table' \subseteq Row
  BY <1>1, <1>3
<1>9. IsFiniteSet(table')
  <2>1. IsFiniteSet(Left(w))
    BY <1>4, FS_Subset DEF BankSound
  <2> QED BY <2>1, FS_Surjection
<1>10. BankTypeOK'
  BY <1>7, <1>8 DEF BankSound, BankTypeOK, WriterStates
<1>11. \A s, t \in table' : s.uid = t.uid \/ s.index = t.index => s = t
  <2> SUFFICES ASSUME NEW s \in table', NEW t \in table', s.uid = t.uid \/ s.index = t.index
               PROVE  s = t
    OBVIOUS
  <2>1. PICK q \in Left(w) : g[q] = s
    BY <1>3
  <2>2. PICK r \in Left(w) : g[r] = t
    BY <1>3
  <2>3. CASE s.uid = t.uid
    BY <1>1, <1>4, <2>1, <2>2, <2>3
  <2>4. CASE s.index = t.index
    <3>1. q.index \in Nat /\ r.index \in Nat /\ s.index \in Int
      BY <1>1, <1>4, <2>1 DEF Row
    <3>2. ~(q.index < r.index) /\ ~(r.index < q.index)
      BY <1>5, <2>1, <2>2, <2>4, <3>1
    <3>3. q = r
      BY <1>4, <3>1, <3>2
    <3> QED BY <2>1, <2>2, <3>3
  <2> QED BY <2>3, <2>4
<1>12. \A s \in table' : s.uid \in Writers => writer'[s.uid].pc = "done"
  <2> SUFFICES ASSUME NEW s \in table', s.uid \in Writers PROVE writer'[s.uid].pc = "done"
    OBVIOUS
  <2>1. PICK q \in Left(w) : g[q] = s
    BY <1>3
  <2>2. q \in table /\ q.uid = s.uid
    BY <1>1, <1>4, <2>1
  <2> QED BY <1>7, <2>2 DEF BankSound
<1> QED BY <1>6, <1>9, <1>10, <1>11, <1>12 DEF BankSound

LEMMA WorkSound ==
  ASSUME BankSound, NEW w \in Writers, Work(w)
  PROVE  BankSound' /\ Ordered
<1>1. ASSUME table' = table PROVE Ordered
  BY <1>1 DEF Ordered, BankSound
<1>2. CASE Reads(w) \/ Stops(w)
  <2>1. /\ writer' \in [Writers -> WriterStates]
        /\ table' = table /\ named' = named
    BY <1>2, ReadsKeep
  <2>2. \A u \in Writers : writer[u].pc = "done" => writer'[u].pc = "done"
    <3>1. WriterShape
      BY DEF BankSound, BankTypeOK, WriterShape, WriterFields
    <3>2. \A u \in Writers \ {w} : writer'[u] = writer[u]
      BY <3>1, WorkLocal
    <3> QED BY <3>2, WorkRuns
  <2> QED BY <1>1, <2>1, <2>2, ReadSound
<1>3. CASE AddCommit(w)
  <2>1. PICK n \in Row : table' = table \cup {n} /\ n.uid = w
    BY <1>3, AddedSound
  <2>2. \A r \in table : r.uid # w
    BY <1>3 DEF AddCommit, BankSound
  <2>3. Ordered
    BY <2>1, <2>2 DEF Ordered, BankSound
  <2> QED BY <1>3, <2>3, AddedSound
<1>4. CASE EditCommit(w)
  <2>1. PICK r \in table, e \in Row :
          /\ table' = (table \ {r}) \cup {e}
          /\ e.uid = r.uid /\ e.index = r.index
    BY <1>4, EditedSound
  <2>2. Ordered
    BY <2>1 DEF Ordered, BankSound
  <2> QED BY <1>4, <2>2, EditedSound
<1>5. CASE DeleteCommit(w)
  BY <1>5, DeletedSound
<1> QED BY <1>2, <1>3, <1>4, <1>5 DEF Work, Reads, Stops

-----------------------------------------------------------------------------
(* Types, the lock, and the order of the paper                             *)

\* The review that works on the bank holds the lock of its process.
DeskSound ==
  /\ TypeOK
  /\ BankSound
  /\ \A v \in Reviews : UnderReview(v) => review[v].cr \in CRs
  /\ \A v \in Reviews : review[v].pc = "applying" => lock[Home[v]] = v
  /\ \A v \in Reviews : Running(v) => review[v].pc = "applying"

LEMMA DeskInit == Init => DeskSound
<1> SUFFICES ASSUME Init PROVE DeskSound
  OBVIOUS
<1>1. BankSound
  BY BankInitSound DEF Init
<1>2. TypeOK
  <2>1. BankTypeOK
    BY <1>1 DEF BankSound
  <2>2. 0 \in 0..Crashes
    OBVIOUS
  <2> QED BY <2>1, <2>2 DEF Init, TypeOK, Verdicts
<1>3. \A v \in Reviews : ~UnderReview(v) /\ review[v].pc # "applying"
  BY DEF Init, UnderReview
<1>4. \A v \in Reviews : ~Running(v)
  BY DEF Init, BankInit, Idle, Running
<1> QED BY <1>1, <1>2, <1>3, <1>4 DEF DeskSound

\* What a step leaves of the bank's side of the invariant.
BankKept == BankSound' /\ Ordered

LEMMA BankUnchanged == ASSUME BankSound, UNCHANGED bank PROVE BankKept
BY DEF bank, BankSound, BankTypeOK, BankKept, Ordered, Uids, Body, Row

\* The steps of a review that leave the bank alone.
LEMMA DeskAlone ==
  ASSUME DeskSound,
         \/ \E c \in CRs : Propose(c)
         \/ \E v \in Reviews : \/ \E c \in CRs, verdict \in Verdicts : Load(v, c, verdict)
                               \/ Reject(v) \/ Approve(v) \/ Unlock(v)
  PROVE  DeskSound' /\ BankKept
<1>1. UNCHANGED bank
  BY DEF Propose, Load, Reject, Approve, Unlock
<1>2. BankKept /\ BankSound'
  BY <1>1, BankUnchanged DEF DeskSound, BankKept
<1>3. \A v \in Reviews : Running(v)' <=> Running(v)
  BY <1>1 DEF bank, Running
<1>4. BankTypeOK'
  BY <1>2 DEF BankSound
<1> USE DEF DeskSound, TypeOK, UnderReview
<1>5. ASSUME NEW c \in CRs, Propose(c) PROVE DeskSound'
  BY <1>2, <1>3, <1>4, <1>5 DEF Propose
<1>6. ASSUME NEW v \in Reviews, NEW c \in CRs, NEW verdict \in Verdicts, Load(v, c, verdict)
      PROVE  DeskSound'
  BY <1>2, <1>3, <1>4, <1>6 DEF Load
<1>7. ASSUME NEW v \in Reviews, Reject(v) PROVE DeskSound'
  BY <1>2, <1>3, <1>4, <1>7 DEF Reject, Moves
<1>8. ASSUME NEW v \in Reviews, Approve(v) PROVE DeskSound'
  BY <1>2, <1>3, <1>4, <1>8 DEF Approve, Moves
<1>9. ASSUME NEW v \in Reviews, Unlock(v) PROVE DeskSound'
  BY <1>2, <1>3, <1>4, <1>9 DEF Unlock, Moves, Outcome, Released
<1> QED BY <1>2, <1>5, <1>6, <1>7, <1>8, <1>9

LEMMA DeskWorks ==
  ASSUME DeskSound,
         \/ \E v \in Reviews : Apply(v) \/ ApplyStep(v) \/ Die(v)
         \/ \E w \in Writers : Direct(w)
  PROVE  DeskSound' /\ BankKept
<1> USE DEF DeskSound
<1>1. WriterShape
  BY DEF BankSound, BankTypeOK, WriterShape, WriterFields
<1>2. ASSUME table' = table PROVE Ordered
  BY <1>2 DEF Ordered, BankSound
<1>3. ASSUME NEW v \in Reviews, Apply(v) PROVE DeskSound' /\ BankKept
  <2>1. Submit(v, Proposal[review[v].cr]) \/ UNCHANGED bank
    BY <1>3 DEF Apply
  <2>2. review[v].cr \in CRs
    BY <1>3 DEF Apply, UnderReview
  <2>3. BankKept /\ BankSound'
    BY <1>2, <2>1, <2>2, SubmitSound, BankUnchanged DEF BankKept, Submit
  <2>4. \A u \in Writers \ {v} : writer'[u] = writer[u]
    BY <1>1, <2>1, SubmitLocal DEF bank
  <2>5. BankTypeOK'
    BY <2>3 DEF BankSound
  <2>6. /\ review \in [Reviews ->
               [pc: {"idle", "loaded", "applying", "applied", "done", "failed"},
                cr: CRs \cup {Nobody}, verdict: Verdicts]]
        /\ lock \in [Processes -> Reviews \cup {Nobody}]
        /\ review' = [review EXCEPT ![v].pc = "applying"]
        /\ lock[Home[v]] = Nobody /\ lock' = [lock EXCEPT ![Home[v]] = v]
    BY <1>3 DEF Apply, Moves, Free, TypeOK
  <2>7. TypeOK'
    BY <1>3, <2>5, <2>6 DEF Apply, TypeOK
  <2>8. \A u \in Reviews : review'[u].pc = "applying" => lock'[Home[u]] = u
    BY <2>6
  <2>9. \A u \in Reviews : Running(u)' => review'[u].pc = "applying"
    BY <2>4, <2>6 DEF Running
  <2>10. \A u \in Reviews : UnderReview(u)' => review'[u].cr \in CRs
    BY <2>2, <2>6 DEF UnderReview
  <2> QED BY <2>3, <2>7, <2>8, <2>9, <2>10
<1>4. ASSUME NEW v \in Reviews, ApplyStep(v) PROVE DeskSound' /\ BankKept
  <2>1. BankKept /\ BankSound'
    BY <1>4, WorkSound DEF ApplyStep, BankKept
  <2>2. \A u \in Writers \ {v} : writer'[u] = writer[u]
    BY <1>1, <1>4, WorkLocal DEF ApplyStep
  <2>3. BankTypeOK'
    BY <2>1 DEF BankSound
  <2>4. review[v].cr \in CRs
    BY <1>4 DEF ApplyStep, UnderReview
  <2>5. applied' \in [CRs -> Nat]
    <3>1. CASE writer'[v].pc = "done"
      BY <1>4, <2>4, <3>1 DEF ApplyStep, TypeOK
    <3>2. CASE writer'[v].pc # "done"
      BY <1>4, <3>2 DEF ApplyStep, TypeOK
    <3> QED BY <3>1, <3>2
  <2> QED BY <1>4, <2>1, <2>2, <2>3, <2>5 DEF ApplyStep, TypeOK, UnderReview, Running
<1>5. ASSUME NEW v \in Reviews, Die(v) PROVE DeskSound' /\ BankKept
  <2>1. /\ BankKept /\ BankSound'
        /\ \A u \in Writers \ {v} : writer'[u] = writer[u]
        /\ ~Running(v)'
    <3>1. CASE Running(v)
      <4>1. Drop(v)
        BY <1>5, <3>1 DEF Die
      <4>2. writer'[v].pc = "failed" /\ \A u \in Writers \ {v} : writer'[u] = writer[u]
        BY <1>1, <4>1, GoesLocal DEF Drop, Ends
      <4> QED BY <1>2, <4>1, <4>2, DropSound DEF BankKept, Drop, Ends, Running
    <3>2. CASE ~Running(v)
      BY <1>5, <3>2, BankUnchanged DEF Die, BankKept, bank, Running
    <3> QED BY <3>1, <3>2
  <2>2. BankTypeOK'
    BY <2>1 DEF BankSound
  <2>3. TypeOK'
    BY <1>5, <2>2 DEF Die, Moves, TypeOK
  <2>4. \A u \in Reviews : review'[u].pc = "applying" => u # v /\ review[u].pc = "applying"
    BY <1>5 DEF Die, Moves, TypeOK
  <2>5. \A u \in Reviews : review'[u].pc = "applying" => lock'[Home[u]] = u
    BY <1>5, <2>4 DEF Die, TypeOK
  <2>6. \A u \in Reviews : Running(u)' => review'[u].pc = "applying"
    BY <1>5, <2>1 DEF Die, Moves, TypeOK, Running
  <2>7. \A u \in Reviews : UnderReview(u)' => review'[u].cr \in CRs
    BY <1>5 DEF Die, Moves, TypeOK, UnderReview
  <2> QED BY <2>1, <2>3, <2>5, <2>6, <2>7
<1>6. ASSUME NEW w \in Writers, Direct(w) PROVE DeskSound' /\ BankKept
  <2>1. BankKept /\ BankSound'
    <3>1. CASE Work(w)
      BY <3>1, WorkSound DEF BankKept
    <3>2. ASSUME NEW op \in Ops, Submit(w, op) PROVE BankKept /\ BankSound'
      BY <1>2, <3>2, SubmitSound, OpsAssumption DEF BankKept, Submit
    <3> QED BY <1>6, <3>1, <3>2 DEF Direct
  <2>2. \A u \in Reviews : writer'[u] = writer[u]
    BY <1>1, <1>6, WorkLocal, SubmitLocal DEF Direct
  <2>3. BankTypeOK'
    BY <2>1 DEF BankSound
  <2> QED BY <1>6, <2>1, <2>2, <2>3 DEF Direct, desk, TypeOK, UnderReview, Running
<1> QED BY <1>3, <1>4, <1>5, <1>6

LEMMA DeskStays ==
  ASSUME DeskSound, [Next]_vars
  PROVE  DeskSound' /\ BankKept
<1>1. CASE UNCHANGED vars
  <2>1. BankKept /\ BankSound'
    BY <1>1, BankUnchanged DEF vars, bank, DeskSound, BankKept
  <2> QED BY <1>1, <2>1 DEF vars, DeskSound, TypeOK, BankSound, UnderReview, Running
<1>2. CASE Next
  BY <1>2, DeskAlone, DeskWorks DEF Next, ReviewStep
<1> QED BY <1>1, <1>2

\* The tables, the requests and the reviews have their types, whatever overlaps or dies.
THEOREM TypeCorrect == Spec => []TypeOK
<1>1. DeskSound => TypeOK
  BY DEF DeskSound
<1>2. DeskSound /\ [Next]_vars => DeskSound'
  BY DeskStays
<1> QED BY <1>1, <1>2, DeskInit, PTL DEF Spec

\* The questions that stay keep their order in the paper, for any number of requests and
\* reviews that overlap in any way and in any number of processes: a delete that shifts by a
\* place that is no longer that of its row meets the unique index before it could swap two
\* (delete_question, _shift_order).
THEOREM OrderStands == Spec => OrderKept
<1>1. DeskSound /\ [Next]_vars => DeskSound' /\ Ordered
  BY DeskStays DEF BankKept
<1>2. Spec => [][Ordered]_bank
  <2>1. DeskSound /\ [Next]_vars => [Ordered]_bank
    BY <1>1
  <2> QED BY <1>1, <2>1, DeskInit, PTL DEF Spec
<1> QED BY <1>2 DEF OrderKept, Ordered

-----------------------------------------------------------------------------
(* One queue for all writers                                               *)

\* Whoever changes the bank is a review, and one process serves them all: the lock of that
\* process is then a queue for every change.
OneQueue == Writers = Reviews /\ \A u, v \in Reviews : Home[u] = Home[v]

\* What a request has read of the bank is still so.
UpToDate(w) ==
  /\ writer[w].pc \in {"numbered", "checked", "placed"} => Found(writer[w].id) = {}
  /\ writer[w].pc = "placed" => {r.index : r \in table} = 0..(writer[w].index - 1)
  /\ writer[w].pc = "loaded" => \A r \in Found(writer[w].op.id) : r.body = writer[w].body
  /\ writer[w].pc = "found" => \E r \in table : /\ r.uid = writer[w].uid
                                                /\ r.index = writer[w].index

Dense == \E n \in Nat : {r.index : r \in table} = 0..(n - 1)

QueueInv ==
  /\ DeskSound
  /\ LookupUnambiguous
  /\ Dense
  /\ \A w \in Writers : UpToDate(w)

\* Places without gaps, each with one row, are as many as the rows.
LEMMA DenseCompact == BankSound /\ Dense => Compact
<1> SUFFICES ASSUME BankSound, Dense PROVE Compact
  OBVIOUS
<1>1. PICK n \in Nat : {r.index : r \in table} = 0..(n - 1)
  BY DEF Dense
<1> DEFINE f == [r \in table |-> r.index]
           T == 0..(n - 1)
<1>2. f \in Bijection(table, T)
  <2>1. f \in [table -> T] /\ \A t \in T : \E r \in table : f[r] = t
    BY <1>1
  <2>2. \A r, s \in table : f[r] = f[s] => r = s
    BY DEF BankSound
  <2> HIDE DEF f, T
  <2> QED BY <2>1, <2>2 DEF Bijection, Injection, Surjection, IsInjective
<1>3. Cardinality(T) = Cardinality(table)
  <2>1. ExistsBijection(table, T)
    BY <1>2 DEF ExistsBijection
  <2>2. IsFiniteSet(table)
    BY DEF BankSound
  <2> HIDE DEF T
  <2> QED BY <2>1, <2>2, FS_Bijection
<1>4. Cardinality(T) = n
  BY FS_Interval
<1> QED BY <1>1, <1>3, <1>4 DEF Compact

\* The step of a request that works alone, by what it does to the table.
LEMMA AloneReads ==
  ASSUME BankSound, LookupUnambiguous, Dense, NEW w \in Writers, UpToDate(w), Reads(w) \/ Stops(w)
  PROVE  UpToDate(w)'
<1>1. writer \in [Writers -> WriterStates]
  BY DEF BankSound, BankTypeOK, WriterStates
<1>2. /\ NextId \in Nat /\ \A r \in table : r.id < NextId
      /\ NextIndex \in Nat /\ \A r \in table : r.index < NextIndex
      /\ NextIndex = 0 \/ \E r \in table : r.index = NextIndex - 1
      /\ \A r \in table : r.index \in Nat /\ r.id \in Nat
  BY NextNumbers DEF BankSound, BankTypeOK, Row
<1>3. CASE AddNumber(w)
  <2>1. writer'[w].pc = "numbered" /\ writer'[w].id = NextId /\ table' = table
    BY <1>1, <1>3 DEF AddNumber, WriterStates
  <2> QED BY <1>2, <2>1 DEF UpToDate, Found
<1>4. CASE AddCheck(w)
  <2>1. writer[w].pc = "numbered" /\ Found(writer[w].id) = {}
    BY <1>4 DEF AddCheck, UpToDate
  <2>2. CASE writer' = [writer EXCEPT ![w] = [@ EXCEPT !.pc = "checked", !.id = CheckedId(w)]]
    <3>1. CheckedId(w) = writer[w].id
      BY <2>1 DEF CheckedId
    <3>2. writer'[w].pc = "checked" /\ writer'[w].id = CheckedId(w) /\ table' = table
      BY <1>1, <1>4, <2>2 DEF AddCheck, WriterStates
    <3> QED BY <2>1, <3>1, <3>2 DEF UpToDate, Found
  <2>3. CASE Goes(w, "failed")
    BY <2>3, GoesTyped DEF UpToDate
  <2> QED BY <1>4, <2>2, <2>3 DEF AddCheck
<1>5. CASE AddPlace(w)
  <2>1. /\ writer'[w].pc = "placed" /\ writer'[w].index = NextIndex
        /\ writer'[w].id = writer[w].id /\ table' = table
        /\ Found(writer[w].id) = {}
    BY <1>1, <1>5 DEF AddPlace, WriterStates, UpToDate
  <2>2. {r.index : r \in table} = 0..(NextIndex - 1)
    <3>1. PICK n \in Nat : {r.index : r \in table} = 0..(n - 1)
      BY DEF Dense
    <3> DEFINE m == NextIndex
    <3>2. m \in Nat /\ (m = 0 \/ m - 1 \in 0..(n - 1)) /\ \A i \in 0..(n - 1) : i < m
      BY <1>2, <3>1
    <3> HIDE DEF m
    <3>3. m = n
      <4>1. n > 0 => n - 1 < m
        BY <3>2
      <4> QED BY <3>2, <4>1
    <3> QED BY <3>1, <3>3 DEF m
  <2> QED BY <2>1, <2>2 DEF UpToDate, Found
<1>6. CASE EditLoad(w)
  <2>1. CASE Goes(w, "failed")
    BY <2>1, GoesTyped DEF UpToDate
  <2>2. ASSUME NEW r \in Found(writer[w].op.id), Found(writer[w].op.id) = {r},
               writer' = [writer EXCEPT ![w] = [@ EXCEPT !.pc = "loaded", !.body = r.body]],
               table' = table
        PROVE  UpToDate(w)'
    <3>1. writer'[w].pc = "loaded" /\ writer'[w].body = r.body /\ writer'[w].op = writer[w].op
      BY <1>1, <2>2 DEF WriterStates
    <3> QED BY <2>2, <3>1 DEF UpToDate, Found
  <2> QED BY <1>6, <2>1, <2>2 DEF EditLoad
<1>7. CASE DeleteLoad(w)
  <2>1. CASE Goes(w, "failed")
    BY <2>1, GoesTyped DEF UpToDate
  <2>2. ASSUME NEW r \in Found(writer[w].op.id),
               writer' = [writer EXCEPT ![w] =
                 [@ EXCEPT !.pc = "found", !.uid = r.uid, !.index = r.index]],
               table' = table
        PROVE  UpToDate(w)'
    <3>1. writer'[w].pc = "found" /\ writer'[w].uid = r.uid /\ writer'[w].index = r.index
      BY <1>1, <2>2 DEF WriterStates
    <3> QED BY <2>2, <3>1 DEF UpToDate, Found
  <2> QED BY <1>7, <2>1, <2>2 DEF DeleteLoad
<1>8. CASE Stops(w)
  BY <1>8, GoesTyped DEF Stops, AddRefused, EditGone, DeleteRefused, Ends, UpToDate
<1> QED BY <1>3, <1>4, <1>5, <1>6, <1>7, <1>8 DEF Reads

LEMMA AloneAdds ==
  ASSUME BankSound, LookupUnambiguous, Dense, NEW w \in Writers, UpToDate(w), AddCommit(w)
  PROVE  LookupUnambiguous' /\ Dense' /\ PatchKeepsOtherKeys /\ AddedLast /\ UpToDate(w)'
<1>1. PICK n \in Row : /\ table' = table \cup {n} /\ n \notin table
                       /\ n.uid = w /\ n.id = writer[w].id /\ n.index = writer[w].index
  BY AddedSound
<1>2. writer[w].pc = "placed" /\ Goes(w, "done")
  BY DEF AddCommit
<1>3. /\ writer'[w].pc = "done" /\ writer[w].index \in Nat
      /\ \A u \in Writers \ {w} : writer'[u] = writer[u]
  BY <1>2, GoesTyped DEF BankSound, BankTypeOK
<1>4. Found(writer[w].id) = {} /\ {r.index : r \in table} = 0..(writer[w].index - 1)
  BY <1>2 DEF UpToDate
<1>5. LookupUnambiguous'
  BY <1>1, <1>4 DEF LookupUnambiguous, Found
<1>6. Dense'
  <2> DEFINE m == writer[w].index
  <2>1. m \in Nat /\ {r.index : r \in table} = 0..(m - 1) /\ n.index = m
    BY <1>1, <1>3, <1>4
  <2> HIDE DEF m
  <2>2. {r.index : r \in table'} = {r.index : r \in table} \cup {m}
    BY <1>1, <2>1
  <2>3. (0..(m - 1)) \cup {m} = 0..((m + 1) - 1)
    BY <2>1
  <2> DEFINE k == m + 1
  <2>4. k \in Nat /\ {r.index : r \in table'} = 0..(k - 1)
    <3> DEFINE I == {r.index : r \in table}
               J == {r.index : r \in table'}
    <3>1. I = 0..(m - 1) /\ J = I \cup {m}
      BY <2>1, <2>2
    <3> HIDE DEF I, J
    <3>2. J = 0..(k - 1)
      BY <2>3, <3>1
    <3> QED BY <2>1, <3>2 DEF J
  <2> HIDE DEF k
  <2> QED BY <2>4 DEF Dense
<1>7. AddedLast
  <2>1. \A r \in table : r.index < n.index
    BY <1>1, <1>3, <1>4
  <2>2. \A s \in table' : (\A r \in table : r.uid # s.uid) => s = n
    BY <1>1
  <2> QED BY <2>1, <2>2 DEF AddedLast
<1>8. PatchKeepsOtherKeys
  BY <1>2, <1>3 DEF PatchKeepsOtherKeys
<1>9. UpToDate(w)'
  BY <1>3 DEF UpToDate
<1> QED BY <1>5, <1>6, <1>7, <1>8, <1>9

LEMMA AloneEdits ==
  ASSUME BankSound, LookupUnambiguous, Dense, NEW w \in Writers, UpToDate(w), EditCommit(w)
  PROVE  LookupUnambiguous' /\ Dense' /\ PatchKeepsOtherKeys /\ AddedLast /\ UpToDate(w)'
<1>1. PICK r \in table, e \in Row :
        /\ Found(writer[w].op.id) = {r}
        /\ table' = (table \ {r}) \cup {e}
        /\ e.uid = r.uid /\ e.id = r.id /\ e.index = r.index /\ e.body = Merged(w)
  BY EditedSound
<1>2. writer[w].pc = "loaded" /\ Goes(w, "done")
  BY DEF EditCommit
<1>3. /\ writer'[w].pc = "done"
      /\ \A u \in Writers \ {w} : writer'[u] = writer[u]
  BY <1>2, GoesTyped
<1>4. r.body = writer[w].body /\ r.body \in Body
  BY <1>1, <1>2 DEF UpToDate, BankSound, BankTypeOK, Row
<1>5. LookupUnambiguous'
  BY <1>1 DEF LookupUnambiguous
<1>6. Dense'
  <2>1. \A s \in table' : \E q \in table : q.index = s.index
    BY <1>1
  <2>2. \A q \in table : \E s \in table' : q.index = s.index
    <3> SUFFICES ASSUME NEW q \in table PROVE \E s \in table' : q.index = s.index
      OBVIOUS
    <3>1. e \in table' /\ (q # r => q \in table')
      BY <1>1
    <3>2. CASE q = r
      BY <1>1, <3>1, <3>2
    <3>3. CASE q # r
      BY <3>1, <3>3
    <3> QED BY <3>2, <3>3
  <2>3. {s.index : s \in table'} = {s.index : s \in table}
    BY <2>1, <2>2
  <2> QED BY <2>3 DEF Dense
<1>7. AddedLast
  BY <1>1 DEF AddedLast
<1>8. \A f \in Fields : e.body[f] = r.body[f] \/ (f = writer[w].op.field /\ e.body[f] = w)
  BY <1>1, <1>4 DEF Merged, Body
<1>9. PatchKeepsOtherKeys
  <2> SUFFICES ASSUME NEW u \in Writers, writer[u].pc = "loaded", writer'[u].pc = "done",
                      NEW q \in table, NEW s \in table', q.uid = s.uid, NEW f \in Fields
               PROVE  s.body[f] = q.body[f] \/ (f = writer[u].op.field /\ s.body[f] = u)
    BY DEF PatchKeepsOtherKeys
  <2>1. u = w
    BY <1>3
  <2>2. CASE q = r
    <3>1. s = e
      BY <1>1, <2>2 DEF BankSound
    <3> QED BY <1>8, <2>1, <2>2, <3>1
  <2>3. CASE q # r
    <3>1. s = q
      BY <1>1, <2>3 DEF BankSound
    <3> QED BY <3>1
  <2> QED BY <2>2, <2>3
<1>10. UpToDate(w)'
  BY <1>3 DEF UpToDate
<1> QED BY <1>5, <1>6, <1>7, <1>9, <1>10

LEMMA AloneDeletes ==
  ASSUME BankSound, LookupUnambiguous, Dense, NEW w \in Writers, UpToDate(w), DeleteCommit(w)
  PROVE  LookupUnambiguous' /\ Dense' /\ PatchKeepsOtherKeys /\ AddedLast /\ UpToDate(w)'
<1>1. PICK g \in Surjection(Left(w), table') :
        \A r \in Left(w) : /\ g[r] \in Row
                           /\ g[r].uid = r.uid /\ g[r].id = r.id /\ g[r].body = r.body
                           /\ g[r].index = Shifted(r.index, writer[w].index)
  BY DeletedRows
<1>2. /\ \A s \in table' : \E r \in Left(w) : g[r] = s
      /\ \A r \in Left(w) : g[r] \in table'
  BY DEF Surjection
<1>3. writer[w].pc = "found" /\ Goes(w, "done")
  BY DEF DeleteCommit
<1>4. /\ writer'[w].pc = "done" /\ writer[w].index \in Nat
      /\ \A u \in Writers \ {w} : writer'[u] = writer[u]
  BY <1>3, GoesTyped DEF BankSound, BankTypeOK
<1>5. PICK d \in table : d.uid = writer[w].uid /\ d.index = writer[w].index
  BY <1>3 DEF UpToDate
<1>6. Left(w) = table \ {d}
  BY <1>5 DEF Left, BankSound
<1>7. LookupUnambiguous'
  <2> SUFFICES ASSUME NEW s \in table', NEW t \in table', s.id = t.id PROVE s = t
    BY DEF LookupUnambiguous
  <2>1. PICK q \in Left(w) : g[q] = s
    BY <1>2
  <2>2. PICK r \in Left(w) : g[r] = t
    BY <1>2
  <2>3. q = r
    BY <1>1, <1>6, <2>1, <2>2 DEF LookupUnambiguous
  <2> QED BY <2>1, <2>2, <2>3
<1>8. Dense'
  <2>1. PICK n \in Nat : {r.index : r \in table} = 0..(n - 1)
    BY DEF Dense
  <2> DEFINE at == writer[w].index
  <2>2. at \in 0..(n - 1)
    BY <1>5, <2>1
  <2>3. \A r \in Left(w) : r.index \in 0..(n - 1) /\ r.index # at
    BY <1>5, <1>6, <2>1 DEF BankSound
  <2>4. \A i \in 0..(n - 1) : i # at => \E r \in Left(w) : r.index = i
    BY <1>5, <1>6, <2>1
  <2>5. \A r \in Left(w) : g[r].index = Shifted(r.index, at)
    BY <1>1
  <2> HIDE DEF at
  <2>6. \A s \in table' : s.index \in 0..((n - 1) - 1)
    <3> SUFFICES ASSUME NEW s \in table' PROVE s.index \in 0..((n - 1) - 1)
      OBVIOUS
    <3>1. PICK r \in Left(w) : g[r] = s
      BY <1>2
    <3> QED BY <2>2, <2>3, <2>5, <3>1 DEF Shifted
  <2>7. \A i \in 0..((n - 1) - 1) : \E s \in table' : s.index = i
    <3> SUFFICES ASSUME NEW i \in 0..((n - 1) - 1) PROVE \E s \in table' : s.index = i
      OBVIOUS
    <3>1. CASE i < at
      <4>1. PICK r \in Left(w) : r.index = i
        BY <2>2, <2>4, <3>1
      <4>2. g[r].index = i
        BY <2>2, <2>5, <3>1, <4>1 DEF Shifted
      <4> QED BY <1>2, <4>2
    <3>2. CASE ~(i < at)
      <4>1. PICK r \in Left(w) : r.index = i + 1
        BY <2>2, <2>4, <3>2
      <4>2. g[r].index = i
        BY <2>2, <2>5, <3>2, <4>1 DEF Shifted
      <4> QED BY <1>2, <4>2
    <3> QED BY <3>1, <3>2
  <2>8. {s.index : s \in table'} = 0..((n - 1) - 1)
    BY <2>6, <2>7
  <2>9. n - 1 \in Nat
    BY <2>2
  <2> QED BY <2>8, <2>9 DEF Dense
<1>9. AddedLast
  <2> SUFFICES ASSUME NEW s \in table' PROVE \E r \in table : r.uid = s.uid
    BY DEF AddedLast
  <2>1. PICK r \in Left(w) : g[r] = s
    BY <1>2
  <2> QED BY <1>1, <1>6, <2>1
<1>10. PatchKeepsOtherKeys
  BY <1>3, <1>4 DEF PatchKeepsOtherKeys
<1>11. UpToDate(w)'
  BY <1>4 DEF UpToDate
<1> QED BY <1>7, <1>8, <1>9, <1>10, <1>11

\* What a request that works alone leaves, and does not do.
AloneKept(w) == LookupUnambiguous' /\ Dense' /\ UpToDate(w)' /\ PatchKeepsOtherKeys /\ AddedLast

\* Without a change of the table there is nothing to tell of a PATCH or a new question.
LEMMA SameTable ==
  ASSUME BankSound, table' = table
  PROVE  /\ PatchKeepsOtherKeys /\ AddedLast
         /\ LookupUnambiguous => LookupUnambiguous'
         /\ Dense => Dense'
BY DEF BankSound, PatchKeepsOtherKeys, AddedLast, LookupUnambiguous, Dense

LEMMA AloneWorks ==
  ASSUME BankSound, LookupUnambiguous, Dense, NEW w \in Writers, UpToDate(w), Work(w)
  PROVE  AloneKept(w)
<1>1. CASE Reads(w) \/ Stops(w)
  <2>1. table' = table
    BY <1>1, ReadsKeep
  <2> QED BY <1>1, <2>1, AloneReads, SameTable DEF AloneKept
<1>2. CASE AddCommit(w)
  BY <1>2, AloneAdds DEF AloneKept
<1>3. CASE EditCommit(w)
  BY <1>3, AloneEdits DEF AloneKept
<1>4. CASE DeleteCommit(w)
  BY <1>4, AloneDeletes DEF AloneKept
<1> QED BY <1>1, <1>2, <1>3, <1>4 DEF Work, Reads, Stops

\* With one queue, the other writers have not begun or have ended.
LEMMA Alone ==
  ASSUME OneQueue, DeskSound, NEW v \in Reviews, review[v].pc = "applying", NEW u \in Writers \ {v}
  PROVE  ~Running(u)
BY DEF OneQueue, DeskSound

Edits == PatchKeepsOtherKeys /\ AddedLast

\* A step that changes at most what one request, which reads nothing, knows.
LEMMA QueueRests ==
  ASSUME QueueInv, DeskSound', table' = table,
         \A u \in Writers : writer'[u] = writer[u] \/ writer'[u].pc \in {"sent", "failed"}
  PROVE  QueueInv' /\ Edits
<1>1. \A u \in Writers : UpToDate(u)'
  BY DEF QueueInv, UpToDate, Found
<1> QED BY <1>1, SameTable DEF QueueInv, DeskSound, Edits

LEMMA QueueStep ==
  ASSUME OneQueue, QueueInv, [Next]_vars
  PROVE  QueueInv' /\ Edits
<1>1. DeskSound'
  BY DeskStays DEF QueueInv
<1>2. WriterShape
  BY DEF QueueInv, DeskSound, BankSound, BankTypeOK, WriterShape, WriterFields
<1>3. CASE UNCHANGED bank
  BY <1>1, <1>3, QueueRests DEF bank
<1>4. ASSUME NEW v \in Reviews, Apply(v) PROVE QueueInv' /\ Edits
  <2>1. CASE Submit(v, Proposal[review[v].cr])
    <3>1. writer'[v].pc = "sent" /\ \A u \in Writers \ {v} : writer'[u] = writer[u]
      BY <1>2, <2>1, SubmitLocal
    <3> QED BY <1>1, <2>1, <3>1, QueueRests DEF Submit
  <2> QED BY <1>3, <1>4, <2>1 DEF Apply
<1>5. ASSUME NEW v \in Reviews, ApplyStep(v) PROVE QueueInv' /\ Edits
  <2>1. review[v].pc = "applying" /\ Work(v) /\ v \in Writers
    BY <1>5 DEF ApplyStep
  <2>2. AloneKept(v)
    BY <2>1, AloneWorks DEF QueueInv, DeskSound
  <2>3. \A u \in Writers \ {v} : writer'[u] = writer[u]
    BY <1>2, <2>1, WorkLocal
  <2>4. \A u \in Writers \ {v} : ~Running(u)
    BY <2>1, Alone DEF QueueInv
  <2>5. \A u \in Writers \ {v} : UpToDate(u)'
    BY <2>3, <2>4 DEF UpToDate, Running
  <2> QED BY <1>1, <2>2, <2>5 DEF AloneKept, QueueInv, Edits
<1>6. ASSUME NEW v \in Reviews, Die(v) PROVE QueueInv' /\ Edits
  <2>1. CASE Running(v)
    <3>1. Drop(v)
      BY <1>6, <2>1 DEF Die
    <3>2. writer'[v].pc = "failed" /\ \A u \in Writers \ {v} : writer'[u] = writer[u]
      BY <1>2, <3>1, GoesLocal DEF Drop, Ends
    <3> QED BY <1>1, <3>1, <3>2, QueueRests DEF Drop, Ends
  <2>2. CASE ~Running(v)
    BY <1>3, <1>6, <2>2 DEF Die
  <2> QED BY <2>1, <2>2
<1>7. ASSUME NEW w \in Writers, Direct(w) PROVE FALSE
  BY <1>7 DEF Direct, OneQueue
<1> QED
  BY <1>3, <1>4, <1>5, <1>6, <1>7
  DEF Next, ReviewStep, Propose, Load, Reject, Unlock, Approve, vars, bank

LEMMA QueueInit == Init => QueueInv
<1> SUFFICES ASSUME Init PROVE QueueInv
  OBVIOUS
<1>1. table = {Imported(i) : i \in 1..Seed}
  BY DEF Init, BankInit
<1>2. LookupUnambiguous
  BY <1>1 DEF LookupUnambiguous, Imported
<1>3. Dense
  <2>1. \A i \in 1..Seed : Imported(i).index = i - 1
    BY DEF Imported
  <2>2. \A r \in table : r.index \in 0..(Seed - 1)
    BY <1>1, <2>1, SeedAssumption
  <2>3. \A i \in 0..(Seed - 1) : \E r \in table : r.index = i
    <3> SUFFICES ASSUME NEW i \in 0..(Seed - 1) PROVE \E r \in table : r.index = i
      OBVIOUS
    <3>1. i + 1 \in 1..Seed /\ (i + 1) - 1 = i
      BY SeedAssumption
    <3>2. Imported(i + 1) \in table /\ Imported(i + 1).index = i
      BY <1>1, <2>1, <3>1
    <3> QED BY <3>2
  <2>4. {r.index : r \in table} = 0..(Seed - 1)
    BY <2>2, <2>3
  <2> QED BY <2>4, SeedAssumption DEF Dense
<1>4. \A w \in Writers : UpToDate(w)
  BY DEF Init, BankInit, Idle, UpToDate
<1> QED BY <1>2, <1>3, <1>4, DeskInit DEF QueueInv

\* As long as every change goes through the lock of one process, an id finds one question and
\* the places have no gap, for any proposals, any number of reviews and any deaths among them
\* (_apply_change_request, add_question, delete_question).
THEOREM NumbersSound == OneQueue /\ Spec => []Numbered
<1>1. QueueInv => Numbered
  BY DenseCompact DEF QueueInv, DeskSound, Numbered
<1>2. OneQueue /\ QueueInv /\ [Next]_vars => QueueInv'
  BY QueueStep
<1>3. CASE OneQueue
  <2>1. QueueInv /\ [Next]_vars => QueueInv'
    BY <1>2, <1>3
  <2> QED BY <1>1, <2>1, QueueInit, PTL DEF Spec
<1> QED BY <1>3, Zenon

\* Under the same lock a PATCH changes the keys it carries, of the question it was merged with,
\* and a new question comes last in the paper (update_question, add_question).
THEOREM EditsSound == OneQueue /\ Spec => BankEdits
<1>1. CASE OneQueue
  <2>1. QueueInv /\ [Next]_vars => QueueInv' /\ [Edits]_bank
    BY <1>1, QueueStep
  <2>2. Spec => [][Edits]_bank
    BY <2>1, QueueInit, PTL DEF Spec
  <2> QED BY <2>2 DEF BankEdits, Edits
<1> QED BY <1>1, Zenon
=============================================================================
