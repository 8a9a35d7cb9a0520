---------------------------- MODULE ChangeRequests ----------------------------
(***************************************************************************)
(* Change requests on one test: a reader proposes an edit of the question   *)
(* bank, the owner approves or rejects it.  A review is a thread of one      *)
(* server process:                                                           *)
(*                                                                           *)
(*   load the request, refuse it when it is not pending; reject: write the   *)
(*   status (commit); approve: take the per-test lock of the process, do the *)
(*   bank operation in a database session of its own (commit), give the      *)
(*   lock back, write the status (commit).                                   *)
(*                                                                           *)
(* The bank operations are those of QuestionBank: a review is one of its     *)
(* writers; the others are the owner's direct requests, which take no lock.  *)
(* A request to edit or delete may name no question: the review then takes   *)
(* the lock, leaves the bank alone and approves.                             *)
(* A status write is an UPDATE of the column whatever it holds by then.      *)
(***************************************************************************)
EXTENDS QuestionBank

CONSTANTS
  CRs,         \* the change requests
  Proposal,    \* the bank operation each of them asks for
  Reviews,     \* the writers that are reviews
  Processes,   \* server processes
  Home,        \* the process that serves a review
  Nobody,
  Crashes      \* bound: how many requests may die half-way

ASSUME ReviewsAssumption == Reviews \subseteq Writers
ASSUME HomeAssumption == Home \in [Reviews -> Processes]
ASSUME ProposalAssumption == Proposal \in [CRs -> OpTypes]
ASSUME NobodyAssumption == Nobody \notin Reviews \cup CRs
ASSUME CrashesAssumption == Crashes \in Nat

VARIABLES
  status,     \* table change_requests
  review,     \* the reviews: progress, request and verdict
  lock,       \* _apply_locks[test] of each process
  applied,    \* history: how often the change of a request was committed
  overlapped, \* history: a review was sent while another was under way
  crashes     \* how many requests have died

desk == <<status, review, lock, applied, overlapped, crashes>>
vars == <<table, writer, named, status, review, lock, applied, overlapped, crashes>>

Verdicts == {"approve", "reject"}
Decided == {"approved", "rejected"}

TypeOK ==
  /\ BankTypeOK
  /\ status \in [CRs -> {"absent", "pending", "approved", "rejected"}]
  /\ review \in [Reviews ->
       [pc: {"idle", "loaded", "applying", "applied", "done", "failed"},
        cr: CRs \cup {Nobody}, verdict: Verdicts]]
  /\ lock \in [Processes -> Reviews \cup {Nobody}]
  /\ applied \in [CRs -> Nat]
  /\ overlapped \in BOOLEAN
  /\ crashes \in 0..Crashes

Init ==
  /\ BankInit
  /\ status = [c \in CRs |-> "absent"]
  /\ review = [v \in Reviews |-> [pc |-> "idle", cr |-> Nobody, verdict |-> "approve"]]
  /\ lock = [p \in Processes |-> Nobody]
  /\ applied = [c \in CRs |-> 0]
  /\ overlapped = FALSE
  /\ crashes = 0

-----------------------------------------------------------------------------

UnderReview(v) == review[v].pc \in {"loaded", "applying", "applied"}
Moves(v, pc) == review' = [review EXCEPT ![v].pc = pc]

\* create_change_request by a reader of the test.
Propose(c) ==
  /\ status[c] = "absent"
  /\ status' = [status EXCEPT ![c] = "pending"]
  /\ UNCHANGED <<bank, review, lock, applied, overlapped, crashes>>

\* Mutant: the status of the request is not looked at.
Reviewable(c) == status[c] # "absent"
Pending(c) == status[c] = "pending"

\* The head of approve_change_request and reject_change_request.
Load(v, c, verdict) ==
  /\ review[v].pc = "idle" /\ status[c] # "absent"
  /\ review' = [review EXCEPT ![v] =
       [pc |-> IF Pending(c) THEN "loaded" ELSE "failed", cr |-> c, verdict |-> verdict]]
  /\ overlapped' = (overlapped \/ \E u \in Reviews : UnderReview(u))
  /\ UNCHANGED <<bank, status, lock, applied, crashes>>

Reject(v) ==
  /\ review[v].pc = "loaded" /\ review[v].verdict = "reject"
  /\ Moves(v, "done")
  /\ status' = [status EXCEPT ![review[v].cr] = "rejected"]
  /\ UNCHANGED <<bank, lock, applied, overlapped, crashes>>

\* Mutant: the lock is not waited for.
Open(v) == TRUE
Free(v) == lock[Home[v]] = Nobody

\* `if question_id`: the id is optional when a request is created.  Ids start at 1;
\* 0 stands for the missing one, which is NULL or "".
Asked(c) == Proposal[c].kind = "add" \/ Proposal[c].id # 0

\* _apply_change_request, from the lock to the bank operation, if there is one.
Apply(v) ==
  /\ review[v].pc = "loaded" /\ review[v].verdict = "approve"
  /\ Free(v)
  /\ Moves(v, "applying")
  /\ lock' = [lock EXCEPT ![Home[v]] = v]
  /\ IF Asked(review[v].cr) THEN Submit(v, Proposal[review[v].cr]) ELSE UNCHANGED bank
  /\ UNCHANGED <<status, applied, overlapped, crashes>>

ApplyStep(v) ==
  /\ review[v].pc = "applying"
  /\ Work(v)
  /\ applied' = IF writer'[v].pc = "done"
                THEN [applied EXCEPT ![review[v].cr] = @ + 1] ELSE applied
  /\ UNCHANGED <<status, review, lock, overlapped, crashes>>

\* Mutant: the lock is kept when the operation raised.
KeptOnError(v) ==
  IF writer[v].pc = "done" THEN [lock EXCEPT ![Home[v]] = Nobody] ELSE lock
Released(v) == [lock EXCEPT ![Home[v]] = Nobody]

\* Mutant: the exception of the bank operation is swallowed.
AppliedAnyway(v) == "applied"
Outcome(v) == IF writer[v].pc \in {"done", "idle"} THEN "applied" ELSE "failed"

\* The with-block ends, normally or by the exception of the bank operation.
Unlock(v) ==
  /\ review[v].pc = "applying" /\ ~Running(v)
  /\ lock' = Released(v)
  /\ Moves(v, Outcome(v))
  /\ UNCHANGED <<bank, status, applied, overlapped, crashes>>

Approve(v) ==
  /\ review[v].pc = "applied"
  /\ Moves(v, "done")
  /\ status' = [status EXCEPT ![review[v].cr] = "approved"]
  /\ UNCHANGED <<bank, lock, applied, overlapped, crashes>>

\* The owner's own requests on the bank.
Direct(w) ==
  /\ w \notin Reviews
  /\ Work(w) \/ \E op \in Ops : Submit(w, op)
  /\ UNCHANGED desk

\* A review dies: a commit that fails, or the end of its process.
Die(v) ==
  /\ UnderReview(v) /\ crashes < Crashes
  /\ crashes' = crashes + 1
  /\ Moves(v, "failed")
  /\ lock' = [p \in Processes |-> IF lock[p] = v THEN Nobody ELSE lock[p]]
  /\ IF Running(v) THEN Drop(v) ELSE UNCHANGED bank
  /\ UNCHANGED <<status, applied, overlapped>>

ReviewStep(v) == Reject(v) \/ Apply(v) \/ ApplyStep(v) \/ Unlock(v) \/ Approve(v)

Next ==
  \/ \E c \in CRs : Propose(c)
  \/ \E v \in Reviews :
       \/ \E c \in CRs, verdict \in Verdicts : Load(v, c, verdict)
       \/ ReviewStep(v)
       \/ Die(v)
  \/ \E w \in Writers : Direct(w)

Spec == Init /\ [][Next]_vars

\* A server thread that can run does run; nobody has to send anything.
FairSpec == Spec /\ \A v \in Reviews : WF_vars(ReviewStep(v))

-----------------------------------------------------------------------------
(* Properties                                                              *)

\* The status is written after the change: an approved request has been
\* applied, whatever failed and whoever else reviewed it, unless it is one that
\* names no question; that one changes nothing, and is approved all the same.
ApprovedWasApplied ==
  \A c \in CRs :
    /\ status[c] = "approved" /\ Asked(c) => applied[c] > 0
    /\ ~Asked(c) => applied[c] = 0

\* A change goes into the test once: "holding a per-test lock to prevent races".
\* It fails, because the status is looked at before the lock is taken.
AppliedOnce == \A c \in CRs : applied[c] <= 1

\* As long as the owner waits for each answer and no review dies, the test holds
\* the approved changes that name a question, each once, and nothing of what was
\* rejected.
BankFollowsDecisions ==
  ~overlapped /\ crashes = 0 =>
    \A c \in CRs :
      /\ applied[c] <= 1
      /\ status[c] = "approved" /\ Asked(c) => applied[c] = 1
      /\ status[c] = "rejected" => applied[c] = 0

\* As long as the owner waits, a decision is final, crashes or not: a second
\* review finds "Change request is not pending".
DecisionFinal ==
  [][~overlapped' =>
       \A c \in CRs : status[c] \in Decided => status'[c] = status[c]]_vars

\* A review that got as far as the queue for the lock is answered, because the
\* lock is given back by every way out of the with-block.
ReviewAnswered == \A v \in Reviews : UnderReview(v) ~> ~UnderReview(v)
=============================================================================
