------------------------------ MODULE ImportJobs ------------------------------
(***************************************************************************)
(* The tests of one owner: uploads of a .docx, empty tests, deletion, and   *)
(* the object store beside the database.  An upload is one request that      *)
(*                                                                           *)
(*   checks the quota; commits an import_jobs row; parks the source in the   *)
(*   store; marks the job processing (commit); extracts; mirrors every asset *)
(*   to the store in parallel; creates the collection (commit); saves its    *)
(*   title (commit); writes the questions (commit); marks the job done and   *)
(*   links it to the collection (commit).                                    *)
(*                                                                           *)
(* Each step may fail, the process may end between any two, and the new test *)
(* is listed, and can be deleted, from its first commit on.  A restarted     *)
(* process fails the jobs it finds processing and older than ten minutes.    *)
(* A request and the test it makes have one name here.                       *)
(***************************************************************************)
EXTENDS Naturals, FiniteSets

CONSTANTS
  Uploads, Creates,   \* the requests that make a test
  Assets,             \* the materials of an uploaded file
  Cap,                \* MAX_TESTS_PER_USER
  Rolling,            \* may a second process start beside the first?
  Crashes             \* bound: how often the process ends

Requests == Uploads \cup Creates

ASSUME RequestsAssumption == IsFiniteSet(Requests) /\ Uploads \cap Creates = {}
ASSUME AssetsAssumption == Assets # {}
ASSUME CapAssumption == Cap \in Nat
ASSUME RollingAssumption == Rolling \in BOOLEAN
ASSUME BoundAssumption == Crashes \in Nat

VARIABLES
  req,        \* the progress of each request
  row,        \* table test_collections, with its questions
  job,        \* table import_jobs: status
  link,       \* table import_jobs: the jobs whose test_collection_id is set
  objects,    \* the materials in the store, by test
  untried,    \* the materials that the mirror has not tried yet
  removal,    \* the DELETE request of each test
  up,         \* is a process running?
  crashes,    \* how often it has ended
  mishap,     \* history: a step on the store or the database failed, or a process ended
  overlapped  \* history: a test was asked for while another one was being made

jobsVars == <<req, row, job, link, objects, untried, removal, up, crashes, mishap, overlapped>>

JobsTypeOK ==
  /\ req \in [Requests ->
       {"idle", "admitted", "queued", "parked", "processing", "mirroring", "mirrored",
        "created", "titled", "filled", "linking", "unlinked", "failing",
        "ran", "refused", "raised", "dead"}]
  /\ row \in [Requests -> {"none", "empty", "full", "deleted"}]
  /\ job \in [Uploads -> {"none", "pending", "processing", "done", "failed"}]
  /\ link \subseteq Uploads
  /\ objects \in [Uploads -> SUBSET Assets]
  /\ untried \in [Uploads -> SUBSET Assets]
  /\ removal \in [Requests -> {"none", "dropping", "done"}]
  /\ up \in BOOLEAN
  /\ crashes \in 0..Crashes
  /\ mishap \in BOOLEAN
  /\ overlapped \in BOOLEAN

JobsInit ==
  /\ req = [r \in Requests |-> "idle"]
  /\ row = [r \in Requests |-> "none"]
  /\ job = [u \in Uploads |-> "none"]
  /\ link = {}
  /\ objects = [u \in Uploads |-> {}]
  /\ untried = [u \in Uploads |-> Assets]
  /\ removal = [r \in Requests |-> "none"]
  /\ up = TRUE
  /\ crashes = 0
  /\ mishap = FALSE
  /\ overlapped = FALSE

-----------------------------------------------------------------------------

Stored(r) == row[r] \in {"empty", "full"}
Owned == Cardinality({r \in Requests : Stored(r)})
UnderWay(r) == req[r] \notin {"idle", "ran", "refused", "raised", "dead"}

At(r, pc) == up /\ req[r] = pc
Goes(r, pc) == req' = [req EXCEPT ![r] = pc]

\* What most steps leave alone.
history == <<up, crashes, overlapped>>
store == <<objects, untried>>
jobs == <<job, link>>

\* Mutant: the cap may be exceeded by one.
AboveCap == Owned > Cap
AtCap == Owned >= Cap

\* _enforce_test_quota, at the head of upload_test and of create_test.
Send(r) ==
  /\ At(r, "idle")
  /\ Goes(r, IF AtCap THEN "refused" ELSE "admitted")
  /\ overlapped' = (overlapped \/ \E s \in Requests : UnderWay(s))
  /\ UNCHANGED <<row, jobs, store, removal, up, crashes, mishap>>

\* start_import: the job row, then the source document.
Queue(u) ==
  /\ At(u, "admitted")
  /\ Goes(u, "queued")
  /\ job' = [job EXCEPT ![u] = "pending"]
  /\ UNCHANGED <<row, link, store, removal, mishap, history>>

Park(u) ==
  /\ At(u, "queued")
  /\ Goes(u, "parked")
  /\ UNCHANGED <<row, jobs, store, removal, mishap, history>>

\* The exception leaves start_import, and with it the request.
ParkFails(u) ==
  /\ At(u, "queued")
  /\ Goes(u, "raised")
  /\ mishap' = TRUE
  /\ UNCHANGED <<row, jobs, store, removal, history>>

\* run_import: a job that is already done or failed is left alone.
Claim(u) ==
  /\ At(u, "parked")
  /\ IF job[u] \in {"done", "failed"}
     THEN Goes(u, "ran") /\ UNCHANGED job
     ELSE Goes(u, "processing") /\ job' = [job EXCEPT ![u] = "processing"]
  /\ UNCHANGED <<row, link, store, removal, mishap, history>>

Extract(u) ==
  /\ At(u, "processing")
  /\ \E pc \in {"mirroring", "failing"} : Goes(u, pc)
  /\ UNCHANGED <<row, jobs, store, removal, mishap, history>>

\* _mirror_assets_to_storage: the PUTs succeed or fail in any order, ...
Put(u, a) ==
  /\ At(u, "mirroring") /\ a \in untried[u]
  /\ untried' = [untried EXCEPT ![u] = @ \ {a}]
  /\ \/ objects' = [objects EXCEPT ![u] = @ \cup {a}] /\ UNCHANGED mishap
     \/ UNCHANGED objects /\ mishap' = TRUE
  /\ UNCHANGED <<req, row, jobs, removal, history>>

\* ... the first error is raised after all of them.
\* Mutant: a failed PUT is logged and no more.
Swallowed(u) == "mirrored"
Drained(u) == IF objects[u] = Assets THEN "mirrored" ELSE "failing"

MirrorEnds(u) ==
  /\ At(u, "mirroring") /\ untried[u] = {}
  /\ Goes(u, Drained(u))
  /\ UNCHANGED <<row, jobs, store, removal, mishap, history>>

\* get_or_create_collection, for an upload and for an empty test.
CreateRow(r) ==
  /\ At(r, IF r \in Uploads THEN "mirrored" ELSE "admitted")
  /\ Goes(r, "created")
  /\ row' = [row EXCEPT ![r] = "empty"]
  /\ UNCHANGED <<jobs, store, removal, mishap, history>>

\* Where the exception of a vanished test leads.
Gone(r) == IF r \in Uploads THEN "failing" ELSE "raised"

SaveSettings(r) ==
  /\ At(r, "created")
  /\ Goes(r, IF ~Stored(r) THEN Gone(r) ELSE IF r \in Uploads THEN "titled" ELSE "ran")
  /\ UNCHANGED <<row, jobs, store, removal, mishap, history>>

\* Mutant: the questions are written without a commit.
Unwritten(u) == row
Written(u) == IF Stored(u) THEN [row EXCEPT ![u] = "full"] ELSE row

ReplaceAll(u) ==
  /\ At(u, "titled")
  /\ Goes(u, IF Stored(u) THEN "filled" ELSE "failing")
  /\ row' = Written(u)
  /\ UNCHANGED <<jobs, store, removal, mishap, history>>

\* The look for the collection, before the last commit.
FindCollection(u) ==
  /\ At(u, "filled")
  /\ Goes(u, IF Stored(u) THEN "linking" ELSE "unlinked")
  /\ UNCHANGED <<row, jobs, store, removal, mishap, history>>

\* The link to a collection that was deleted since breaks its foreign key.
MarkDone(u) ==
  /\ At(u, "linking") \/ At(u, "unlinked")
  /\ IF req[u] = "linking" /\ ~Stored(u)
     THEN Goes(u, "failing") /\ UNCHANGED jobs
     ELSE /\ Goes(u, "ran")
          /\ job' = [job EXCEPT ![u] = "done"]
          /\ link' = IF req[u] = "linking" THEN link \cup {u} ELSE link
  /\ UNCHANGED <<row, store, removal, mishap, history>>

\* A failing statement: inside the try block of run_import it leads to
\* _set_status, elsewhere it ends the request.
InTry(r) ==
  req[r] \in {"processing", "mirrored", "created", "titled", "filled", "linking", "unlinked"}

StepFails(r) ==
  /\ up /\ UnderWay(r) /\ req[r] # "mirroring"
  /\ Goes(r, IF r \in Uploads /\ InTry(r) THEN "failing" ELSE "raised")
  /\ mishap' = TRUE
  /\ UNCHANGED <<row, jobs, store, removal, history>>

MarkFailed(u) ==
  /\ At(u, "failing")
  /\ Goes(u, "ran")
  /\ job' = [job EXCEPT ![u] = "failed"]
  /\ UNCHANGED <<row, link, store, removal, mishap, history>>

-----------------------------------------------------------------------------
(* DELETE /tests/{id}                                                      *)

\* The collection goes first, questions and shares with it; test_collection_id
\* of its job becomes NULL.
DeleteRow(r) ==
  /\ up /\ Stored(r) /\ removal[r] = "none"
  /\ removal' = [removal EXCEPT ![r] = "dropping"]
  /\ row' = [row EXCEPT ![r] = "deleted"]
  /\ link' = link \ {r}
  /\ UNCHANGED <<req, job, store, mishap, history>>

\* Mutant: the objects are left to themselves.
Undropped(r) == objects
Dropped(r) == [u \in Uploads |-> IF u = r THEN {} ELSE objects[u]]

\* _drop_storage_prefix is best-effort: its failure is logged and no more.
DropPrefix(r) ==
  /\ up /\ removal[r] = "dropping"
  /\ removal' = [removal EXCEPT ![r] = "done"]
  /\ \/ objects' = Dropped(r) /\ UNCHANGED mishap
     \/ UNCHANGED objects /\ mishap' = TRUE
  /\ UNCHANGED <<req, row, jobs, untried, history>>

-----------------------------------------------------------------------------
(* The process                                                             *)

Crash ==
  /\ up /\ crashes < Crashes
  /\ up' = FALSE
  /\ crashes' = crashes + 1
  /\ mishap' = TRUE
  /\ req' = [r \in Requests |-> IF UnderWay(r) THEN "dead" ELSE req[r]]
  /\ removal' = [r \in Requests |-> IF removal[r] = "dropping" THEN "done" ELSE removal[r]]
  /\ UNCHANGED <<row, jobs, store, overlapped>>

\* Mutant: every job is recovered.
AnyJob == {u \in Uploads : job[u] # "none"}
Processing == {u \in Uploads : job[u] = "processing"}

\* lifespan: recover_stale_jobs fails those of the jobs that are old enough.
Start ==
  /\ ~up \/ Rolling
  /\ up' = TRUE
  /\ \E stale \in SUBSET Processing :
       job' = [u \in Uploads |-> IF u \in stale THEN "failed" ELSE job[u]]
  /\ UNCHANGED <<req, row, link, store, removal, crashes, mishap, overlapped>>

-----------------------------------------------------------------------------

Import(u) ==
  \/ Queue(u) \/ Park(u) \/ ParkFails(u) \/ Claim(u) \/ Extract(u)
  \/ \E a \in Assets : Put(u, a)
  \/ MirrorEnds(u) \/ ReplaceAll(u) \/ FindCollection(u) \/ MarkDone(u) \/ MarkFailed(u)

JobsNext ==
  \/ \E r \in Requests :
       \/ Send(r) \/ CreateRow(r) \/ SaveSettings(r) \/ StepFails(r)
       \/ DeleteRow(r) \/ DropPrefix(r)
  \/ \E u \in Uploads : Import(u)
  \/ Crash \/ Start

JobsSpec == JobsInit /\ [][JobsNext]_jobsVars

-----------------------------------------------------------------------------
(* Properties                                                              *)

\* A test that can be opened has every material its questions refer to, from
\* its first commit to its last, whatever failed on the way: "without this
\* mirror, GET /assets/<name> returns 404".
MaterialsPresent == \A u \in Uploads : Stored(u) => objects[u] = Assets

\* A job that links to a test is done, and the test is complete; a done job
\* without a link is one whose test the owner deleted before it ended.
DoneIsFull ==
  \A u \in Uploads :
    /\ u \in link => job[u] = "done" /\ row[u] = "full"
    /\ job[u] = "done" /\ u \notin link => row[u] = "deleted"

\* "Raise 409 if the user has hit the per-owner test cap": the cap holds as long
\* as the owner makes one test at a time; the check is far from the commit.
QuotaKept == ~overlapped => Owned <= Cap

\* When nothing is under way and nothing ever failed, the store holds the
\* materials of the tests that exist and no others, also when a test was deleted
\* while it was being imported.
CleanWhenQuiet ==
  ~mishap /\ (\A r \in Requests : ~UnderWay(r) /\ removal[r] # "dropping") =>
    \A u \in Uploads : objects[u] # {} => Stored(u)

\* A decided job stays decided: "a job already in done or failed is left alone".
JobFinal ==
  [][\A u \in Uploads : job[u] \in {"done", "failed"} => job'[u] = job[u]]_jobsVars

\* "The row goes straight to done on success or failed with the error message":
\* an upload that was answered has settled its job.  It fails when the source
\* cannot be parked, or when the status itself cannot be written.
UploadSettles ==
  \A u \in Uploads :
    req[u] \in {"ran", "raised"} /\ job[u] # "none" => job[u] \in {"done", "failed"}
=============================================================================
