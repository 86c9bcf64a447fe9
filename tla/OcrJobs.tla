------------------------------- MODULE OcrJobs -------------------------------
(***************************************************************************)
(* The ocr_jobs table, the polling scheduler every server instance runs    *)
(* over it, and the OCR and URL pipelines that carry a claimed job to its  *)
(* end.  One step is one database access of the code together with the     *)
(* computation up to the next await, so that schedulers, cancel and delete *)
(* requests and crashes interleave wherever the code lets them.            *)
(*                                                                         *)
(* A pipeline's call to the auto-approve hook is the pair of states        *)
(* "approve" and "report", which this module only leaves; KbImport says    *)
(* what happens there.                                                     *)
(***************************************************************************)
EXTENDS Integers, FiniteSets

CONSTANTS
  Servers,      \* server instances sharing the database
  Jobs,         \* row ids; a smaller id has an earlier createdAt
  Kind,         \* Kind[j] : "PDF", "IMAGE" or "URL"
  Pages,        \* pages of a PDF
  Contents,     \* contentHash values
  Limit,        \* MAX_CONCURRENT_OCR_JOBS
  MaxCrashes,   \* bound on server crashes
  None          \* no job, or a contentHash that is not set

ASSUME ServersFinite == IsFiniteSet(Servers)
ASSUME JobsNumbered == Jobs \subseteq Nat /\ IsFiniteSet(Jobs)
ASSUME KindType == Kind \in [Jobs -> {"PDF", "IMAGE", "URL"}]
ASSUME BoundsPositive == Pages \in Nat \ {0} /\ Limit \in Nat \ {0}
ASSUME MaxCrashesNat == MaxCrashes \in Nat
ASSUME NoneFresh == None \notin Jobs /\ None \notin Contents

VARIABLES
  status,       \* the row: its status, "none" before the insert
  hash,         \* the row: contentHash
  good,         \* the row: the stored result has a page that did not fail
  pc,           \* pc[s] : where instance s is in its scheduler callback
  cur,          \* cur[s] : the job it picked or runs
  page,         \* page[s] : pages done in the page loop
  ok,           \* ok[s] : some page of this run came out valid
  cancelling,   \* cancel requests between their read and their write
  crashes

rowVars == <<status, hash, good>>
runVars == <<pc, cur, page, ok>>
vars == <<status, hash, good, pc, cur, page, ok, cancelling, crashes>>

Statuses == {"none", "PENDING", "PROCESSING", "COMPLETED", "FAILED",
             "CANCELLED", "deleted"}
Terminal == {"COMPLETED", "FAILED", "CANCELLED"}
Scheduling == {"idle", "pick", "claim"}
Running == {"setup", "hash", "dedup", "start", "check", "work", "save",
            "approve", "fail", "report"}

Processing == {j \in Jobs : status[j] = "PROCESSING"}

\* Instance s is past its claim of job j and has not let go of it.
Holds(s, j) == pc[s] \in Running /\ cur[s] = j

Held == {j \in Jobs : \E s \in Servers : Holds(s, j)}

TypeOK ==
  /\ status \in [Jobs -> Statuses]
  /\ hash \in [Jobs -> Contents \cup {None}]
  /\ good \in [Jobs -> BOOLEAN]
  /\ pc \in [Servers -> Scheduling \cup Running]
  /\ cur \in [Servers -> Jobs \cup {None}]
  /\ page \in [Servers -> 0..Pages]
  /\ ok \in [Servers -> BOOLEAN]
  /\ cancelling \subseteq Jobs
  /\ crashes \in 0..MaxCrashes
  /\ \A s \in Servers : cur[s] = None <=> pc[s] \in {"idle", "pick"}

Init ==
  /\ status = [j \in Jobs |-> "none"]
  /\ hash = [j \in Jobs |-> None]
  /\ good = [j \in Jobs |-> FALSE]
  /\ pc = [s \in Servers |-> "idle"]
  /\ cur = [s \in Servers |-> None]
  /\ page = [s \in Servers |-> 0]
  /\ ok = [s \in Servers |-> FALSE]
  /\ cancelling = {}
  /\ crashes = 0

SetStatus(j, new) == status' = [status EXCEPT ![j] = new]

GoTo(s, label) == pc' = [pc EXCEPT ![s] = label]

\* Mutant of Return: the callback ends and forgets to let go of its job.
ReturnStale(s) ==
  /\ GoTo(s, "idle")
  /\ page' = [page EXCEPT ![s] = 0]
  /\ ok' = [ok EXCEPT ![s] = FALSE]
  /\ UNCHANGED cur

\* The scheduler callback returns and its isRunning guard is lifted.
Return(s) ==
  /\ GoTo(s, "idle")
  /\ cur' = [cur EXCEPT ![s] = None]
  /\ page' = [page EXCEPT ![s] = 0]
  /\ ok' = [ok EXCEPT ![s] = FALSE]

\* An exception reaches the pipeline's catch block.
Throw(s) == GoTo(s, "fail") /\ UNCHANGED <<cur, page, ok>>

-----------------------------------------------------------------------------
(* Requests to the API *)

\* createOcrJob: the row is inserted PENDING.
Create(j) ==
  /\ status[j] = "none"
  /\ \A i \in Jobs : i < j => status[i] # "none"
  /\ SetStatus(j, "PENDING")
  /\ UNCHANGED <<hash, good, runVars, cancelling, crashes>>

\* cancelOcrJob reads the row; a row that is gone or terminal ends the request.
CancelRead(j) ==
  /\ status[j] \in {"PENDING", "PROCESSING"}
  /\ cancelling' = cancelling \cup {j}
  /\ UNCHANGED <<rowVars, runVars, crashes>>

\* cancelOcrJob writes CANCELLED whatever the row has become since the read.
CancelWrite(j) ==
  /\ j \in cancelling
  /\ cancelling' = cancelling \ {j}
  /\ SetStatus(j, IF status[j] = "deleted" THEN "deleted" ELSE "CANCELLED")
  /\ UNCHANGED <<hash, good, runVars, crashes>>

\* deleteOcrJob removes the row, in whatever status it is.
Delete(j) ==
  /\ status[j] \notin {"none", "deleted"}
  /\ SetStatus(j, "deleted")
  /\ UNCHANGED <<hash, good, runVars, cancelling, crashes>>

\* Approve, reject and page repair read a COMPLETED row and later write its
\* whole result back, whatever happened to the row in between but its deletion.
StoreResult(j) ==
  /\ status[j] \in {"COMPLETED", "CANCELLED"}
  /\ \E valid \in BOOLEAN : good' = [good EXCEPT ![j] = valid]
  /\ UNCHANGED <<status, hash, runVars, cancelling, crashes>>

-----------------------------------------------------------------------------
(* The scheduler callback of instance s *)

\* Mutant of Tick: the limit is not looked at.
TickUnlimited(s) ==
  /\ pc[s] = "idle"
  /\ GoTo(s, "pick")
  /\ UNCHANGED <<rowVars, cur, page, ok, cancelling, crashes>>

\* getActiveJobCount is below the limit; otherwise the callback skips its turn.
Tick(s) ==
  /\ pc[s] = "idle"
  /\ Cardinality(Processing) < Limit
  /\ GoTo(s, "pick")
  /\ UNCHANGED <<rowVars, cur, page, ok, cancelling, crashes>>

\* Mutant of Pick: the order of the query is dropped.
PickAny(s) ==
  /\ pc[s] = "pick"
  /\ \/ /\ \A j \in Jobs : status[j] # "PENDING"
        /\ Return(s)
     \/ \E j \in Jobs :
          /\ status[j] = "PENDING"
          /\ cur' = [cur EXCEPT ![s] = j]
          /\ GoTo(s, "claim")
          /\ UNCHANGED <<page, ok>>
  /\ UNCHANGED <<rowVars, cancelling, crashes>>

\* getNextPendingJob: the oldest PENDING row, if there is one.
Pick(s) ==
  /\ pc[s] = "pick"
  /\ \/ /\ \A j \in Jobs : status[j] # "PENDING"
        /\ Return(s)
     \/ \E j \in Jobs :
          /\ status[j] = "PENDING"
          /\ \A i \in Jobs : i < j => status[i] # "PENDING"
          /\ cur' = [cur EXCEPT ![s] = j]
          /\ GoTo(s, "claim")
          /\ UNCHANGED <<page, ok>>
  /\ UNCHANGED <<rowVars, cancelling, crashes>>

\* Mutant of Claim: an update by id alone, without the status in its condition.
ClaimBlind(s) ==
  /\ pc[s] = "claim"
  /\ status[cur[s]] # "deleted"
  /\ SetStatus(cur[s], "PROCESSING")
  /\ GoTo(s, "setup")
  /\ UNCHANGED <<cur, page, ok, hash, good, cancelling, crashes>>

\* updateMany where status = PENDING: only one instance sees count = 1.
Claim(s) ==
  /\ pc[s] = "claim"
  /\ \/ /\ status[cur[s]] = "PENDING"
        /\ SetStatus(cur[s], "PROCESSING")
        /\ GoTo(s, "setup")
        /\ UNCHANGED <<cur, page, ok>>
     \/ /\ status[cur[s]] # "PENDING"
        /\ Return(s)
        /\ UNCHANGED status
  /\ UNCHANGED <<hash, good, cancelling, crashes>>

-----------------------------------------------------------------------------
(* The pipelines *)

\* The row is loaded: gone is an error, terminal ends the run, and a missing
\* source (file, name or URL) fails the job.
Setup(s) ==
  /\ pc[s] = "setup"
  /\ \/ status[cur[s]] = "deleted" /\ Throw(s)
     \/ status[cur[s]] \in Terminal /\ Return(s)
     \/ /\ status[cur[s]] \notin Terminal \cup {"deleted"}
        /\ \/ Throw(s)
           \/ /\ GoTo(s, IF Kind[cur[s]] = "URL" THEN "start" ELSE "hash")
              /\ UNCHANGED <<cur, page, ok>>
  /\ UNCHANGED <<rowVars, cancelling, crashes>>

\* The hash of the source is stored on the row.
Hash(s) ==
  /\ pc[s] = "hash"
  /\ \/ status[cur[s]] = "deleted" /\ Throw(s) /\ UNCHANGED hash
     \/ /\ status[cur[s]] # "deleted"
        /\ \E c \in Contents : hash' = [hash EXCEPT ![cur[s]] = c]
        /\ GoTo(s, "dedup")
        /\ UNCHANGED <<cur, page, ok>>
  /\ UNCHANGED <<status, good, cancelling, crashes>>

\* A completed job with the same content: its result can be reused if it has
\* a valid page.
Completed(i, c) == status[i] = "COMPLETED" /\ hash[i] = c

\* findFirst may return any of the completed duplicates; without one, or with
\* one whose pages all failed, the document is read again.
Dedup(s) ==
  LET twins == {i \in Jobs \ {cur[s]} : Completed(i, hash[cur[s]])}
  IN /\ pc[s] = "dedup"
     /\ \/ /\ \E i \in twins : good[i]
           /\ GoTo(s, "save")
           /\ ok' = [ok EXCEPT ![s] = TRUE]
        \/ /\ twins = {} \/ \E i \in twins : ~good[i]
           /\ GoTo(s, "start")
           /\ UNCHANGED ok
     /\ UNCHANGED <<rowVars, cur, page, cancelling, crashes>>

\* startOcrJob writes PROCESSING without looking at the status it replaces.
\* A PDF may turn out unreadable just before.
Start(s) ==
  /\ pc[s] = "start"
  /\ \/ /\ status[cur[s]] = "deleted" \/ Kind[cur[s]] = "PDF"
        /\ Throw(s)
        /\ UNCHANGED status
     \/ /\ status[cur[s]] # "deleted"
        /\ SetStatus(cur[s], "PROCESSING")
        /\ GoTo(s, IF Kind[cur[s]] = "URL" THEN "work" ELSE "check")
        /\ UNCHANGED <<cur, page, ok>>
  /\ UNCHANGED <<hash, good, cancelling, crashes>>

\* assertNotCancelled, at the top of every page; the URL pipeline has none.
CheckCancelled(s) ==
  /\ pc[s] = "check"
  /\ \/ status[cur[s]] = "CANCELLED" /\ Return(s)
     \/ /\ status[cur[s]] # "CANCELLED"
        /\ GoTo(s, "work")
        /\ UNCHANGED <<cur, page, ok>>
  /\ UNCHANGED <<rowVars, cancelling, crashes>>

\* One page is read, well or badly, and the progress is written; the write
\* throws when the row is gone.  An image or a URL has one unit of work, and a
\* failure of it is an exception instead of a failed page.
Work(s) ==
  /\ pc[s] = "work"
  /\ \/ /\ \/ status[cur[s]] = "deleted"
           \/ Kind[cur[s]] # "PDF"
        /\ Throw(s)
     \/ /\ status[cur[s]] # "deleted"
        /\ \E valid \in IF Kind[cur[s]] = "URL" THEN {TRUE} ELSE BOOLEAN :
             ok' = [ok EXCEPT ![s] = @ \/ valid]
        /\ IF Kind[cur[s]] = "PDF" /\ page[s] + 1 < Pages
             THEN /\ page' = [page EXCEPT ![s] = @ + 1]
                  /\ GoTo(s, "check")
             ELSE GoTo(s, "save") /\ UNCHANGED page
        /\ UNCHANGED cur
  /\ UNCHANGED <<rowVars, cancelling, crashes>>

\* completeOcrJob stores the result and writes COMPLETED, again without
\* looking; writing the files before it may fail.
Save(s) ==
  /\ pc[s] = "save"
  /\ \/ Throw(s) /\ UNCHANGED <<status, good>>
     \/ /\ status[cur[s]] # "deleted"
        /\ SetStatus(cur[s], "COMPLETED")
        /\ good' = [good EXCEPT ![cur[s]] = ok[s]]
        /\ GoTo(s, "approve")
        /\ UNCHANGED <<cur, page, ok>>
  /\ UNCHANGED <<hash, cancelling, crashes>>

\* The auto-approve hook of a completed job swallows its own errors.
Approve(s) ==
  /\ pc[s] = "approve"
  /\ Return(s)
  /\ UNCHANGED <<rowVars, cancelling, crashes>>

\* Mutant of Fail: the catch block reports the failure and leaves the row.
FailForgets(s) ==
  /\ pc[s] = "fail"
  /\ GoTo(s, "report")
  /\ UNCHANGED <<rowVars, cur, page, ok, cancelling, crashes>>

\* failOcrJob; when the row is gone it throws, which ends an OCR run, while
\* the URL pipeline goes on to its hook.
Fail(s) ==
  /\ pc[s] = "fail"
  /\ \/ /\ status[cur[s]] = "deleted"
        /\ Kind[cur[s]] # "URL"
        /\ Return(s)
     \/ /\ status[cur[s]] # "deleted" \/ Kind[cur[s]] = "URL"
        /\ GoTo(s, "report")
        /\ UNCHANGED <<cur, page, ok>>
  /\ SetStatus(cur[s], IF status[cur[s]] = "deleted" THEN "deleted" ELSE "FAILED")
  /\ UNCHANGED <<hash, good, cancelling, crashes>>

\* The failure hook of a failed job.
Report(s) ==
  /\ pc[s] = "report"
  /\ Return(s)
  /\ UNCHANGED <<rowVars, cancelling, crashes>>

\* Mutant of Crash: the restarted instance runs resetStaleJobs without its age
\* threshold, and requeues the jobs of the others with its own.
CrashRequeues(s) ==
  /\ crashes < MaxCrashes
  /\ crashes' = crashes + 1
  /\ Return(s)
  /\ cancelling' \in SUBSET cancelling
  /\ status' = [j \in Jobs |-> IF j \in Processing THEN "PENDING" ELSE status[j]]
  /\ UNCHANGED <<hash, good>>

\* An instance stops and comes back: its callback is lost with the requests it
\* served, and nothing at startup looks at the rows it leaves PROCESSING.
Crash(s) ==
  /\ crashes < MaxCrashes
  /\ crashes' = crashes + 1
  /\ Return(s)
  /\ cancelling' \in SUBSET cancelling
  /\ UNCHANGED rowVars

-----------------------------------------------------------------------------
Scheduler(s) == Tick(s) \/ Pick(s) \/ Claim(s)

Pipeline(s) ==
  \/ Setup(s) \/ Hash(s) \/ Dedup(s) \/ Start(s) \/ CheckCancelled(s)
  \/ Work(s) \/ Save(s) \/ Approve(s) \/ Fail(s) \/ Report(s)

Request(j) ==
  Create(j) \/ CancelRead(j) \/ CancelWrite(j) \/ Delete(j) \/ StoreResult(j)

Next ==
  \/ \E j \in Jobs : Request(j)
  \/ \E s \in Servers : Scheduler(s) \/ Pipeline(s) \/ Crash(s)

\* Timers keep firing and awaited calls settle; nobody has to send a request.
Fairness ==
  /\ \A s \in Servers : WF_vars(Scheduler(s) \/ Pipeline(s))
  /\ \A j \in Jobs : WF_vars(CancelWrite(j))

Spec == Init /\ [][Next]_vars

FairSpec == Spec /\ Fairness

-----------------------------------------------------------------------------
(* Safety *)

\* No two instances ever run the same job, although every instance polls the
\* same table: the conditional updateMany is the only mutual exclusion.
ExclusiveRun ==
  \A s, t \in Servers : \A j \in Jobs : Holds(s, j) /\ Holds(t, j) => s = t

\* A job leaves PENDING for a run only when no older job is still waiting,
\* however long the claiming instance slept between its read and its claim.
ClaimInOrder ==
  [][\A j \in Jobs :
       status[j] = "PENDING" /\ status'[j] = "PROCESSING"
         => \A i \in Jobs : i < j => status[i] # "PENDING"]_vars

\* A run never starts twice: a job that left PENDING is never PENDING again,
\* and an instance only begins to hold a job that was PENDING.
RunOnce ==
  [][\A j \in Jobs :
       /\ status[j] \notin {"none", "PENDING"} => status'[j] # "PENDING"
       /\ \A s \in Servers : Holds(s, j)' /\ ~Holds(s, j) => status[j] = "PENDING"]_vars

\* The work of all instances stays bounded: the limit is checked before the
\* claim and not with it, so each further instance can exceed it by one job.
BoundedOvershoot ==
  Cardinality(Processing) <= Limit + Cardinality(Servers) - 1

\* A slot of the limit leaks only when an instance crashes: every PROCESSING
\* row is being worked on, but for one row per crash.
Orphans == Processing \ Held

OrphansNeedCrashes == Cardinality(Orphans) <= crashes

\* A cancelled job that no instance holds stays cancelled: the pipelines, which
\* write PROCESSING, COMPLETED and FAILED blindly, cannot revive it.
CancelledStays ==
  [][\A j \in Jobs \ Held :
       status[j] = "CANCELLED" => status'[j] \in {"CANCELLED", "deleted"}]_vars

-----------------------------------------------------------------------------
(* Liveness *)

\* Every job gets its turn, as long as fewer instances crashed than the limit
\* has slots, and comes to rest, whatever cancels and deletes race with its run;
\* only a crash can leave it PROCESSING.
JobsSettle ==
  \A j \in Jobs :
    status[j] = "PENDING"
      ~> [](\/ status[j] \notin {"PENDING", "PROCESSING"}
            \/ j \in Orphans /\ crashes > 0)

\* What "survives server restarts" promises: no job stays PROCESSING.
OrphansRecovered ==
  \A j \in Jobs : status[j] = "PROCESSING" ~> status[j] # "PROCESSING"

-----------------------------------------------------------------------------
(* The queue this implements *)

QueuePhase(j) ==
  CASE status[j] = "none"    -> "unborn"
    [] status[j] = "PENDING" -> "waiting"
    [] OTHER                 -> IF j \in Held THEN "taken" ELSE "over"

Queue == INSTANCE WorkQueue WITH
  Workers <- Servers,
  phase <- [j \in Jobs |-> QueuePhase(j)],
  holder <- [j \in Jobs |-> {s \in Servers : Holds(s, j)}]

\* The table, its pollers and their crashes implement the work queue.
ImplementsQueue == Queue!Spec
==============================================================================
