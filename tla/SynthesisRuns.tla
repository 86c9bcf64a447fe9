--------------------------- MODULE SynthesisRuns ---------------------------
(***************************************************************************)
(* The synthesis runs of one archive: a finished OCR job creates a run or  *)
(* joins the waiting one, a scheduler loop of each server claims the       *)
(* oldest waiting run and takes it through the pipeline, a cron job fails  *)
(* runs whose lease is over, and users trigger, review and delete runs.  A *)
(* server may end at any point: what it was doing stops there, which the   *)
(* steps below allow as they allow a failing database access.              *)
(* Time is counted in ticks; ages and leases stop counting once they no    *)
(* longer matter.                                                          *)
(***************************************************************************)
EXTENDS Naturals

CONSTANTS
  Runs,         \* ids of rows of synthesis_runs, each used once
  Workers,      \* scheduler loops, one in each server
  Triggers,     \* calls of onOcrJobCompleted
  Reviewers,    \* approve and reject requests
  Window,       \* ACCUMULATION_WINDOW_MS
  Cooldown,     \* COOLDOWN_DURATION_MS
  Lease,        \* the two hours of expiresAt
  None

ASSUME Times ==
  /\ Window \in Nat /\ Cooldown \in Nat /\ Lease \in Nat
  /\ 0 < Cooldown /\ Window < Cooldown /\ 0 < Lease
ASSUME NoneIsNew == None \notin Runs \cup Nat

VARIABLES
  status,       \* status[r] : status of the row, "none" before and "deleted" after it exists
  kind,         \* kind[r] : pipeline the row was created for
  age,          \* age[r] : ticks since createdAt, up to Cooldown
  lease,        \* lease[r] : ticks until expiresAt, None while it is null
  changes,      \* changes[r] : previewJson proposes changes
  pc,           \* pc[w] : progress of the scheduler loop
  cur,          \* cur[w] : the run it claimed
  graph,        \* graph[r] : progress of the graph pipeline started for r
  trig,         \* trig[t] : progress of the trigger
  found,        \* found[t] : the waiting run it joins
  rev,          \* rev[u] : progress of the request
  revRun        \* revRun[u] : the run it read

rows == <<status, kind, age, lease, changes>>
loops == <<pc, cur>>
triggers == <<trig, found>>
requests == <<rev, revRun>>
vars == <<rows, loops, graph, triggers, requests>>

Reviewable == {"COMPLETED", "PARTIAL"}
Reviewed == {"APPROVED", "REJECTED"}
Statuses == {"PENDING", "PROCESSING", "FAILED"} \cup Reviewable \cup Reviewed

Exists(r) == status[r] \in Statuses
Waiting == {r \in Runs : status[r] = "PENDING"}

SynTypeOK ==
  /\ status \in [Runs -> Statuses \cup {"none", "deleted"}]
  /\ kind \in [Runs -> {"llm", "graph"}]
  /\ age \in [Runs -> 0..Cooldown]
  /\ lease \in [Runs -> (0..Lease) \cup {None}]
  /\ changes \in [Runs -> BOOLEAN]
  /\ pc \in [Workers -> {"idle", "setup", "work"}]
  /\ cur \in [Workers -> Runs \cup {None}]
  /\ graph \in [Runs -> {"off", "start", "work"}]
  /\ trig \in [Triggers -> {"off", "join", "cooldown", "create", "done"}]
  /\ found \in [Triggers -> Runs \cup {None}]
  /\ rev \in [Reviewers -> {"off", "approve", "rejectSome", "reject"}]
  /\ revRun \in [Reviewers -> Runs \cup {None}]

Init ==
  /\ status = [r \in Runs |-> "none"]
  /\ kind = [r \in Runs |-> "llm"]
  /\ age = [r \in Runs |-> 0]
  /\ lease = [r \in Runs |-> None]
  /\ changes = [r \in Runs |-> FALSE]
  /\ pc = [w \in Workers |-> "idle"]
  /\ cur = [w \in Workers |-> None]
  /\ graph = [r \in Runs |-> "off"]
  /\ trig = [t \in Triggers |-> "off"]
  /\ found = [t \in Triggers |-> None]
  /\ rev = [u \in Reviewers |-> "off"]
  /\ revRun = [u \in Reviewers |-> None]

-----------------------------------------------------------------------------
(* onOcrJobCompleted *)

\* A new row for pipeline k, waiting and without a lease.
Insert(r, k) ==
  /\ status[r] = "none"
  /\ status' = [status EXCEPT ![r] = "PENDING"]
  /\ kind' = [kind EXCEPT ![r] = k]
  /\ UNCHANGED <<age, lease, changes>>

GoTo(t, step) == trig' = [trig EXCEPT ![t] = step]

Recent == {r \in Waiting : age[r] <= Window}

\* The trigger looks for the newest waiting run of the last ten minutes.  It
\* gives up if the job is gone or the database fails.
FindWaiting(t) ==
  /\ trig[t] = "off"
  /\ \/ GoTo(t, "done") /\ UNCHANGED found
     \/ Recent = {} /\ GoTo(t, "cooldown") /\ UNCHANGED found
     \/ \E r \in Recent :
          /\ \A q \in Recent : age[r] <= age[q]
          /\ found' = [found EXCEPT ![t] = r]
          /\ GoTo(t, "join")
  /\ UNCHANGED <<rows, loops, graph, requests>>

\* It writes back the preview it read with its source added, and createdAt,
\* whatever has become of the run; the update of a deleted row throws.
Join(t) ==
  LET r == found[t] IN
  /\ trig[t] = "join"
  /\ \/ /\ Exists(r)
        /\ age' = [age EXCEPT ![r] = 0]
        /\ changes' = [changes EXCEPT ![r] = FALSE]
     \/ UNCHANGED <<age, changes>>
  /\ GoTo(t, "done")
  /\ found' = [found EXCEPT ![t] = None]
  /\ UNCHANGED <<status, kind, lease, loops, graph, requests>>

\* The newest run that is not waiting is younger than the cooldown.
Cooling == \E r \in Runs : Exists(r) /\ status[r] # "PENDING" /\ age[r] < Cooldown

\* isCooldownActive, which a database failure makes true.
CheckCooldown(t) ==
  /\ trig[t] = "cooldown"
  /\ \/ GoTo(t, "done")
     \/ ~Cooling /\ GoTo(t, "create")
  /\ UNCHANGED <<rows, loops, graph, found, requests>>

\* Like the other steps it may end in the catch block, or with its server.
Create(t) ==
  /\ trig[t] = "create"
  /\ (\E r \in Runs : Insert(r, "llm")) \/ UNCHANGED rows
  /\ GoTo(t, "done")
  /\ UNCHANGED <<loops, graph, found, requests>>

-----------------------------------------------------------------------------
(* routes/synthesis.ts *)

\* POST /trigger
Request ==
  /\ \E r \in Runs : Insert(r, "llm")
  /\ UNCHANGED <<loops, graph, triggers, requests>>

\* POST /trigger-graph-wiki : the row waits like any other until the graph
\* pipeline, started at once, has written to it.
RequestGraph ==
  /\ \E r \in Runs :
       Insert(r, "graph") /\ graph' = [graph EXCEPT ![r] = "start"]
  /\ UNCHANGED <<loops, triggers, requests>>

\* Approve and reject read the run first.  Approving, and rejecting some of
\* the pages, needs a preview with changes.
ReadRun(u, r) ==
  /\ rev[u] = "off"
  /\ status[r] \in Reviewable
  /\ \E ask \in {"approve", "rejectSome", "reject"} :
       /\ ask = "reject" \/ changes[r]
       /\ rev' = [rev EXCEPT ![u] = ask]
  /\ revRun' = [revRun EXCEPT ![u] = r]
  /\ UNCHANGED <<rows, loops, graph, triggers>>

Verdicts(ask) ==
  {IF ask = "approve" THEN "APPROVED" ELSE "REJECTED"}
    \cup IF ask = "reject" THEN {} ELSE {"PARTIAL"}

\* Once the pages are written the status is set by id, PARTIAL if changes
\* remain; rejecting some of them writes back the preview that was read.  The
\* update of a deleted row throws.
WriteReview(u) ==
  LET r == revRun[u] IN
  /\ rev[u] # "off"
  /\ \/ /\ Exists(r)
        /\ \E new \in Verdicts(rev[u]) : status' = [status EXCEPT ![r] = new]
        /\ changes' = [changes EXCEPT ![r] = @ \/ rev[u] = "rejectSome"]
     \/ UNCHANGED <<status, changes>>
  /\ rev' = [rev EXCEPT ![u] = "off"]
  /\ revRun' = [revRun EXCEPT ![u] = None]
  /\ UNCHANGED <<kind, age, lease, loops, graph, triggers>>

\* DELETE /:runId, in any status; nothing of the row remains.
Delete(r) ==
  /\ Exists(r)
  /\ status' = [status EXCEPT ![r] = "deleted"]
  /\ age' = [age EXCEPT ![r] = 0]
  /\ lease' = [lease EXCEPT ![r] = None]
  /\ changes' = [changes EXCEPT ![r] = FALSE]
  /\ UNCHANGED <<kind, loops, graph, triggers, requests>>

-----------------------------------------------------------------------------
(* initSynthesisPipelineScheduler and runPipelineStages *)

\* Mutant of Process: an expiresAt later than the two hours.
ProcessLong(r) ==
  /\ status' = [status EXCEPT ![r] = "PROCESSING"]
  /\ lease' = [lease EXCEPT ![r] = 2 * Lease]
  /\ UNCHANGED <<kind, age, changes>>

\* PROCESSING with a new expiresAt.
Process(r) ==
  /\ status' = [status EXCEPT ![r] = "PROCESSING"]
  /\ lease' = [lease EXCEPT ![r] = Lease]
  /\ UNCHANGED <<kind, age, changes>>

Enter(w, step) == pc' = [pc EXCEPT ![w] = step] /\ UNCHANGED cur
Release(w) == pc' = [pc EXCEPT ![w] = "idle"] /\ cur' = [cur EXCEPT ![w] = None]

\* Mutant of Claim: the query also takes runs whose lease is over.
ClaimOverdue(w) ==
  /\ pc[w] = "idle"
  /\ \E r \in Runs :
       /\ status[r] = "PENDING" \/ (status[r] = "PROCESSING" /\ lease[r] = 0)
       /\ Process(r)
       /\ cur' = [cur EXCEPT ![w] = r]
  /\ pc' = [pc EXCEPT ![w] = "setup"]
  /\ UNCHANGED <<graph, triggers, requests>>

\* Mutant of Claim: expiresAt is left to the setup stage.
ClaimWithoutLease(w) ==
  /\ pc[w] = "idle"
  /\ \E r \in Waiting :
       /\ \A q \in Waiting : age[q] <= age[r]
       /\ status' = [status EXCEPT ![r] = "PROCESSING"]
       /\ cur' = [cur EXCEPT ![w] = r]
  /\ pc' = [pc EXCEPT ![w] = "setup"]
  /\ UNCHANGED <<kind, age, lease, changes, graph, triggers, requests>>

\* getNextSynthesisJob : one statement, FOR UPDATE SKIP LOCKED.
Claim(w) ==
  /\ pc[w] = "idle"
  /\ \E r \in Waiting :
       /\ \A q \in Waiting : age[q] <= age[r]
       /\ Process(r)
       /\ cur' = [cur EXCEPT ![w] = r]
  /\ pc' = [pc EXCEPT ![w] = "setup"]
  /\ UNCHANGED <<graph, triggers, requests>>

\* runSynthesisSetupStage writes PROCESSING again whatever the status is.
Setup(w) ==
  /\ pc[w] = "setup"
  /\ Exists(cur[w])
  /\ Process(cur[w])
  /\ Enter(w, "work") \/ Release(w)
  /\ UNCHANGED <<graph, triggers, requests>>

\* The persist stage, or the catch block with FAILED, writes by id.
Persist(w) ==
  LET r == cur[w] IN
  /\ pc[w] = "work"
  /\ Exists(r)
  /\ \E new \in {"COMPLETED", "PARTIAL", "FAILED"}, some \in BOOLEAN :
       /\ status' = [status EXCEPT ![r] = new]
       /\ changes' = [changes EXCEPT ![r] = some]
  /\ Release(w)
  /\ UNCHANGED <<kind, age, lease, graph, triggers, requests>>

\* Mutant of Abandon: isRunning is not reset when the pipeline throws.
AbandonStuck(w) ==
  /\ pc[w] # "idle"
  /\ UNCHANGED vars

\* The loop leaves the run as it is: a setup that throws is not caught by the
\* pipeline, a persist stage that fails may fail in the catch block too, the
\* row may be gone, or the server ends and its loop is started again.
Abandon(w) ==
  /\ pc[w] # "idle"
  /\ Release(w)
  /\ UNCHANGED <<rows, graph, triggers, requests>>

-----------------------------------------------------------------------------
(* runWikiGraphPipeline *)

GraphStart(r) ==
  /\ graph[r] = "start"
  /\ Exists(r)
  /\ Process(r)
  /\ graph' = [graph EXCEPT ![r] = "work"]
  /\ UNCHANGED <<loops, triggers, requests>>

\* COMPLETED, or FAILED from the catch block, which also takes a failed start.
GraphEnd(r) ==
  /\ \E new \in {"COMPLETED", "FAILED"} :
       /\ graph[r] = "work" \/ (graph[r] = "start" /\ new = "FAILED")
       /\ Exists(r)
       /\ status' = [status EXCEPT ![r] = new]
  /\ graph' = [graph EXCEPT ![r] = "off"]
  /\ UNCHANGED <<kind, age, lease, changes, loops, triggers, requests>>

\* Its writes fail, or its server ends.
GraphGivesUp(r) ==
  /\ graph[r] # "off"
  /\ graph' = [graph EXCEPT ![r] = "off"]
  /\ UNCHANGED <<rows, loops, triggers, requests>>

-----------------------------------------------------------------------------
(* Reaper and time *)

\* Mutant of Overdue: the sweep looks at expiresAt alone.
OverdueAnyStatus(r) == status[r] # "none" /\ lease[r] = 0

Overdue(r) == status[r] = "PROCESSING" /\ lease[r] = 0

\* Mutant of Reap: what an overdue run has found so far is kept for review.
ReapKeepsPartial ==
  /\ \E r \in Runs : Overdue(r)
  /\ status' = [r \in Runs |-> IF Overdue(r) THEN "PARTIAL" ELSE status[r]]
  /\ UNCHANGED <<kind, age, lease, changes, loops, graph, triggers, requests>>

\* runSynthesisReaperCycle : one updateMany.
Reap ==
  /\ \E r \in Runs : Overdue(r)
  /\ status' = [r \in Runs |-> IF Overdue(r) THEN "FAILED" ELSE status[r]]
  /\ UNCHANGED <<kind, age, lease, changes, loops, graph, triggers, requests>>

\* Time passes; rows that do not exist have no age.
Tick ==
  /\ age' = [r \in Runs |-> IF Exists(r) /\ age[r] < Cooldown THEN age[r] + 1 ELSE age[r]]
  /\ lease' = [r \in Runs |-> IF lease[r] \in Nat \ {0} THEN lease[r] - 1 ELSE lease[r]]
  /\ UNCHANGED <<status, kind, changes, loops, graph, triggers, requests>>

TriggerStep(t) == FindWaiting(t) \/ Join(t) \/ CheckCooldown(t) \/ Create(t)
WorkerStep(w) == Claim(w) \/ Setup(w) \/ Persist(w) \/ Abandon(w)
GraphStep(r) == GraphStart(r) \/ GraphEnd(r) \/ GraphGivesUp(r)

Next ==
  \/ \E t \in Triggers : TriggerStep(t)
  \/ \E w \in Workers : WorkerStep(w)
  \/ \E r \in Runs : GraphStep(r) \/ Delete(r)
  \/ \E u \in Reviewers : WriteReview(u) \/ \E r \in Runs : ReadRun(u, r)
  \/ Request \/ RequestGraph \/ Reap \/ Tick

Spec == Init /\ [][Next]_vars

\* Scheduler loops poll every ten seconds and every LLM call has a timeout, the
\* reaper is a cron job, time passes.  Nothing is assumed of users.
Fairness ==
  /\ \A w \in Workers : WF_vars(WorkerStep(w))
  /\ WF_vars(Reap)
  /\ WF_vars(Tick)

FairSpec == Spec /\ Fairness

-----------------------------------------------------------------------------
(* Properties *)

\* No two scheduler loops work on the same run, although a slow run is failed
\* by the reaper while its loop still works and revived by its next write.
OneWorker == \A v, w \in Workers : cur[v] = cur[w] /\ cur[v] # None => v = w

\* A run that can be reviewed has no pipeline left that could write to it, and
\* neither has one that was: what the reviewer reads is final.  Runs of the
\* graph pipeline are excepted, a scheduler loop may claim them too.
ReviewableRests ==
  \A r \in Runs :
    kind[r] = "llm" /\ status[r] \in Reviewable \cup Reviewed
      => \A w \in Workers : cur[w] # r

\* The verdict of a review is only changed by another review that read the run
\* before that verdict was stored: no reaper sweep, joined source or late
\* pipeline undoes it.  Runs of the graph pipeline are excepted as above.
VerdictStays ==
  [][\A r \in Runs :
       kind[r] = "llm" /\ status[r] \in Reviewed /\ status'[r] # status[r]
         => status'[r] = "deleted" \/ \E u \in Reviewers : revRun[u] = r /\ rev'[u] = "off"]_vars

\* Every waiting run is eventually taken: the queue never stops, whatever the
\* pipelines of earlier runs do and however often joins move a run back.
QueueDrains == \A r \in Runs : status[r] = "PENDING" ~> status[r] # "PENDING"

\* Every run in progress ends although its server crashes, its setup throws or
\* its last write is lost, at any point.
RunsEnd == \A r \in Runs : status[r] = "PROCESSING" ~> status[r] # "PROCESSING"
=============================================================================
