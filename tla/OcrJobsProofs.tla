---------------------------- MODULE OcrJobsProofs ----------------------------
(***************************************************************************)
(* Theorems about OcrJobs, for every number of servers and jobs.  The      *)
(* steps of the model are first summed up in three lemmas, one for each    *)
(* party: what a request, a scheduler and a pipeline may do to the rows    *)
(* and to the hold an instance has on a job.  The invariants follow from   *)
(* the summaries.                                                          *)
(***************************************************************************)
EXTENDS OcrJobs, TLAPS, FiniteSetTheorems

(***************************************************************************)
(* What the scheduler relies on, beyond the types: ids are handed out in   *)
(* order, a cancel request is about a row that was inserted, a job that an *)
(* instance picked has no older job left to serve, and a job that is held  *)
(* is not for the taking.                                                  *)
(***************************************************************************)
CreatedInOrder ==
  \A i, j \in Jobs : i < j /\ status[j] # "none" => status[i] # "none"

CancelsKnown == \A j \in cancelling : status[j] # "none"

PickedOldest ==
  \A s \in Servers : pc[s] = "claim" =>
    /\ status[cur[s]] # "none"
    /\ \A i \in Jobs : i < cur[s] => status[i] \notin {"none", "PENDING"}

HeldNotWaiting ==
  \A s \in Servers : \A j \in Jobs :
    Holds(s, j) => status[j] \notin {"none", "PENDING"}

IInv ==
  /\ TypeOK
  /\ CreatedInOrder
  /\ CancelsKnown
  /\ PickedOldest
  /\ HeldNotWaiting
  /\ ExclusiveRun

-----------------------------------------------------------------------------
(* Types *)

RowsOK ==
  /\ status \in [Jobs -> Statuses]
  /\ hash \in [Jobs -> Contents \cup {None}]
  /\ good \in [Jobs -> BOOLEAN]

RunsOK ==
  /\ pc \in [Servers -> Scheduling \cup Running]
  /\ cur \in [Servers -> Jobs \cup {None}]
  /\ page \in [Servers -> 0..Pages]
  /\ ok \in [Servers -> BOOLEAN]
  /\ \A s \in Servers : cur[s] = None <=> pc[s] \in {"idle", "pick"}

RestOK == cancelling \subseteq Jobs /\ crashes \in 0..MaxCrashes

\* TypeOK in three parts: the rows, the runs of the instances, and the rest.
LEMMA TypeParts == TypeOK <=> RowsOK /\ RunsOK /\ RestOK
BY DEF TypeOK, RowsOK, RunsOK, RestOK

\* An instance past its pick has a job.
LEMMA HasJob ==
  ASSUME RunsOK, NEW s \in Servers, pc[s] \notin {"idle", "pick"}
  PROVE  cur[s] \in Jobs
BY DEF RunsOK

\* Returning from the callback leaves the runs well-typed.
LEMMA ReturnTyped ==
  ASSUME RunsOK, NEW s \in Servers, Return(s)
  PROVE  RunsOK'
BY BoundsPositive DEF RunsOK, Return, GoTo, Scheduling, Running

\* So does a move to a label that agrees with the job held.
LEMMA MoveTyped ==
  ASSUME RunsOK, NEW s \in Servers, NEW l \in Scheduling \cup Running, GoTo(s, l),
         cur' \in [Servers -> Jobs \cup {None}],
         \A t \in Servers \ {s} : cur'[t] = cur[t],
         cur'[s] = None <=> l \in {"idle", "pick"},
         page' \in [Servers -> 0..Pages], ok' \in [Servers -> BOOLEAN]
  PROVE  RunsOK'
BY DEF RunsOK, GoTo

\* The usual move of a pipeline keeps the job.
LEMMA StepTyped ==
  ASSUME RunsOK, NEW s \in Servers, NEW l \in {"claim"} \cup Running, GoTo(s, l), UNCHANGED cur,
         pc[s] \notin {"idle", "pick"},
         page' \in [Servers -> 0..Pages], ok' \in [Servers -> BOOLEAN]
  PROVE  RunsOK'
<1>1. cur[s] # None
  BY DEF RunsOK
<1>2. l \in Scheduling \cup Running /\ l \notin {"idle", "pick"}
  BY DEF Scheduling, Running
<1> QED BY <1>1, <1>2, MoveTyped DEF RunsOK

\* A throw moves to the catch block.
LEMMA ThrowTyped ==
  ASSUME RunsOK, NEW s \in Servers, Throw(s), pc[s] \notin {"idle", "pick"}
  PROVE  RunsOK'
BY StepTyped DEF Throw, RunsOK, Running

\* Writing a status to a row.
LEMMA StatusTyped ==
  ASSUME RowsOK, NEW j \in Jobs, NEW new \in Statuses, SetStatus(j, new), UNCHANGED <<hash, good>>
  PROVE  RowsOK'
BY DEF RowsOK, SetStatus

-----------------------------------------------------------------------------
\* Every step of the model keeps the types.
LEMMA TypeStep == TypeOK /\ [Next]_vars => TypeOK'
<1> SUFFICES ASSUME RowsOK, RunsOK, RestOK, [Next]_vars PROVE RowsOK' /\ RunsOK' /\ RestOK'
  BY TypeParts, TypeParts' DEF TypeOK, RowsOK, RunsOK, RestOK
<1>1. ASSUME NEW j \in Jobs, Request(j) PROVE RowsOK' /\ RunsOK' /\ RestOK'
  <2>1. RunsOK'
    BY <1>1 DEF Request, Create, CancelRead, CancelWrite, Delete, StoreResult, RunsOK, runVars
  <2>2. RestOK'
    BY <1>1 DEF Request, Create, CancelRead, CancelWrite, Delete, StoreResult, RestOK
  <2>3. CASE Create(j)
    BY <2>1, <2>2, <2>3, StatusTyped DEF Create, Statuses
  <2>4. CASE CancelRead(j)
    BY <2>1, <2>2, <2>4 DEF CancelRead, RowsOK, rowVars
  <2>5. CASE CancelWrite(j)
    BY <2>1, <2>2, <2>5, StatusTyped DEF CancelWrite, Statuses
  <2>6. CASE Delete(j)
    BY <2>1, <2>2, <2>6, StatusTyped DEF Delete, Statuses
  <2>7. CASE StoreResult(j)
    BY <2>1, <2>2, <2>7 DEF StoreResult, RowsOK
  <2> QED BY <1>1, <2>3, <2>4, <2>5, <2>6, <2>7 DEF Request
<1>2. ASSUME NEW s \in Servers, Scheduler(s) PROVE RowsOK' /\ RunsOK' /\ RestOK'
  <2>1. RestOK'
    BY <1>2 DEF Scheduler, Tick, Pick, Claim, RestOK
  <2>2. CASE Tick(s)
    <3>1. RowsOK' BY <2>2 DEF Tick, RowsOK, rowVars
    <3>2. RunsOK' BY <2>2, MoveTyped DEF Tick, RunsOK, Scheduling
    <3> QED BY <2>1, <3>1, <3>2
  <2>3. CASE Pick(s)
    <3>1. RowsOK' BY <2>3 DEF Pick, RowsOK, rowVars
    <3>2. CASE Return(s) BY <2>1, <3>1, <3>2, ReturnTyped
    <3>3. ASSUME NEW j \in Jobs, cur' = [cur EXCEPT ![s] = j], GoTo(s, "claim"),
                 UNCHANGED <<page, ok>>
          PROVE  RunsOK'
      BY <3>3, MoveTyped, NoneFresh DEF RunsOK, Scheduling
    <3> QED BY <2>1, <2>3, <3>1, <3>2, <3>3 DEF Pick
  <2>4. CASE Claim(s)
    <3>1. pc[s] \notin {"idle", "pick"} /\ cur[s] \in Jobs
      BY <2>4, HasJob DEF Claim
    <3>2. RowsOK' BY <2>4, <3>1, StatusTyped DEF Claim, Statuses, RowsOK
    <3>3. CASE Return(s) BY <2>1, <3>2, <3>3, ReturnTyped
    <3>4. CASE GoTo(s, "setup") /\ UNCHANGED <<cur, page, ok>>
      BY <2>1, <3>1, <3>2, <3>4, StepTyped DEF RunsOK, Running
    <3> QED BY <2>4, <3>3, <3>4 DEF Claim
  <2> QED BY <1>2, <2>2, <2>3, <2>4 DEF Scheduler
<1>3. ASSUME NEW s \in Servers, Pipeline(s) PROVE RowsOK' /\ RunsOK' /\ RestOK'
  <2>0. RestOK'
    BY <1>3 DEF Pipeline, Setup, Hash, Dedup, Start, CheckCancelled, Work, Save, Approve,
                Fail, Report, RestOK
  <2> SUFFICES RowsOK' /\ RunsOK' BY <2>0
  <2>job. pc[s] \notin {"idle", "pick"} /\ cur[s] \in Jobs
    BY <1>3, HasJob DEF Pipeline, Setup, Hash, Dedup, Start, CheckCancelled, Work, Save,
                        Approve, Fail, Report
  <2>throw. Throw(s) => RunsOK'
    BY <2>job, ThrowTyped
  <2>return. Return(s) => RunsOK'
    BY ReturnTyped
  <2>move. ASSUME NEW l \in Running, GoTo(s, l), UNCHANGED <<cur, page, ok>> PROVE RunsOK'
    BY <2>move, <2>job, StepTyped DEF RunsOK
  <2>1. CASE Setup(s)
    BY <2>1, <2>throw, <2>return, <2>move DEF Setup, RowsOK, rowVars, Running
  <2>2. CASE Hash(s)
    <3>1. RowsOK' BY <2>2, <2>job DEF Hash, RowsOK
    <3> QED BY <2>2, <3>1, <2>throw, <2>move DEF Hash, Running
  <2>3. CASE Dedup(s)
    <3>1. RowsOK' BY <2>3 DEF Dedup, RowsOK, rowVars
    <3>2. ok' \in [Servers -> BOOLEAN] BY <2>3 DEF Dedup, RunsOK
    <3> QED BY <2>3, <2>job, <3>1, <3>2, StepTyped DEF Dedup, Running, RunsOK
  <2>4. CASE Start(s)
    <3>1. RowsOK' BY <2>4, <2>job, StatusTyped DEF Start, Statuses, RowsOK
    <3> QED BY <2>4, <3>1, <2>throw, <2>move DEF Start, Running
  <2>5. CASE CheckCancelled(s)
    BY <2>5, <2>return, <2>move DEF CheckCancelled, RowsOK, rowVars, Running
  <2>6. CASE Work(s)
    <3>1. RowsOK' BY <2>6 DEF Work, RowsOK, rowVars
    <3>2. CASE Throw(s) BY <3>1, <3>2, <2>throw
    <3>3. CASE ~Throw(s)
      <4>1. ok' \in [Servers -> BOOLEAN] BY <2>6, <3>3 DEF Work, RunsOK
      <4>2. page' \in [Servers -> 0..Pages]
        <5>1. CASE UNCHANGED page BY <5>1 DEF RunsOK
        <5>2. CASE page' = [page EXCEPT ![s] = @ + 1] /\ page[s] + 1 < Pages
          BY <5>2, BoundsPositive DEF RunsOK
        <5> QED BY <2>6, <3>3, <5>1, <5>2 DEF Work
      <4>3. \E l \in Running : GoTo(s, l) /\ UNCHANGED cur
        BY <2>6, <3>3 DEF Work, Running
      <4> QED BY <3>1, <4>1, <4>2, <4>3, <2>job, StepTyped
    <3> QED BY <3>2, <3>3
  <2>7. CASE Save(s)
    <3>1. RowsOK'
      BY <2>7, <2>job DEF Save, Statuses, RowsOK, SetStatus, RunsOK
    <3> QED BY <2>7, <3>1, <2>throw, <2>move DEF Save, Running
  <2>8. CASE Approve(s) BY <2>8, <2>return DEF Approve, RowsOK, rowVars
  <2>9. CASE Fail(s)
    <3>1. RowsOK' BY <2>9, <2>job, StatusTyped DEF Fail, Statuses
    <3> QED BY <2>9, <3>1, <2>return, <2>move DEF Fail, Running
  <2>10. CASE Report(s) BY <2>10, <2>return DEF Report, RowsOK, rowVars
  <2> QED BY <1>3, <2>1, <2>2, <2>3, <2>4, <2>5, <2>6, <2>7, <2>8, <2>9, <2>10 DEF Pipeline
<1>4. ASSUME NEW s \in Servers, Crash(s) PROVE RowsOK' /\ RunsOK' /\ RestOK'
  <2>1. RunsOK' BY <1>4, ReturnTyped DEF Crash
  <2>2. RowsOK' BY <1>4 DEF Crash, RowsOK, rowVars
  <2>3. RestOK' BY <1>4, MaxCrashesNat DEF Crash, RestOK
  <2> QED BY <2>1, <2>2, <2>3
<1>5. CASE UNCHANGED vars
  BY <1>5 DEF vars, RowsOK, RunsOK, RestOK
<1> QED BY <1>1, <1>2, <1>3, <1>4, <1>5 DEF Next

-----------------------------------------------------------------------------
(* What a step does to the rows and to the holds *)

\* A row changes by insertion, by a request, by its claim, or by the pipeline
\* of the instance that holds it.
RowStep ==
  \A j \in Jobs :
    \/ status'[j] = status[j]
    \/ /\ status[j] = "none" /\ status'[j] = "PENDING"
       /\ \A i \in Jobs : i < j => status[i] # "none"
    \/ status[j] # "none" /\ status'[j] \in {"CANCELLED", "deleted"}
    \/ status[j] = "PENDING" /\ status'[j] = "PROCESSING" /\ j \in Held'
    \/ /\ j \in Held
       /\ status[j] # "deleted" /\ status'[j] \in {"PROCESSING", "COMPLETED", "FAILED"}

\* No instance starts to hold a job, or picks one.
NoNewHold == \A t \in Servers : \A k \in Jobs : Holds(t, k)' => Holds(t, k)

NoNewPick ==
  \A t \in Servers : pc'[t] = "claim" => pc[t] = "claim" /\ cur'[t] = cur[t]

\* Cancel requests only begin for rows that exist.
CancelStep == \A j \in cancelling' : j \in cancelling \/ status[j] # "none"

\* Holds only depend on where the instances are.
LEMMA SameHolds ==
  ASSUME UNCHANGED <<pc, cur>>
  PROVE  NoNewHold /\ NoNewPick /\ Held' = Held
BY DEF NoNewHold, NoNewPick, Held, Holds

\* Returning drops the hold and nothing else.
LEMMA ReturnDrops ==
  ASSUME RunsOK, NEW s \in Servers, Return(s)
  PROVE  /\ NoNewHold /\ NoNewPick
         /\ pc'[s] = "idle"
         /\ \A t \in Servers \ {s} : pc'[t] = pc[t] /\ cur'[t] = cur[t]
<1>1. pc'[s] = "idle" /\ \A t \in Servers \ {s} : pc'[t] = pc[t] /\ cur'[t] = cur[t]
  BY DEF Return, GoTo, RunsOK
<1>2. "idle" \notin Running /\ "idle" # "claim"
  BY DEF Running
<1> QED BY <1>1, <1>2 DEF NoNewHold, NoNewPick, Holds

\* Moving from one label of a run to another keeps every hold.
LEMMA MoveKeeps ==
  ASSUME RunsOK, NEW s \in Servers, NEW l \in Running, GoTo(s, l), UNCHANGED cur,
         pc[s] \in Running
  PROVE  /\ NoNewHold /\ NoNewPick
         /\ pc'[s] = l
         /\ \A t \in Servers \ {s} : pc'[t] = pc[t]
<1>1. pc'[s] = l /\ \A t \in Servers \ {s} : pc'[t] = pc[t]
  BY DEF GoTo, RunsOK
<1>2. l # "claim"
  BY DEF Running
<1> QED BY <1>1, <1>2 DEF NoNewHold, NoNewPick, Holds

\* Only row j changes status in a request on it.
LEMMA RequestStep ==
  ASSUME TypeOK, CancelsKnown, NEW j \in Jobs, Request(j)
  PROVE  /\ RowStep /\ CancelStep
         /\ UNCHANGED <<pc, cur, crashes>>
         /\ \A k \in Jobs : status'[k] = "PROCESSING" => status[k] = "PROCESSING"
<1>1. UNCHANGED <<pc, cur, crashes>>
  BY DEF Request, Create, CancelRead, CancelWrite, Delete, StoreResult, runVars
<1>2. CancelStep
  BY DEF Request, Create, CancelRead, CancelWrite, Delete, StoreResult, CancelStep
<1>3. CASE Create(j)
  BY <1>1, <1>2, <1>3 DEF Create, SetStatus, RowStep, TypeOK
<1>4. CASE CancelRead(j) \/ StoreResult(j)
  BY <1>1, <1>2, <1>4 DEF CancelRead, StoreResult, rowVars, RowStep
<1>5. CASE CancelWrite(j)
  BY <1>1, <1>2, <1>5 DEF CancelWrite, CancelsKnown, SetStatus, RowStep, TypeOK
<1>6. CASE Delete(j)
  BY <1>1, <1>2, <1>6 DEF Delete, SetStatus, RowStep, TypeOK
<1> QED BY <1>3, <1>4, <1>5, <1>6 DEF Request

\* A pipeline writes only the row it holds, and lets go of it by returning.
LEMMA PipelineStep ==
  ASSUME TypeOK, NEW s \in Servers, Pipeline(s)
  PROVE  /\ pc[s] \in Running /\ cur[s] \in Jobs
         /\ \A k \in Jobs \ {cur[s]} : status'[k] = status[k]
         /\ \/ status'[cur[s]] = status[cur[s]]
            \/ /\ status[cur[s]] # "deleted"
               /\ status'[cur[s]] \in {"PROCESSING", "COMPLETED", "FAILED"}
         /\ UNCHANGED <<cancelling, crashes>>
         /\ \/ Return(s)
            \/ \E l \in Running : GoTo(s, l) /\ UNCHANGED cur
<1> USE DEF Running
<1> RunsOK BY TypeParts
<1>1. pc[s] \in Running
  BY DEF Pipeline, Setup, Hash, Dedup, Start, CheckCancelled, Work, Save, Approve, Fail, Report
<1>2. cur[s] \in Jobs
  BY <1>1, HasJob
<1>3. UNCHANGED <<cancelling, crashes>>
  BY DEF Pipeline, Setup, Hash, Dedup, Start, CheckCancelled, Work, Save, Approve, Fail, Report
<1>4. Return(s) \/ \E l \in Running : GoTo(s, l) /\ UNCHANGED cur
  BY DEF Pipeline, Setup, Hash, Dedup, Start, CheckCancelled, Work, Save, Approve, Fail,
         Report, Throw
<1>5. \/ UNCHANGED status
      \/ SetStatus(cur[s], "PROCESSING") /\ status[cur[s]] # "deleted"
      \/ SetStatus(cur[s], "COMPLETED") /\ status[cur[s]] # "deleted"
      \/ SetStatus(cur[s], IF status[cur[s]] = "deleted" THEN "deleted" ELSE "FAILED")
  BY DEF Pipeline, Setup, Hash, Dedup, Start, CheckCancelled, Work, Save, Approve, Fail,
         Report, rowVars
<1>6. status \in [Jobs -> Statuses]
  BY DEF TypeOK
<1>7. \A k \in Jobs \ {cur[s]} : status'[k] = status[k]
  BY <1>5, <1>6 DEF SetStatus
<1>8. \/ status'[cur[s]] = status[cur[s]]
      \/ /\ status[cur[s]] # "deleted"
         /\ status'[cur[s]] \in {"PROCESSING", "COMPLETED", "FAILED"}
  BY <1>2, <1>5, <1>6 DEF SetStatus
<1> QED BY <1>1, <1>2, <1>3, <1>4, <1>7, <1>8

\* Hence it makes no new hold, and its row is held.
LEMMA PipelineKeeps ==
  ASSUME TypeOK, NEW s \in Servers, Pipeline(s)
  PROVE  RowStep /\ CancelStep /\ NoNewHold /\ NoNewPick
<1> RunsOK BY TypeParts
<1>1. cur[s] \in Held
  BY PipelineStep DEF Held, Holds
<1>2. RowStep
  BY <1>1, PipelineStep DEF RowStep
<1>3. CancelStep
  BY PipelineStep DEF CancelStep
<1>4. NoNewHold /\ NoNewPick
  BY PipelineStep, ReturnDrops, MoveKeeps
<1> QED BY <1>2, <1>3, <1>4

-----------------------------------------------------------------------------
(* The inductive invariant *)

\* A step without new holds or picks keeps the invariant.
LEMMA CalmStep ==
  ASSUME IInv, TypeOK', RowStep, CancelStep, NoNewHold, NoNewPick
  PROVE  IInv'
<1>1. \A j \in Jobs : status[j] # "none" => status'[j] # "none"
  BY DEF RowStep
<1>2. \A j \in Jobs : status[j] \notin {"none", "PENDING"} => status'[j] \notin {"none", "PENDING"}
  BY DEF RowStep
<1>3. CreatedInOrder'
  <2> SUFFICES ASSUME NEW i \in Jobs, NEW j \in Jobs, i < j, status'[j] # "none"
               PROVE  status'[i] # "none"
    BY DEF CreatedInOrder
  <2>1. CASE status[j] # "none"
    BY <1>1, <2>1 DEF IInv, CreatedInOrder
  <2>2. CASE status[j] = "none"
    <3>1. j \notin Held
      BY <2>2 DEF IInv, HeldNotWaiting, Held
    <3> QED BY <1>1, <2>2, <3>1 DEF RowStep
  <2> QED BY <2>1, <2>2
<1>4. CancelsKnown'
  BY <1>1 DEF IInv, CancelsKnown, CancelStep, TypeOK
<1>5. PickedOldest'
  <2> SUFFICES ASSUME NEW t \in Servers, pc'[t] = "claim"
               PROVE  /\ status'[cur'[t]] # "none"
                      /\ \A i \in Jobs : i < cur'[t] => status'[i] \notin {"none", "PENDING"}
    BY DEF PickedOldest
  <2>1. pc[t] = "claim" /\ cur'[t] = cur[t]
    BY DEF NoNewPick
  <2>2. cur[t] \in Jobs
    BY <2>1, HasJob, TypeParts DEF IInv
  <2> QED BY <1>1, <1>2, <2>1, <2>2 DEF IInv, PickedOldest
<1>6. HeldNotWaiting'
  BY <1>2 DEF IInv, HeldNotWaiting, NoNewHold
<1>7. ExclusiveRun'
  BY DEF IInv, ExclusiveRun, NoNewHold
<1> QED BY <1>3, <1>4, <1>5, <1>6, <1>7 DEF IInv

\* A pick finds the oldest waiting row; older ones are neither waiting nor
\* still to be inserted.
LEMMA PickStep ==
  ASSUME IInv, TypeOK', NEW s \in Servers, Pick(s)
  PROVE  RowStep /\ NoNewHold /\ IInv'
<1> RunsOK /\ TypeOK BY TypeParts DEF IInv
<1>1. RowStep /\ CancelStep
  BY DEF Pick, RowStep, CancelStep, rowVars
<1>2. CASE Return(s)
  BY <1>1, <1>2, ReturnDrops, CalmStep
<1>3. ASSUME NEW j \in Jobs, status[j] = "PENDING",
             \A i \in Jobs : i < j => status[i] # "PENDING",
             cur' = [cur EXCEPT ![s] = j], GoTo(s, "claim")
      PROVE  NoNewHold /\ IInv'
  <2>1. UNCHANGED <<status, cancelling>>
    BY DEF Pick, rowVars
  <2>2. /\ pc'[s] = "claim" /\ cur'[s] = j
        /\ \A t \in Servers \ {s} : pc'[t] = pc[t] /\ cur'[t] = cur[t]
    BY <1>3 DEF GoTo, RunsOK
  <2>3. NoNewHold
    BY <2>2 DEF NoNewHold, Holds, Running
  <2>4. PickedOldest'
    <3> SUFFICES ASSUME NEW t \in Servers, pc'[t] = "claim"
                 PROVE  /\ status[cur'[t]] # "none"
                        /\ \A i \in Jobs : i < cur'[t] => status[i] \notin {"none", "PENDING"}
      BY <2>1 DEF PickedOldest
    <3>1. CASE t = s
      BY <1>3, <2>2, <3>1 DEF IInv, CreatedInOrder
    <3>2. CASE t # s
      BY <2>2, <3>2 DEF IInv, PickedOldest
    <3> QED BY <3>1, <3>2
  <2>5. CreatedInOrder' /\ CancelsKnown' /\ HeldNotWaiting' /\ ExclusiveRun'
    BY <2>1, <2>3 DEF IInv, CreatedInOrder, CancelsKnown, HeldNotWaiting, ExclusiveRun, NoNewHold
  <2> QED BY <2>3, <2>4, <2>5 DEF IInv
<1> QED BY <1>1, <1>2, <1>3 DEF Pick

\* A successful claim finds a waiting row, which nobody holds.
LEMMA ClaimStep ==
  ASSUME IInv, TypeOK', NEW s \in Servers, Claim(s)
  PROVE  /\ RowStep /\ IInv'
         /\ \A t \in Servers : \A k \in Jobs :
              Holds(t, k)' /\ ~Holds(t, k) => t = s /\ k = cur[s] /\ status[k] = "PENDING"
<1> RunsOK /\ TypeOK BY TypeParts DEF IInv
<1>0. pc[s] = "claim" /\ cur[s] \in Jobs
  BY HasJob DEF Claim
<1>1. CASE Return(s) /\ UNCHANGED status
  <2>1. RowStep /\ CancelStep
    BY <1>1 DEF Claim, RowStep, CancelStep
  <2>2. NoNewHold /\ NoNewPick
    BY <1>1, ReturnDrops
  <2> QED BY <2>1, <2>2, CalmStep DEF NoNewHold
<1>2. CASE /\ status[cur[s]] = "PENDING" /\ SetStatus(cur[s], "PROCESSING")
           /\ GoTo(s, "setup") /\ UNCHANGED cur
  <2>1. /\ pc'[s] = "setup" /\ \A t \in Servers \ {s} : pc'[t] = pc[t]
        /\ cur' = cur /\ cancelling' = cancelling
    BY <1>2 DEF GoTo, RunsOK, Claim
  <2>2. status'[cur[s]] = "PROCESSING" /\ \A j \in Jobs \ {cur[s]} : status'[j] = status[j]
    BY <1>0, <1>2 DEF SetStatus, TypeOK
  <2>3. \A t \in Servers : \A k \in Jobs :
          Holds(t, k)' => Holds(t, k) \/ (t = s /\ k = cur[s])
    <3> SUFFICES ASSUME NEW t \in Servers, NEW k \in Jobs, Holds(t, k)', t # s
                 PROVE  Holds(t, k)
      BY <2>1 DEF Holds
    <3> QED BY <2>1 DEF Holds
  <2>4. \A t \in Servers : \A k \in Jobs :
          Holds(t, k)' /\ ~Holds(t, k) => t = s /\ k = cur[s] /\ status[k] = "PENDING"
    BY <1>2, <2>3
  <2>5. cur[s] \in Held'
    BY <1>0, <2>1 DEF Held, Holds, Running
  <2>6. RowStep
    BY <1>2, <2>2, <2>5 DEF RowStep
  <2>7. CreatedInOrder' /\ CancelsKnown'
    BY <1>2, <2>1, <2>2 DEF IInv, CreatedInOrder, CancelsKnown, TypeOK
  <2>8. PickedOldest'
    <3> SUFFICES ASSUME NEW t \in Servers, pc'[t] = "claim"
                 PROVE  /\ status'[cur'[t]] # "none"
                        /\ \A i \in Jobs : i < cur'[t] => status'[i] \notin {"none", "PENDING"}
      BY DEF PickedOldest
    <3>1. pc[t] = "claim" /\ cur'[t] = cur[t]
      BY <2>1
    <3>2. cur[t] \in Jobs
      BY <3>1, HasJob
    <3> QED BY <2>2, <3>1, <3>2 DEF IInv, PickedOldest
  <2>9. HeldNotWaiting'
    BY <2>2, <2>3 DEF IInv, HeldNotWaiting
  <2>10. ExclusiveRun'
    <3> SUFFICES ASSUME NEW t \in Servers, NEW u \in Servers, NEW k \in Jobs,
                        Holds(t, k)', Holds(u, k)'
                 PROVE  t = u
      BY DEF ExclusiveRun
    <3>1. k = cur[s] => ~Holds(t, k) /\ ~Holds(u, k)
      BY <1>2 DEF IInv, HeldNotWaiting
    <3> QED BY <2>3, <3>1 DEF IInv, ExclusiveRun
  <2> QED BY <2>4, <2>6, <2>7, <2>8, <2>9, <2>10 DEF IInv
<1> QED BY <1>1, <1>2 DEF Claim

\* The remaining steps are calm.
LEMMA OtherSteps ==
  ASSUME IInv, NEW s \in Servers, Tick(s) \/ Crash(s)
  PROVE  RowStep /\ CancelStep /\ NoNewHold /\ NoNewPick
<1> RunsOK BY TypeParts DEF IInv
<1>1. RowStep /\ CancelStep
  BY DEF Tick, Crash, RowStep, CancelStep, rowVars
<1>2. CASE Crash(s)
  BY <1>1, <1>2, ReturnDrops DEF Crash
<1>3. CASE Tick(s)
  <2>1. pc'[s] = "pick" /\ cur' = cur /\ \A t \in Servers \ {s} : pc'[t] = pc[t]
    BY <1>3 DEF Tick, GoTo, RunsOK
  <2> QED BY <1>1, <2>1 DEF NoNewHold, NoNewPick, Holds, Running
<1> QED BY <1>2, <1>3

LEMMA IInvInit == Init => IInv
<1> SUFFICES ASSUME Init PROVE IInv
  OBVIOUS
<1>1. TypeOK
  BY BoundsPositive, MaxCrashesNat, NoneFresh DEF Init, TypeOK, Statuses, Scheduling
<1>2. \A s \in Servers : pc[s] \notin Running /\ pc[s] # "claim"
  BY DEF Init, Running
<1>3. CreatedInOrder /\ CancelsKnown
  BY DEF Init, CreatedInOrder, CancelsKnown
<1> QED BY <1>1, <1>2, <1>3 DEF IInv, PickedOldest, HeldNotWaiting, ExclusiveRun, Holds

LEMMA IInvStep == IInv /\ [Next]_vars => IInv' /\ RowStep
<1> SUFFICES ASSUME IInv, [Next]_vars PROVE IInv' /\ RowStep
  OBVIOUS
<1>0. TypeOK'
  BY TypeStep DEF IInv
<1>1. ASSUME NEW j \in Jobs, Request(j) PROVE IInv' /\ RowStep
  BY <1>0, <1>1, RequestStep, SameHolds, CalmStep DEF IInv
<1>2. ASSUME NEW s \in Servers, Tick(s) \/ Crash(s) PROVE IInv' /\ RowStep
  BY <1>0, <1>2, OtherSteps, CalmStep
<1>3. ASSUME NEW s \in Servers, Pick(s) PROVE IInv' /\ RowStep
  BY <1>0, <1>3, PickStep
<1>4. ASSUME NEW s \in Servers, Claim(s) PROVE IInv' /\ RowStep
  BY <1>0, <1>4, ClaimStep
<1>5. ASSUME NEW s \in Servers, Pipeline(s) PROVE IInv' /\ RowStep
  BY <1>0, <1>5, PipelineKeeps, CalmStep DEF IInv
<1>6. CASE UNCHANGED vars
  BY <1>0, <1>6, SameHolds, CalmStep DEF vars, RowStep, CancelStep
<1> QED BY <1>1, <1>2, <1>3, <1>4, <1>5, <1>6 DEF Next, Scheduler

\* The inductive invariant holds of every behaviour.
THEOREM Invariance == Spec => []IInv
BY IInvInit, IInvStep, PTL DEF Spec

-----------------------------------------------------------------------------
(* Safety *)

\* The variables always have their types.
THEOREM TypeCorrect == Spec => []TypeOK
BY Invariance, PTL DEF IInv

\* Whatever the number of instances, no two of them run the same OcrJob.
THEOREM OneRunner == Spec => []ExclusiveRun
BY Invariance, PTL DEF IInv

\* An instance only begins to hold a job that waits.
LEMMA NewHolds ==
  ASSUME IInv, [Next]_vars
  PROVE  \A t \in Servers : \A k \in Jobs : Holds(t, k)' /\ ~Holds(t, k) => status[k] = "PENDING"
<1>0. TypeOK'
  BY TypeStep DEF IInv
<1>1. NoNewHold => \A t \in Servers : \A k \in Jobs :
        Holds(t, k)' /\ ~Holds(t, k) => status[k] = "PENDING"
  BY DEF NoNewHold
<1>2. ASSUME NEW j \in Jobs, Request(j) PROVE NoNewHold
  BY <1>2, RequestStep, SameHolds DEF IInv
<1>3. ASSUME NEW s \in Servers, Tick(s) \/ Crash(s) \/ Pick(s) \/ Pipeline(s)
      PROVE  NoNewHold
  BY <1>0, <1>3, OtherSteps, PickStep, PipelineKeeps DEF IInv
<1>4. ASSUME NEW s \in Servers, Claim(s)
      PROVE  \A t \in Servers : \A k \in Jobs :
               Holds(t, k)' /\ ~Holds(t, k) => status[k] = "PENDING"
  BY <1>0, <1>4, ClaimStep
<1>5. CASE UNCHANGED vars
  BY <1>1, <1>5, SameHolds DEF vars
<1> QED BY <1>1, <1>2, <1>3, <1>4, <1>5 DEF Next, Scheduler

\* A job that left PENDING never waits again, and an instance only ever begins
\* a job that waited: no OcrJob is run twice.
THEOREM RunsOnce == Spec => RunOnce
<1> DEFINE A == \A j \in Jobs :
                  /\ status[j] \notin {"none", "PENDING"} => status'[j] # "PENDING"
                  /\ \A s \in Servers : Holds(s, j)' /\ ~Holds(s, j) => status[j] = "PENDING"
<1>1. IInv /\ [Next]_vars => [A]_vars
  <2> SUFFICES ASSUME IInv, Next PROVE A
    OBVIOUS
  <2>1. \A j \in Jobs : status[j] \notin {"none", "PENDING"} => status'[j] # "PENDING"
    BY IInvStep DEF RowStep
  <2> QED BY <2>1, NewHolds
<1> QED BY <1>1, Invariance, PTL DEF Spec, RunOnce

\* A PENDING job becomes PROCESSING only by its claim, after every older one.
THEOREM OldestFirst == Spec => ClaimInOrder
<1> DEFINE A == \A j \in Jobs :
                  status[j] = "PENDING" /\ status'[j] = "PROCESSING"
                    => \A i \in Jobs : i < j => status[i] # "PENDING"
<1>1. IInv /\ [Next]_vars => [A]_vars
  <2> SUFFICES ASSUME IInv, Next,
                      NEW j \in Jobs, status[j] = "PENDING", status'[j] = "PROCESSING"
               PROVE  \A i \in Jobs : i < j => status[i] # "PENDING"
    OBVIOUS
  <2>0. RunsOK /\ TypeOK
    BY TypeParts DEF IInv
  <2>1. ASSUME NEW k \in Jobs, Request(k) PROVE FALSE
    BY <2>1, RequestStep DEF IInv
  <2>2. ASSUME NEW s \in Servers, Tick(s) \/ Pick(s) \/ Crash(s) PROVE FALSE
    BY <2>2 DEF Tick, Pick, Crash, rowVars
  <2>3. ASSUME NEW s \in Servers, Pipeline(s) PROVE FALSE
    <3>1. status'[j] # status[j]
      OBVIOUS
    <3>2. j = cur[s] /\ Holds(s, j)
      BY <2>0, <2>3, <3>1, PipelineStep DEF Holds
    <3> QED BY <3>2 DEF IInv, HeldNotWaiting
  <2>4. ASSUME NEW s \in Servers, Claim(s) PROVE j = cur[s] /\ pc[s] = "claim"
    BY <2>0, <2>4 DEF Claim, SetStatus, TypeOK
  <2> QED BY <2>1, <2>2, <2>3, <2>4 DEF Next, Scheduler, IInv, PickedOldest
<1> QED BY <1>1, Invariance, PTL DEF Spec, ClaimInOrder

\* The blind status writes of a pipeline cannot revive a cancelled job that no
\* instance holds.
THEOREM CancelIsFinal == Spec => CancelledStays
<1> DEFINE A == \A j \in Jobs \ Held :
                  status[j] = "CANCELLED" => status'[j] \in {"CANCELLED", "deleted"}
<1>1. IInv /\ [Next]_vars => [A]_vars
  BY IInvStep DEF RowStep
<1> QED BY <1>1, Invariance, PTL DEF Spec, CancelledStays

-----------------------------------------------------------------------------
(* Leaked slots *)

\* The row of a finished pipeline is at rest while its hook runs.
Finished ==
  \A s \in Servers : pc[s] \in {"approve", "report"} => status[cur[s]] # "PROCESSING"

\* A pipeline lets go of its job only when the row is at rest.
LEMMA PipelineEnds ==
  ASSUME TypeOK, Finished, NEW s \in Servers, Pipeline(s)
  PROVE  /\ Return(s) => status'[cur[s]] # "PROCESSING"
         /\ pc'[s] \in {"approve", "report"} => status'[cur[s]] # "PROCESSING"
<1>1. pc \in [Servers -> Scheduling \cup Running] /\ status \in [Jobs -> Statuses] /\ cur[s] \in Jobs
  BY PipelineStep DEF TypeOK
<1>2. Throw(s) => ~Return(s) /\ pc'[s] = "fail"
  BY <1>1 DEF Throw, Return, GoTo
<1>3. \A l \in Running : GoTo(s, l) => ~Return(s) /\ pc'[s] = l
  BY <1>1 DEF Return, GoTo, Running
<1>4. CASE Setup(s) \/ CheckCancelled(s)
  BY <1>2, <1>3, <1>4 DEF Setup, CheckCancelled, Running, Terminal, rowVars
<1>5. CASE Hash(s) \/ Dedup(s) \/ Start(s) \/ Work(s)
  BY <1>2, <1>3, <1>5 DEF Hash, Dedup, Start, Work, Running
<1>6. CASE Save(s)
  BY <1>1, <1>2, <1>3, <1>6 DEF Save, SetStatus, Running
<1>7. CASE Fail(s)
  BY <1>1, <1>7 DEF Fail, SetStatus
<1>8. CASE Approve(s) \/ Report(s)
  BY <1>8 DEF Approve, Report, rowVars, Finished
<1> QED BY <1>4, <1>5, <1>6, <1>7, <1>8 DEF Pipeline

\* Finished is kept: no other party writes PROCESSING to a row that is held.
LEMMA FinishedStep == IInv /\ IInv' /\ Finished /\ [Next]_vars => Finished'
<1> SUFFICES ASSUME IInv, Finished, [Next]_vars,
                    NEW s \in Servers, pc'[s] \in {"approve", "report"}
             PROVE  status'[cur'[s]] # "PROCESSING"
  BY DEF Finished
<1> RunsOK /\ TypeOK BY TypeParts DEF IInv
<1> pc \in [Servers -> Scheduling \cup Running] /\ cur \in [Servers -> Jobs \cup {None}]
  BY DEF TypeOK
<1>1. ASSUME NEW j \in Jobs, Request(j) PROVE status'[cur'[s]] # "PROCESSING"
  <2>1. UNCHANGED <<pc, cur>>
    BY <1>1, RequestStep DEF IInv
  <2>2. cur[s] \in Jobs
    BY <2>1, HasJob
  <2> QED BY <1>1, <2>1, <2>2, RequestStep DEF IInv, Finished
<1>2. ASSUME NEW t \in Servers, Tick(t) \/ Pick(t) \/ Crash(t)
      PROVE  status'[cur'[s]] # "PROCESSING"
  <2>1. status' = status
    BY <1>2 DEF Tick, Pick, Crash, rowVars
  <2>2. s # t /\ pc'[s] = pc[s] /\ cur'[s] = cur[s]
    BY <1>2 DEF Tick, Pick, Crash, Return, GoTo
  <2> QED BY <2>1, <2>2 DEF Finished
<1>3. ASSUME NEW t \in Servers, Claim(t) PROVE status'[cur'[s]] # "PROCESSING"
  <2>1. s # t /\ pc'[s] = pc[s] /\ cur'[s] = cur[s]
    BY <1>3 DEF Claim, Return, GoTo
  <2>2. cur[s] \in Jobs /\ Holds(s, cur[s])
    BY <2>1, HasJob DEF Holds, Running
  <2>3. status'[cur[s]] = status[cur[s]]
    BY <1>3, <2>2 DEF Claim, SetStatus, IInv, HeldNotWaiting, TypeOK
  <2> QED BY <2>1, <2>3 DEF Finished
<1>4. ASSUME NEW t \in Servers, Pipeline(t) PROVE status'[cur'[s]] # "PROCESSING"
  <2>1. CASE s = t
    BY <1>4, <2>1, PipelineStep, PipelineEnds, ReturnDrops
  <2>2. CASE s # t
    <3>1. pc'[s] = pc[s] /\ cur'[s] = cur[s]
      BY <1>4, <2>2, PipelineStep, ReturnDrops, MoveKeeps
    <3>2. cur[s] \in Jobs /\ Holds(s, cur[s]) /\ Holds(t, cur[t]) /\ cur[t] \in Jobs
      BY <1>4, <3>1, HasJob, PipelineStep DEF Holds, Running
    <3>3. cur[s] # cur[t]
      BY <2>2, <3>2 DEF IInv, ExclusiveRun
    <3> QED BY <1>4, <3>1, <3>2, <3>3, PipelineStep DEF Finished
  <2> QED BY <2>1, <2>2
<1>5. CASE UNCHANGED vars
  BY <1>5 DEF vars, Finished
<1> QED BY <1>1, <1>2, <1>3, <1>4, <1>5 DEF Next, Scheduler

\* Without a crash no row becomes an orphan.
LEMMA NoNewOrphans ==
  ASSUME IInv, IInv', Finished, Next, \A s \in Servers : ~Crash(s)
  PROVE  Orphans' \subseteq Orphans /\ crashes' = crashes
<1> RunsOK /\ TypeOK BY TypeParts DEF IInv
<1>1. RowStep
  BY IInvStep
<1>2. crashes' = crashes
  BY DEF Next, Scheduler, Pipeline, Request, Create, CancelRead, CancelWrite, Delete,
         StoreResult, Tick, Pick, Claim, Setup, Hash, Dedup, Start, CheckCancelled, Work,
         Save, Approve, Fail, Report
<1> SUFFICES ASSUME NEW j \in Jobs, status'[j] = "PROCESSING", j \notin Held'
             PROVE  status[j] = "PROCESSING" /\ j \notin Held
  BY <1>2 DEF Orphans, Processing
<1>3. j \notin Held => status[j] = "PROCESSING"
  BY <1>1 DEF RowStep
<1>4. ASSUME NEW s \in Servers, Holds(s, j) PROVE FALSE
  <2>0. ~Holds(s, j)' /\ pc[s] \in Running /\ cur[s] = j
    BY <1>4 DEF Held, Holds
  <2>1. ASSUME NEW k \in Jobs, Request(k) PROVE FALSE
    BY <1>4, <2>0, <2>1, RequestStep DEF IInv, Holds
  <2>2. ASSUME NEW t \in Servers, Scheduler(t) PROVE FALSE
    <3>1. t # s
      BY <2>0, <2>2 DEF Scheduler, Tick, Pick, Claim, Running
    <3>2. pc'[s] = pc[s] /\ cur'[s] = cur[s]
      BY <2>2, <3>1 DEF Scheduler, Tick, Pick, Claim, Return, GoTo, RunsOK
    <3> QED BY <2>0, <3>2 DEF Holds
  <2>3. ASSUME NEW t \in Servers, Pipeline(t) PROVE FALSE
    <3>1. CASE t = s
      BY <2>0, <2>3, <3>1, PipelineStep, PipelineEnds, MoveKeeps DEF Holds
    <3>2. CASE t # s
      BY <2>0, <2>3, <3>2, PipelineStep, ReturnDrops, MoveKeeps DEF Holds
    <3> QED BY <3>1, <3>2
  <2> QED BY <2>1, <2>2, <2>3 DEF Next
<1> QED BY <1>3, <1>4 DEF Held

\* A crash makes at most one.
LEMMA CrashOrphans ==
  ASSUME TypeOK, NEW s \in Servers, Crash(s)
  PROVE  Orphans' \subseteq Orphans \cup {cur[s]} /\ crashes' = crashes + 1
<1>1. status' = status /\ crashes' = crashes + 1
  BY DEF Crash, rowVars
<1>2. \A t \in Servers \ {s} : pc'[t] = pc[t] /\ cur'[t] = cur[t]
  BY ReturnDrops, TypeParts DEF Crash
<1> QED BY <1>1, <1>2 DEF Orphans, Processing, Held, Holds

\* A slot of the limit is lost only to a crash, one for each.
THEOREM LeaksNeedCrashes == Spec => []OrphansNeedCrashes
<1> DEFINE OInv == IInv /\ Finished /\ OrphansNeedCrashes
<1>1. Init => OInv
  <2> SUFFICES ASSUME Init PROVE Finished /\ OrphansNeedCrashes
    BY IInvInit
  <2>1. Finished
    BY DEF Init, Finished
  <2>2. Orphans = {} /\ crashes = 0
    BY DEF Init, Orphans, Processing
  <2> QED BY <2>1, <2>2, FS_EmptySet DEF OrphansNeedCrashes
<1>2. OInv /\ [Next]_vars => OInv'
  <2> SUFFICES ASSUME OInv, [Next]_vars PROVE OInv'
    OBVIOUS
  <2>1. IInv' /\ Finished'
    BY IInvStep, FinishedStep
  <2>2. IsFiniteSet(Orphans) /\ Cardinality(Orphans) \in Nat
    BY JobsNumbered, FS_Subset, FS_CardinalityType DEF Orphans, Processing
  <2>3. crashes \in Nat
    BY MaxCrashesNat DEF IInv, TypeOK
  <2>4. CASE UNCHANGED vars
    <3>1. Orphans' = Orphans /\ crashes' = crashes
      BY <2>4 DEF vars, Orphans, Processing, Held, Holds
    <3> QED BY <2>1, <3>1 DEF OrphansNeedCrashes
  <2>5. CASE Next /\ \A s \in Servers : ~Crash(s)
    <3>1. Orphans' \subseteq Orphans /\ crashes' = crashes
      BY <2>1, <2>5, NoNewOrphans
    <3>2. Cardinality(Orphans') <= Cardinality(Orphans) /\ Cardinality(Orphans') \in Nat
      BY <2>2, <3>1, FS_Subset, FS_CardinalityType
    <3>3. Cardinality(Orphans) <= crashes
      BY DEF OrphansNeedCrashes
    <3>4. Cardinality(Orphans') <= crashes'
      BY <2>2, <2>3, <3>1, <3>2, <3>3
    <3> QED BY <2>1, <3>4 DEF OrphansNeedCrashes
  <2>6. ASSUME NEW s \in Servers, Crash(s) PROVE OrphansNeedCrashes'
    <3>1. Orphans' \subseteq Orphans \cup {cur[s]} /\ crashes' = crashes + 1
      BY <2>6, CrashOrphans DEF IInv
    <3>2. /\ IsFiniteSet(Orphans \cup {cur[s]})
          /\ Cardinality(Orphans \cup {cur[s]}) \in Nat
          /\ Cardinality(Orphans \cup {cur[s]}) <= Cardinality(Orphans) + 1
      BY <2>2, FS_AddElement, FS_CardinalityType
    <3>3. Cardinality(Orphans') <= Cardinality(Orphans \cup {cur[s]}) /\ Cardinality(Orphans') \in Nat
      BY <3>1, <3>2, FS_Subset, FS_CardinalityType
    <3> QED BY <2>2, <2>3, <3>1, <3>2, <3>3 DEF OrphansNeedCrashes
  <2> QED BY <2>1, <2>4, <2>5, <2>6
<1> QED BY <1>1, <1>2, PTL DEF Spec

-----------------------------------------------------------------------------
(***************************************************************************)
(* The limit.  An instance that passed the check of the limit is admitted  *)
(* until it claims or finds nothing; a job is engaged when it counts       *)
(* against the limit or an instance works on it.  Engaged jobs and         *)
(* admitted instances together obey the bound: a tick is allowed with      *)
(* Limit - 1 rows PROCESSING, and a job that is held without counting and  *)
(* an admitted instance take one server each.                              *)
(***************************************************************************)
Engaged == Processing \cup Held

Admitted == {s \in Servers : pc[s] \in {"pick", "claim"}}

Busy == {s \in Servers : pc[s] \in Running}

SlotBound ==
  Cardinality(Engaged) + Cardinality(Admitted) <= Limit + Cardinality(Servers) - 1

LEMMA SetsFinite ==
  /\ IsFiniteSet(Engaged) /\ IsFiniteSet(Admitted) /\ IsFiniteSet(Busy)
  /\ IsFiniteSet(Processing) /\ IsFiniteSet(Held)
  /\ Cardinality(Engaged) \in Nat /\ Cardinality(Admitted) \in Nat
  /\ Cardinality(Busy) \in Nat /\ Cardinality(Servers) \in Nat
  /\ Cardinality(Processing) \in Nat /\ Cardinality(Held) \in Nat
<1>1. Engaged \subseteq Jobs /\ Processing \subseteq Jobs /\ Held \subseteq Jobs
  BY DEF Engaged, Processing, Held
<1>2. Admitted \subseteq Servers /\ Busy \subseteq Servers
  BY DEF Admitted, Busy
<1> QED BY <1>1, <1>2, ServersFinite, JobsNumbered, FS_Subset, FS_CardinalityType

\* There are no more held jobs than busy instances.
LEMMA HeldByBusy == RunsOK => Cardinality(Held) <= Cardinality(Busy)
<1> SUFFICES ASSUME RunsOK PROVE Cardinality(Held) <= Cardinality(Busy)
  OBVIOUS
<1> DEFINE f == [s \in Busy |-> cur[s]]
<1>1. \A s \in Busy : cur[s] \in Held
  BY HasJob DEF Busy, Held, Holds, Running
<1>2. \A j \in Held : \E s \in Busy : f[s] = j
  BY DEF Held, Holds, Busy
<1>3. f \in Surjection(Busy, Held)
  BY <1>1, <1>2 DEF Surjection
<1> QED BY <1>3, SetsFinite, FS_Surjection

\* Fewer engaged jobs and admitted instances keep the bound.
LEMMA SlotsShrink ==
  ASSUME SlotBound, Engaged' \subseteq Engaged, Admitted' \subseteq Admitted
  PROVE  SlotBound'
<1>1. /\ Cardinality(Engaged') <= Cardinality(Engaged) /\ Cardinality(Engaged') \in Nat
      /\ Cardinality(Admitted') <= Cardinality(Admitted) /\ Cardinality(Admitted') \in Nat
  BY SetsFinite, FS_Subset, FS_CardinalityType
<1>2. Cardinality(Engaged) + Cardinality(Admitted) <= Limit + Cardinality(Servers) - 1
  BY DEF SlotBound
<1>3. Cardinality(Engaged') + Cardinality(Admitted') <= Limit + Cardinality(Servers) - 1
  BY <1>1, <1>2, SetsFinite, BoundsPositive
<1> QED BY <1>3 DEF SlotBound

\* An instance is admitted while it is not busy and Limit - 1 rows count.
LEMMA TickSlots ==
  ASSUME TypeOK, NEW s \in Servers, Tick(s)
  PROVE  SlotBound'
<1> RunsOK BY TypeParts
<1>1. /\ pc[s] = "idle" /\ UNCHANGED <<status, cur>>
      /\ pc'[s] = "pick" /\ \A t \in Servers \ {s} : pc'[t] = pc[t]
  BY DEF Tick, GoTo, RunsOK, rowVars
<1>2. Engaged' = Engaged
  BY <1>1 DEF Engaged, Processing, Held, Holds, Running
<1>3. Cardinality(Processing) <= Limit - 1
  BY SetsFinite, BoundsPositive DEF Tick
<1>4. Cardinality(Engaged) <= Cardinality(Processing) + Cardinality(Busy)
  <2>1. IsFiniteSet(Processing \cap Held) /\ Cardinality(Processing \cap Held) \in Nat
    BY SetsFinite, FS_Intersection, FS_CardinalityType
  <2>2. Cardinality(Engaged) =
          Cardinality(Processing) + Cardinality(Held) - Cardinality(Processing \cap Held)
    BY SetsFinite, FS_Union DEF Engaged
  <2> QED BY <2>1, <2>2, SetsFinite, HeldByBusy
<1>5. Cardinality(Busy) + Cardinality(Admitted') <= Cardinality(Servers)
  <2>1. Busy \cap Admitted' = {} /\ Busy \cup Admitted' \subseteq Servers
    BY <1>1 DEF Busy, Admitted, Running
  <2>2. IsFiniteSet(Admitted') /\ Cardinality(Admitted') \in Nat
    BY ServersFinite, FS_Subset, FS_CardinalityType DEF Admitted
  <2>3. Cardinality(Busy \cup Admitted') = Cardinality(Busy) + Cardinality(Admitted')
    <3>1. Cardinality(Busy \cap Admitted') = 0
      BY <2>1, FS_EmptySet
    <3>2. IsFiniteSet(Busy) /\ Cardinality(Busy) \in Nat
      BY SetsFinite
    <3>3. Cardinality(Busy \cup Admitted') =
            Cardinality(Busy) + Cardinality(Admitted') - Cardinality(Busy \cap Admitted')
      BY <2>2, <3>2, FS_Union
    <3> QED BY <2>2, <3>1, <3>2, <3>3
  <2> QED BY <2>1, <2>3, ServersFinite, FS_Subset
<1>6. Cardinality(Admitted') \in Nat
  BY ServersFinite, FS_Subset, FS_CardinalityType DEF Admitted
<1>7. Cardinality(Engaged') + Cardinality(Admitted') <= Limit + Cardinality(Servers) - 1
  BY <1>2, <1>3, <1>4, <1>5, <1>6, SetsFinite, BoundsPositive
<1> QED BY <1>7 DEF SlotBound

\* A claim trades an admitted instance for an engaged job.
LEMMA ClaimSlots ==
  ASSUME TypeOK, SlotBound, NEW s \in Servers, Claim(s)
  PROVE  SlotBound'
<1> RunsOK BY TypeParts
<1>0. pc[s] = "claim" /\ cur[s] \in Jobs
  BY HasJob DEF Claim
<1>1. CASE Return(s) /\ UNCHANGED status
  <2>1. /\ pc'[s] = "idle" /\ NoNewHold
        /\ \A t \in Servers \ {s} : pc'[t] = pc[t]
    BY <1>1, ReturnDrops
  <2>2. Engaged' \subseteq Engaged /\ Admitted' \subseteq Admitted
    BY <1>1, <2>1 DEF Engaged, Processing, Held, NoNewHold, Admitted
  <2> QED BY <2>2, SlotsShrink
<1>2. CASE SetStatus(cur[s], "PROCESSING") /\ GoTo(s, "setup") /\ UNCHANGED cur
  <2>1. /\ pc'[s] = "setup" /\ \A t \in Servers \ {s} : pc'[t] = pc[t]
        /\ \A j \in Jobs \ {cur[s]} : status'[j] = status[j]
    BY <1>2 DEF GoTo, SetStatus, RunsOK, TypeOK
  <2>2. Engaged' \subseteq Engaged \cup {cur[s]}
    BY <1>2, <2>1 DEF Engaged, Processing, Held, Holds
  <2>3. Admitted' = Admitted \ {s} /\ s \in Admitted
    BY <1>0, <2>1 DEF Admitted
  <2>4. /\ Cardinality(Engaged \cup {cur[s]}) <= Cardinality(Engaged) + 1
        /\ Cardinality(Engaged \cup {cur[s]}) \in Nat /\ IsFiniteSet(Engaged \cup {cur[s]})
    <3>1. IsFiniteSet(Engaged) /\ Cardinality(Engaged) \in Nat
      BY SetsFinite
    <3>2. /\ IsFiniteSet(Engaged \cup {cur[s]})
          /\ Cardinality(Engaged \cup {cur[s]}) =
               IF cur[s] \in Engaged THEN Cardinality(Engaged) ELSE Cardinality(Engaged) + 1
      BY <3>1, FS_AddElement
    <3> QED BY <3>1, <3>2
  <2>5. Cardinality(Engaged') <= Cardinality(Engaged) + 1 /\ Cardinality(Engaged') \in Nat
    BY <2>2, <2>4, SetsFinite, FS_Subset, FS_CardinalityType
  <2>6. Cardinality(Admitted') = Cardinality(Admitted) - 1
    BY <2>3, SetsFinite, FS_RemoveElement
  <2>7. Cardinality(Engaged) + Cardinality(Admitted) <= Limit + Cardinality(Servers) - 1
    BY DEF SlotBound
  <2>8. Cardinality(Engaged') + Cardinality(Admitted') <= Limit + Cardinality(Servers) - 1
    BY <2>5, <2>6, <2>7, SetsFinite, BoundsPositive
  <2> QED BY <2>8 DEF SlotBound
<1> QED BY <1>1, <1>2 DEF Claim

\* No other step engages a job or admits an instance.
LEMMA SlotStep == IInv /\ SlotBound /\ [Next]_vars => SlotBound'
<1> SUFFICES ASSUME IInv, SlotBound, [Next]_vars PROVE SlotBound'
  OBVIOUS
<1> RunsOK /\ TypeOK BY TypeParts DEF IInv
<1>1. ASSUME NEW j \in Jobs, Request(j) PROVE SlotBound'
  <2>1. Engaged' \subseteq Engaged
    BY <1>1, RequestStep DEF IInv, Engaged, Processing, Held, Holds
  <2>2. Admitted' = Admitted
    BY <1>1, RequestStep DEF IInv, Admitted
  <2> QED BY <2>1, <2>2, SlotsShrink
<1>2. ASSUME NEW s \in Servers, Pick(s) \/ Crash(s) PROVE SlotBound'
  <2>0. TypeOK'
    BY TypeStep
  <2>1. status' = status /\ NoNewHold
    BY <1>2, <2>0, PickStep, OtherSteps DEF Pick, Crash, rowVars
  <2>2. Admitted' \subseteq Admitted
    <3>1. \A t \in Servers \ {s} : pc'[t] = pc[t]
      BY <1>2 DEF Pick, Crash, Return, GoTo, RunsOK
    <3>2. pc'[s] = "idle" \/ pc[s] = "pick"
      BY <1>2, ReturnDrops DEF Pick, Crash
    <3> QED BY <3>1, <3>2 DEF Admitted
  <2>3. Engaged' \subseteq Engaged
    BY <2>1 DEF Engaged, Processing, Held, NoNewHold
  <2> QED BY <2>2, <2>3, SlotsShrink
<1>3. ASSUME NEW s \in Servers, Pipeline(s) PROVE SlotBound'
  <2>1. cur[s] \in Held
    BY <1>3, PipelineStep DEF Held, Holds
  <2>2. Engaged' \subseteq Engaged
    BY <1>3, <2>1, PipelineStep, PipelineKeeps DEF Engaged, Processing, Held, NoNewHold
  <2>3. Admitted' \subseteq Admitted
    BY <1>3, PipelineStep, ReturnDrops, MoveKeeps DEF Admitted, Running
  <2> QED BY <2>2, <2>3, SlotsShrink
<1>4. CASE UNCHANGED vars
  BY <1>4, SlotsShrink DEF vars, Engaged, Processing, Held, Holds, Admitted
<1> QED BY <1>1, <1>2, <1>3, <1>4, TickSlots, ClaimSlots DEF Next, Scheduler

\* However ticks, claims, cancels and crashes interleave, each instance beyond
\* the first exceeds MAX_CONCURRENT_OCR_JOBS by at most one job.
THEOREM OvershootBounded == Spec => []BoundedOvershoot
<1>1. Init => SlotBound
  <2> SUFFICES ASSUME Init PROVE SlotBound
    OBVIOUS
  <2>1. Engaged = {} /\ Admitted = {}
    BY DEF Init, Engaged, Processing, Held, Holds, Admitted, Running
  <2>2. Cardinality(Engaged) = 0 /\ Cardinality(Admitted) = 0
    BY <2>1, FS_EmptySet
  <2> QED BY <2>2, SetsFinite, BoundsPositive DEF SlotBound
<1>2. IInv /\ SlotBound => BoundedOvershoot
  <2>1. Cardinality(Processing) <= Cardinality(Engaged)
    BY SetsFinite, FS_Subset DEF Engaged
  <2> QED BY <2>1, SetsFinite, BoundsPositive DEF SlotBound, BoundedOvershoot
<1> QED BY <1>1, <1>2, SlotStep, Invariance, PTL DEF Spec

-----------------------------------------------------------------------------
(* The table implements the work queue *)

PhaseOf == [j \in Jobs |-> QueuePhase(j)]
HolderOf == [j \in Jobs |-> {s \in Servers : Holds(s, j)}]

\* The phase of a job, read off its row and its holder.
LEMMA Phases ==
  ASSUME NEW j \in Jobs
  PROVE  /\ status[j] = "none" => PhaseOf[j] = "unborn"
         /\ status[j] = "PENDING" => PhaseOf[j] = "waiting"
         /\ status[j] \notin {"none", "PENDING"} /\ j \in Held => PhaseOf[j] = "taken"
         /\ status[j] \notin {"none", "PENDING"} /\ j \notin Held => PhaseOf[j] = "over"
BY DEF PhaseOf, QueuePhase

\* Row k and its holders look the same to the queue.
Same(k) ==
  /\ \A s \in Servers : Holds(s, k)' <=> Holds(s, k)
  /\ \/ status'[k] = status[k]
     \/ status[k] \notin {"none", "PENDING"} /\ status'[k] \notin {"none", "PENDING"}

LEMMA SameView ==
  ASSUME NEW k \in Jobs, Same(k)
  PROVE  PhaseOf'[k] = PhaseOf[k] /\ HolderOf'[k] = HolderOf[k]
<1>1. k \in Held' <=> k \in Held
  BY DEF Same, Held
<1>2. PhaseOf'[k] = PhaseOf[k]
  BY <1>1 DEF Same, PhaseOf, QueuePhase
<1>3. HolderOf'[k] = HolderOf[k]
  BY DEF Same, HolderOf
<1> QED BY <1>2, <1>3

\* The queue does not move when no row does.
LEMMA Stutter ==
  ASSUME \A k \in Jobs : Same(k)
  PROVE  UNCHANGED <<PhaseOf, HolderOf>>
<1>1. \A k \in Jobs : PhaseOf'[k] = PhaseOf[k] /\ HolderOf'[k] = HolderOf[k]
  BY SameView
<1>2. PhaseOf' = PhaseOf
  BY <1>1 DEF PhaseOf
<1>3. HolderOf' = HolderOf
  BY <1>1 DEF HolderOf
<1> QED BY <1>2, <1>3

\* A step that only moves row j.
LEMMA OneMoves ==
  ASSUME NEW j \in Jobs, \A k \in Jobs \ {j} : Same(k)
  PROVE  /\ PhaseOf' = [PhaseOf EXCEPT ![j] = PhaseOf'[j]]
         /\ HolderOf' = [HolderOf EXCEPT ![j] = HolderOf'[j]]
<1>1. \A k \in Jobs \ {j} : PhaseOf'[k] = PhaseOf[k] /\ HolderOf'[k] = HolderOf[k]
  BY SameView
<1>2. PhaseOf' = [PhaseOf EXCEPT ![j] = PhaseOf'[j]]
  BY <1>1 DEF PhaseOf
<1>3. HolderOf' = [HolderOf EXCEPT ![j] = HolderOf'[j]]
  BY <1>1 DEF HolderOf
<1> QED BY <1>2, <1>3

\* An instance that lets go of its job drops it.
LEMMA DropStep ==
  ASSUME IInv, NEW s \in Servers, NEW j \in Jobs, Holds(s, j),
         pc'[s] = "idle", \A t \in Servers \ {s} : pc'[t] = pc[t] /\ cur'[t] = cur[t],
         status'[j] \notin {"none", "PENDING"},
         \A k \in Jobs \ {j} : status'[k] = status[k]
  PROVE  Queue!Drop(s, j)
<1>1. \A k \in Jobs \ {j} : Same(k)
  BY DEF Same, Holds, Running
<1>2. \A t \in Servers : Holds(t, j) => t = s
  BY DEF IInv, ExclusiveRun
<1>3. status[j] \notin {"none", "PENDING"} /\ j \in Held
  BY DEF IInv, HeldNotWaiting, Held
<1>4. \A t \in Servers : ~Holds(t, j)'
  BY <1>2 DEF Holds, Running
<1>5. PhaseOf[j] = "taken" /\ HolderOf[j] = {s}
  BY <1>2, <1>3, Phases DEF HolderOf
<1>6. PhaseOf'[j] = "over"
  BY <1>4 DEF PhaseOf, QueuePhase, Held
<1>7. HolderOf'[j] = {}
  BY <1>4 DEF HolderOf
<1>8. /\ PhaseOf' = [PhaseOf EXCEPT ![j] = "over"]
      /\ HolderOf' = [HolderOf EXCEPT ![j] = {}]
  BY <1>1, <1>6, <1>7, OneMoves
<1> QED BY <1>5, <1>8 DEF Queue!Drop, PhaseOf, HolderOf

\* Inserting a row submits the job; ending a waiting row withdraws it; the
\* other requests are nothing to the queue.
LEMMA RequestRefines ==
  ASSUME IInv, NEW j \in Jobs, Request(j)
  PROVE  Queue!Submit(j) \/ Queue!Withdraw(j) \/ UNCHANGED <<PhaseOf, HolderOf>>
<1>0. /\ UNCHANGED <<pc, cur>> /\ RowStep
      /\ \A k \in Jobs \ {j} : status'[k] = status[k]
  BY RequestStep DEF IInv, Request, Create, CancelRead, CancelWrite, Delete, StoreResult,
                     SetStatus, TypeOK, rowVars
<1>1. \A s \in Servers : \A k \in Jobs : Holds(s, k)' <=> Holds(s, k)
  BY <1>0 DEF Holds
<1>2. \A k \in Jobs \ {j} : Same(k)
  BY <1>0, <1>1 DEF Same
<1>3. Held' = Held /\ HolderOf' = HolderOf
  BY <1>1 DEF Held, HolderOf
<1>4. PhaseOf' = [PhaseOf EXCEPT ![j] = PhaseOf'[j]]
  BY <1>2, OneMoves
<1>5. status[j] \in {"none", "PENDING"} => j \notin Held
  BY DEF IInv, HeldNotWaiting, Held
<1>6. CASE status'[j] = status[j]
  BY <1>1, <1>2, <1>6, Stutter DEF Same
<1>7. CASE status[j] = "none" /\ status'[j] = "PENDING" /\ \A i \in Jobs : i < j => status[i] # "none"
  <2>1. PhaseOf[j] = "unborn" /\ \A i \in Jobs : i < j => PhaseOf[i] # "unborn"
    BY <1>7, Phases DEF PhaseOf, QueuePhase
  <2>2. PhaseOf'[j] = "waiting"
    BY <1>7 DEF PhaseOf, QueuePhase
  <2> QED BY <1>3, <1>4, <2>1, <2>2 DEF Queue!Submit, PhaseOf, HolderOf
<1>8. CASE status[j] # "none" /\ status'[j] \in {"CANCELLED", "deleted"}
  <2>1. CASE status[j] = "PENDING"
    <3>1. PhaseOf[j] = "waiting"
      BY <2>1, Phases
    <3>2. PhaseOf'[j] = "over"
      BY <1>3, <1>5, <1>8, <2>1 DEF PhaseOf, QueuePhase
    <3> QED BY <1>3, <1>4, <3>1, <3>2 DEF Queue!Withdraw, PhaseOf, HolderOf
  <2>2. CASE status[j] # "PENDING"
    BY <1>1, <1>2, <1>8, <2>2, Stutter DEF Same
  <2> QED BY <2>1, <2>2
<1>9. ~(status[j] = "PENDING" /\ status'[j] = "PROCESSING")
      /\ (status'[j] = "PROCESSING" => status[j] = "PROCESSING")
  BY RequestStep DEF IInv
<1>10. status'[j] \notin {"COMPLETED", "FAILED"} \/ status'[j] = status[j]
  BY DEF Request, Create, CancelRead, CancelWrite, Delete, StoreResult, SetStatus, IInv,
         TypeOK, rowVars
<1> QED BY <1>0, <1>6, <1>7, <1>8, <1>9, <1>10 DEF RowStep

\* A successful claim takes the oldest waiting job.
LEMMA ClaimRefines ==
  ASSUME IInv, NEW s \in Servers, NEW j \in Jobs, cur[s] = j, Claim(s)
  PROVE  Queue!Take(s, j) \/ UNCHANGED <<PhaseOf, HolderOf>>
<1> RunsOK /\ TypeOK BY TypeParts DEF IInv
<1>0. pc[s] = "claim"
  BY DEF Claim
<1>1. CASE Return(s) /\ UNCHANGED status
  <2>1. pc'[s] = "idle" /\ \A t \in Servers \ {s} : pc'[t] = pc[t] /\ cur'[t] = cur[t]
    BY <1>1, ReturnDrops
  <2>2. \A k \in Jobs : Same(k)
    BY <1>0, <1>1, <2>1 DEF Same, Holds, Running
  <2> QED BY <2>2, Stutter
<1>2. CASE /\ status[j] = "PENDING" /\ SetStatus(j, "PROCESSING")
           /\ GoTo(s, "setup") /\ UNCHANGED cur
  <2>1. /\ pc'[s] = "setup" /\ \A t \in Servers \ {s} : pc'[t] = pc[t]
        /\ status'[j] = "PROCESSING" /\ \A k \in Jobs \ {j} : status'[k] = status[k]
        /\ cur' = cur
    BY <1>0, <1>2 DEF GoTo, SetStatus, RunsOK, TypeOK
  <2>2. \A k \in Jobs \ {j} : Same(k)
    BY <1>0, <2>1 DEF Same, Holds, Running
  <2>3. \A t \in Servers : ~Holds(t, j)
    BY <1>2 DEF IInv, HeldNotWaiting
  <2>4. \A t \in Servers : Holds(t, j)' <=> t = s
    BY <2>1, <2>3 DEF Holds, Running
  <2>5. PhaseOf[j] = "waiting" /\ \A i \in Jobs : i < j => PhaseOf[i] # "waiting"
    BY <1>0, <1>2, Phases DEF IInv, PickedOldest, PhaseOf, QueuePhase
  <2>6. \A i \in Jobs : s \notin HolderOf[i]
    BY <1>0 DEF HolderOf, Holds, Running
  <2>7. PhaseOf'[j] = "taken"
    BY <1>0, <2>1, <2>4 DEF PhaseOf, QueuePhase, Held
  <2>8. HolderOf'[j] = {s}
    BY <1>0, <2>4 DEF HolderOf
  <2>9. /\ PhaseOf' = [PhaseOf EXCEPT ![j] = "taken"]
        /\ HolderOf' = [HolderOf EXCEPT ![j] = {s}]
    BY <1>0, <2>2, <2>7, <2>8, OneMoves
  <2> QED BY <2>5, <2>6, <2>9 DEF Queue!Take, PhaseOf, HolderOf
<1> QED BY <1>1, <1>2 DEF Claim

\* The steps before a claim hold nothing, and a crash drops what was held.
LEMMA OtherRefines ==
  ASSUME IInv, NEW s \in Servers, Tick(s) \/ Pick(s) \/ Crash(s)
  PROVE  Queue!Drop(s, cur[s]) \/ UNCHANGED <<PhaseOf, HolderOf>>
<1> RunsOK /\ TypeOK BY TypeParts DEF IInv
<1>1. /\ status' = status
      /\ \A t \in Servers \ {s} : pc'[t] = pc[t] /\ cur'[t] = cur[t]
      /\ pc'[s] \notin Running
  BY ReturnDrops DEF Tick, Pick, Crash, GoTo, RunsOK, rowVars, Running
<1>2. CASE pc[s] \notin Running
  BY <1>1, <1>2, Stutter DEF Same, Holds
<1>3. CASE pc[s] \in Running
  <2>1. Crash(s) /\ pc'[s] = "idle"
    BY <1>3, ReturnDrops DEF Tick, Pick, Crash, Running
  <2>2. cur[s] \in Jobs /\ Holds(s, cur[s])
    BY <1>3, HasJob DEF Holds, Running
  <2>3. status[cur[s]] \notin {"none", "PENDING"}
    BY <2>2 DEF IInv, HeldNotWaiting
  <2> QED BY <1>1, <2>1, <2>2, <2>3, DropStep
<1> QED BY <1>2, <1>3

\* A pipeline keeps its job or drops it.
LEMMA PipelineRefines ==
  ASSUME IInv, NEW s \in Servers, Pipeline(s)
  PROVE  Queue!Drop(s, cur[s]) \/ UNCHANGED <<PhaseOf, HolderOf>>
<1> RunsOK /\ TypeOK BY TypeParts DEF IInv
<1>1. /\ pc[s] \in Running /\ cur[s] \in Jobs /\ Holds(s, cur[s])
      /\ \A k \in Jobs \ {cur[s]} : status'[k] = status[k]
  BY PipelineStep DEF Holds
<1>2. status[cur[s]] \notin {"none", "PENDING"}
  BY <1>1 DEF IInv, HeldNotWaiting
<1>3. status'[cur[s]] \notin {"none", "PENDING"}
  BY <1>2, PipelineStep
<1>4. CASE Return(s)
  BY <1>1, <1>3, <1>4, ReturnDrops, DropStep
<1>5. ASSUME NEW l \in Running, GoTo(s, l), UNCHANGED cur
      PROVE  UNCHANGED <<PhaseOf, HolderOf>>
  <2>1. pc'[s] = l /\ \A t \in Servers \ {s} : pc'[t] = pc[t]
    BY <1>1, <1>5, MoveKeeps
  <2>2. \A k \in Jobs : Same(k)
    BY <1>1, <1>2, <1>3, <1>5, <2>1 DEF Same, Holds
  <2> QED BY <2>2, Stutter
<1> QED BY <1>4, <1>5, PipelineStep

\* The rows, the pollers, the requests and the crashes together are an
\* at-most-once queue that serves the oldest job first.
THEOREM TableIsQueue == Spec => ImplementsQueue
<1>1. Init => Queue!Init
  <2> SUFFICES ASSUME Init PROVE Queue!Init
    OBVIOUS
  <2>1. \A j \in Jobs : status[j] = "none"
    BY DEF Init
  <2>2. \A j \in Jobs : \A s \in Servers : ~Holds(s, j)
    BY DEF Init, Holds, Running
  <2> QED BY <2>1, <2>2 DEF Queue!Init, QueuePhase
<1>2. IInv /\ [Next]_vars => [Queue!Next]_(Queue!queueVars)
  <2> SUFFICES ASSUME IInv, [Next]_vars
               PROVE  Queue!Next \/ UNCHANGED <<PhaseOf, HolderOf>>
    BY DEF Queue!queueVars, PhaseOf, HolderOf
  <2> RunsOK /\ TypeOK BY TypeParts DEF IInv
  <2>1. ASSUME NEW j \in Jobs, Request(j)
        PROVE  Queue!Next \/ UNCHANGED <<PhaseOf, HolderOf>>
    BY <2>1, RequestRefines DEF Queue!Next
  <2>2. ASSUME NEW s \in Servers, Claim(s)
        PROVE  Queue!Next \/ UNCHANGED <<PhaseOf, HolderOf>>
    BY <2>2, ClaimRefines, HasJob DEF Claim, Queue!Next
  <2>3. ASSUME NEW s \in Servers, Tick(s) \/ Pick(s) \/ Crash(s) \/ Pipeline(s)
        PROVE  Queue!Next \/ UNCHANGED <<PhaseOf, HolderOf>>
    <3>1. CASE cur[s] \in Jobs
      BY <2>3, <3>1, OtherRefines, PipelineRefines DEF Queue!Next
    <3>2. CASE cur[s] \notin Jobs
      <4>1. pc[s] \notin Running
        BY <3>2, HasJob DEF Running
      <4>2. Tick(s) \/ Pick(s) \/ Crash(s)
        BY <2>3, <4>1, PipelineStep
      <4>3. ~Queue!Drop(s, cur[s]) \/ UNCHANGED <<PhaseOf, HolderOf>>
        <5>1. /\ status' = status
              /\ \A t \in Servers \ {s} : pc'[t] = pc[t] /\ cur'[t] = cur[t]
              /\ pc'[s] \notin Running
          BY <4>2, ReturnDrops DEF Tick, Pick, Crash, GoTo, RunsOK, rowVars, Running
        <5> QED BY <4>1, <5>1, Stutter DEF Same, Holds
      <4> QED BY <4>2, <4>3, OtherRefines
    <3> QED BY <3>1, <3>2
  <2>4. CASE UNCHANGED vars
    BY <2>4, Stutter DEF vars, Same, Holds
  <2> QED BY <2>1, <2>2, <2>3, <2>4 DEF Next, Scheduler
<1> QED BY <1>1, <1>2, Invariance, PTL DEF Spec, ImplementsQueue, Queue!Spec
==============================================================================
