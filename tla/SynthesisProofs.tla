-------------------------- MODULE SynthesisProofs --------------------------
(***************************************************************************)
(* Proofs about SynthesisRuns for any rows, loops, triggers and requests:  *)
(* a run has one loop, no pipeline writes to a run that can be reviewed,   *)
(* and a verdict stays.                                                    *)
(***************************************************************************)
EXTENDS SynthesisRuns, TLAPS

\* A loop holds a run exactly while it is in a pipeline.
LoopHolds == \A w \in Workers : pc[w] # "idle" => cur[w] \in Runs

\* A claimed run has left PENDING; one of the LLM pipeline is in progress,
\* failed by the reaper or deleted as long as its loop holds it.
HeldRuns ==
  \A w \in Workers : cur[w] \in Runs =>
    /\ status[cur[w]] \notin {"none", "PENDING"}
    /\ kind[cur[w]] = "llm" => status[cur[w]] \in {"PROCESSING", "FAILED", "deleted"}

\* Graph pipelines are started for their own rows only.
GraphKinds == \A r \in Runs : graph[r] # "off" => kind[r] = "graph" /\ status[r] # "none"

\* A run that a request has read has been through its pipeline.
ReadRuns ==
  \A u \in Reviewers : rev[u] # "off" =>
    /\ revRun[u] \in Runs
    /\ status[revRun[u]] \notin {"none", "PENDING"}
    /\ kind[revRun[u]] = "llm" => \A w \in Workers : cur[w] # revRun[u]

\* A joining trigger holds a row that exists or existed.
JoinsKnown == \A t \in Triggers : trig[t] = "join" => found[t] \in Runs /\ status[found[t]] # "none"

IInv ==
  /\ SynTypeOK
  /\ OneWorker
  /\ LoopHolds
  /\ HeldRuns
  /\ GraphKinds
  /\ ReadRuns
  /\ JoinsKnown

LEMMA InitIInv == Init => IInv
  BY NoneIsNew, Times
  DEF Init, IInv, SynTypeOK, OneWorker, LoopHolds, HeldRuns, GraphKinds, ReadRuns,
      JoinsKnown, Statuses, Reviewable, Reviewed

LEMMA TypeStep == IInv /\ [Next]_vars => SynTypeOK'
<1> SUFFICES ASSUME IInv, [Next]_vars PROVE SynTypeOK'
  OBVIOUS
<1> USE NoneIsNew, Times
<1> USE DEF IInv, SynTypeOK, Statuses, Reviewable, Reviewed, rows, loops, triggers, requests
<1>1. ASSUME NEW t \in Triggers, FindWaiting(t) PROVE SynTypeOK'
  BY <1>1 DEF FindWaiting, GoTo, Recent, Waiting
<1>2. ASSUME NEW t \in Triggers, Join(t) PROVE SynTypeOK'
  <2>1. found[t] \in Runs
    BY <1>2 DEF Join, JoinsKnown
  <2>2. age' \in [Runs -> 0..Cooldown]
    <3>1. age' = [age EXCEPT ![found[t]] = 0] \/ age' = age
      BY <1>2, Zenon DEF Join
    <3> QED
      BY <2>1, <3>1
  <2>4. changes' \in [Runs -> BOOLEAN]
    <3>1. changes' = [changes EXCEPT ![found[t]] = FALSE] \/ changes' = changes
      BY <1>2, Zenon DEF Join
    <3> QED
      BY <2>1, <3>1
  <2>3. trig' \in [Triggers -> {"off", "join", "cooldown", "create", "done"}]
        /\ found' \in [Triggers -> Runs \cup {None}]
    BY <1>2 DEF Join, GoTo
  <2> QED
    BY <1>2, <2>2, <2>3, <2>4 DEF Join
<1>3. ASSUME NEW t \in Triggers, CheckCooldown(t) PROVE SynTypeOK'
  BY <1>3 DEF CheckCooldown, GoTo
<1>4. ASSUME NEW t \in Triggers, Create(t) PROVE SynTypeOK'
  BY <1>4 DEF Create, Insert, GoTo
<1>5. ASSUME NEW w \in Workers, Claim(w) PROVE SynTypeOK'
  BY <1>5 DEF Claim, Process, Waiting
<1>6. ASSUME NEW w \in Workers, Setup(w) PROVE SynTypeOK'
  BY <1>6 DEF Setup, Process, Enter, Release, LoopHolds
<1>7. ASSUME NEW w \in Workers, Persist(w) PROVE SynTypeOK'
  BY <1>7 DEF Persist, Release, LoopHolds
<1>8. ASSUME NEW w \in Workers, Abandon(w) PROVE SynTypeOK'
  BY <1>8 DEF Abandon, Release
<1>9. ASSUME NEW r \in Runs, GraphStep(r) PROVE SynTypeOK'
  BY <1>9 DEF GraphStep, GraphStart, GraphEnd, GraphGivesUp, Process
<1>10. ASSUME NEW r \in Runs, Delete(r) PROVE SynTypeOK'
  BY <1>10 DEF Delete
<1>11. ASSUME NEW u \in Reviewers, WriteReview(u) PROVE SynTypeOK'
  <2> DEFINE r == revRun[u]
  <2>1. Verdicts(rev[u]) \subseteq Statuses
    BY DEF Verdicts
  <2>2. r \in Runs /\ r = revRun[u]
    BY <1>11 DEF WriteReview, ReadRuns
  <2>3. PICK new \in Verdicts(rev[u]) :
          status' = [status EXCEPT ![revRun[u]] = new] \/ status' = status
    BY <1>11 DEF WriteReview, Verdicts
  <2>4. status' \in [Runs -> Statuses \cup {"none", "deleted"}]
    BY <2>1, <2>2, <2>3
  <2>5. changes' \in [Runs -> BOOLEAN]
    BY <1>11 DEF WriteReview
  <2>6. rev' \in [Reviewers -> {"off", "approve", "rejectSome", "reject"}]
        /\ revRun' \in [Reviewers -> Runs \cup {None}]
    BY <1>11 DEF WriteReview
  <2> QED
    BY <1>11, <2>4, <2>5, <2>6 DEF WriteReview
<1>12. ASSUME NEW u \in Reviewers, NEW r \in Runs, ReadRun(u, r) PROVE SynTypeOK'
  BY <1>12 DEF ReadRun
<1>13. CASE Request
  BY <1>13 DEF Request, Insert
<1>14. CASE RequestGraph
  BY <1>14 DEF RequestGraph, Insert
<1>15. CASE Reap
  BY <1>15 DEF Reap, Overdue
<1>16. CASE Tick
  BY <1>16 DEF Tick
<1>17. CASE UNCHANGED vars
  BY <1>17 DEF vars
<1> QED
  BY <1>1, <1>2, <1>3, <1>4, <1>5, <1>6, <1>7, <1>8, <1>9, <1>10, <1>11, <1>12,
     <1>13, <1>14, <1>15, <1>16, <1>17 DEF Next, TriggerStep, WorkerStep

\* What is known of the rows, the loops and who holds what, besides types.
Held == OneWorker /\ LoopHolds /\ HeldRuns /\ GraphKinds /\ ReadRuns /\ JoinsKnown

LEMMA HeldStep == IInv /\ SynTypeOK' /\ [Next]_vars => Held'
<1> SUFFICES ASSUME IInv, SynTypeOK', [Next]_vars PROVE Held'
  OBVIOUS
<1> USE NoneIsNew
<1> USE DEF IInv, SynTypeOK, Held, OneWorker, LoopHolds, HeldRuns, GraphKinds, ReadRuns,
        JoinsKnown, Statuses, Reviewable, Reviewed, Exists, rows, loops, triggers, requests
<1>1. ASSUME NEW t \in Triggers, FindWaiting(t) PROVE Held'
  BY <1>1 DEF FindWaiting, GoTo, Recent, Waiting
<1>2. ASSUME NEW t \in Triggers, Join(t) PROVE Held'
  BY <1>2 DEF Join, GoTo
<1>3. ASSUME NEW t \in Triggers, CheckCooldown(t) PROVE Held'
  BY <1>3 DEF CheckCooldown, GoTo
<1>4. ASSUME NEW t \in Triggers, Create(t) PROVE Held'
  BY <1>4 DEF Create, Insert, GoTo
<1>5. ASSUME NEW w \in Workers, Claim(w) PROVE Held'
  BY <1>5 DEF Claim, Process, Waiting
<1>6. ASSUME NEW w \in Workers, Setup(w) PROVE Held'
  BY <1>6 DEF Setup, Process, Enter, Release
<1>7. ASSUME NEW w \in Workers, Persist(w) PROVE Held'
  BY <1>7 DEF Persist, Release
<1>8. ASSUME NEW w \in Workers, Abandon(w) PROVE Held'
  BY <1>8 DEF Abandon, Release
<1>9. ASSUME NEW r \in Runs, GraphStep(r) PROVE Held'
  BY <1>9 DEF GraphStep, GraphStart, GraphEnd, GraphGivesUp, Process
<1>10. ASSUME NEW r \in Runs, Delete(r) PROVE Held'
  BY <1>10 DEF Delete
<1>11. ASSUME NEW u \in Reviewers, WriteReview(u) PROVE Held'
  BY <1>11 DEF WriteReview, Verdicts
<1>12. ASSUME NEW u \in Reviewers, NEW r \in Runs, ReadRun(u, r) PROVE Held'
  BY <1>12 DEF ReadRun
<1>13. CASE Request
  BY <1>13 DEF Request, Insert
<1>14. CASE RequestGraph
  BY <1>14 DEF RequestGraph, Insert
<1>15. CASE Reap
  BY <1>15 DEF Reap, Overdue
<1>16. CASE Tick
  BY <1>16 DEF Tick
<1>17. CASE UNCHANGED vars
  BY <1>17 DEF vars
<1> QED
  BY <1>1, <1>2, <1>3, <1>4, <1>5, <1>6, <1>7, <1>8, <1>9, <1>10, <1>11, <1>12,
     <1>13, <1>14, <1>15, <1>16, <1>17 DEF Next, TriggerStep, WorkerStep

\* IInv holds always: it holds at the start and every step keeps it.
THEOREM SynInvariance == Spec => []IInv
<1>1. IInv /\ [Next]_vars => IInv'
  BY TypeStep, HeldStep DEF IInv, Held
<1> QED
  BY InitIInv, <1>1, PTL DEF Spec

\* Type correctness of the rows, loops, triggers and requests.
THEOREM SynTypeCorrect == Spec => []SynTypeOK
<1>1. IInv => SynTypeOK
  BY DEF IInv
<1> QED
  BY SynInvariance, <1>1, PTL

\* getNextSynthesisJob and the unconditional writes after it leave each run
\* to one scheduler loop.
THEOREM OneLoopPerRun == Spec => []OneWorker
<1>1. IInv => OneWorker
  BY DEF IInv
<1> QED
  BY SynInvariance, <1>1, PTL

\* What a reviewer reads of a run is final: its pipeline has ended.
THEOREM ReviewsAreOfEndedRuns == Spec => []ReviewableRests
<1>1. IInv => ReviewableRests
  BY DEF IInv, HeldRuns, ReviewableRests, Reviewable, Reviewed
<1> QED
  BY SynInvariance, <1>1, PTL

\* A step that changes the status of a reviewed run of the LLM pipeline.
Overruled(r) == kind[r] = "llm" /\ status[r] \in Reviewed /\ status'[r] # status[r]

Justified(r) == status'[r] = "deleted" \/ \E u \in Reviewers : revRun[u] = r /\ rev'[u] = "off"

LEMMA VerdictStep == IInv /\ [Next]_vars => \A r \in Runs : Overruled(r) => Justified(r)
<1> SUFFICES ASSUME IInv, [Next]_vars, NEW r \in Runs, Overruled(r) PROVE Justified(r)
  OBVIOUS
<1> USE DEF IInv, SynTypeOK, Overruled, Justified, Reviewed, rows, loops, triggers, requests
<1>1. ASSUME NEW t \in Triggers, TriggerStep(t) PROVE Justified(r)
  BY <1>1 DEF TriggerStep, FindWaiting, Join, CheckCooldown, Create, Insert
<1>2. ASSUME NEW w \in Workers, WorkerStep(w) PROVE Justified(r)
  BY <1>2 DEF WorkerStep, Claim, Setup, Persist, Abandon, Process, Waiting, LoopHolds, HeldRuns
<1>3. ASSUME NEW q \in Runs, GraphStep(q) PROVE Justified(r)
  BY <1>3 DEF GraphStep, GraphStart, GraphEnd, GraphGivesUp, Process, GraphKinds
<1>4. ASSUME NEW q \in Runs, Delete(q) PROVE Justified(r)
  BY <1>4 DEF Delete
<1>5. ASSUME NEW u \in Reviewers, WriteReview(u) PROVE Justified(r)
  BY <1>5 DEF WriteReview, ReadRuns
<1>6. ASSUME NEW u \in Reviewers, NEW q \in Runs, ReadRun(u, q) PROVE Justified(r)
  BY <1>6 DEF ReadRun
<1>7. CASE Request \/ RequestGraph
  BY <1>7 DEF Request, RequestGraph, Insert
<1>8. CASE Reap
  BY <1>8 DEF Reap, Overdue
<1>9. CASE Tick \/ UNCHANGED vars
  BY <1>9 DEF Tick, vars
<1> QED
  BY <1>1, <1>2, <1>3, <1>4, <1>5, <1>6, <1>7, <1>8, <1>9 DEF Next

\* The reaper, joined sources and late pipelines leave a stored verdict alone.
THEOREM VerdictsStay == Spec => VerdictStays
<1>1. IInv /\ [Next]_vars => [\A r \in Runs : Overruled(r) => Justified(r)]_vars
  BY VerdictStep
<1>2. Spec => [][\A r \in Runs : Overruled(r) => Justified(r)]_vars
  BY SynInvariance, <1>1, PTL DEF Spec
<1> QED
  BY <1>2 DEF VerdictStays, Overruled, Justified
=============================================================================
