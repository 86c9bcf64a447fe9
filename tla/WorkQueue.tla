------------------------------ MODULE WorkQueue ------------------------------
(***************************************************************************)
(* What the server's database-backed job queues promise, stated without a  *)
(* scheduler, a status column or a pipeline: jobs are handed out oldest    *)
(* first, each to one worker, and never a second time.  OcrJobs is shown   *)
(* to implement it.                                                        *)
(***************************************************************************)
EXTENDS Integers

CONSTANTS Jobs,     \* job ids; a smaller id was inserted earlier
          Workers   \* the processes that take jobs

VARIABLES phase,    \* phase[j] : where job j is in its life
          holder    \* holder[j] : the workers running job j

queueVars == <<phase, holder>>

Phases == {"unborn", "waiting", "taken", "over"}

Init ==
  /\ phase = [j \in Jobs |-> "unborn"]
  /\ holder = [j \in Jobs |-> {}]

Submit(j) ==
  /\ phase[j] = "unborn"
  /\ \A i \in Jobs : i < j => phase[i] # "unborn"
  /\ phase' = [phase EXCEPT ![j] = "waiting"]
  /\ UNCHANGED holder

\* A job that is still waiting can be withdrawn, and is then never run.
Withdraw(j) ==
  /\ phase[j] = "waiting"
  /\ phase' = [phase EXCEPT ![j] = "over"]
  /\ UNCHANGED holder

\* Only the oldest waiting job is taken, by one worker that runs nothing else.
Take(w, j) ==
  /\ phase[j] = "waiting"
  /\ \A i \in Jobs : i < j => phase[i] # "waiting"
  /\ \A i \in Jobs : w \notin holder[i]
  /\ phase' = [phase EXCEPT ![j] = "taken"]
  /\ holder' = [holder EXCEPT ![j] = {w}]

\* A worker lets go of its job, finished or not; the job is not offered again.
Drop(w, j) ==
  /\ phase[j] = "taken"
  /\ holder[j] = {w}
  /\ holder' = [holder EXCEPT ![j] = {}]
  /\ phase' = [phase EXCEPT ![j] = "over"]

Next ==
  \E j \in Jobs :
    \/ Submit(j)
    \/ Withdraw(j)
    \/ \E w \in Workers : Take(w, j) \/ Drop(w, j)

Spec == Init /\ [][Next]_queueVars
==============================================================================
