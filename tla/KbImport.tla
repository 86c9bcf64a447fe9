------------------------------ MODULE KbImport ------------------------------
(***************************************************************************)
(* The knowledge-base leg of an upload, composed with the job queue of     *)
(* OcrJobs: a dispatch inserts an archive_import_jobs row (AIJ), then the  *)
(* OcrJob, and only then links the two; the hook of a finished pipeline    *)
(* finds the AIJ through that link, makes the archive page and closes the  *)
(* AIJ; users cancel the leg, review a completed job, or have its failed   *)
(* pages read again.                                                       *)
(***************************************************************************)
EXTENDS OcrJobs

CONSTANTS
  Dispatches,   \* KB dispatches of drafts, one AIJ each
  Editors,      \* review and page-repair requests in progress
  MaxEdits,     \* bound on such requests
  PageErrors    \* whether making a page or the index can fail

ASSUME EditBounds == MaxEdits \in Nat /\ PageErrors \in BOOLEAN

VARIABLES
  dp,           \* dp[d] : progress of the dispatch
  made,         \* made[d] : the OcrJob it inserted
  aij,          \* aij[d] : status of its AIJ
  link,         \* link[d] : result.ocrJobId of its AIJ
  hook,         \* hook[s] : what instance s does in the auto-approve hook
  pages,        \* pages[j] : archive pages made by hooks from job j
  reviewed,     \* reviewed[j] : approved or rejected, in the stored result
  leg,          \* leg[d] : progress of a cancel request for the leg
  ed,           \* ed[e] : progress of a review or repair request
  edJob,        \* edJob[e] : its job
  seen,         \* seen[e] : the stored result it read
  edits

kbOnly == <<dp, made, aij, link, hook, pages, reviewed, leg, ed, edJob, seen, edits>>
kbVars == <<vars, kbOnly>>

NotSeen == [good |-> FALSE, reviewed |-> FALSE]

\* The AIJ of job j, as the hooks look it up.
Linked(j) == {d \in Dispatches : link[d] = j}

KbTypeOK ==
  /\ TypeOK
  /\ dp \in [Dispatches -> {"idle", "copy", "link", "attach", "done", "failed", "lost"}]
  /\ made \in [Dispatches -> Jobs \cup {None}]
  /\ aij \in [Dispatches -> {"none", "PROCESSING", "COMPLETED", "FAILED", "CANCELLED"}]
  /\ link \in [Dispatches -> Jobs \cup {None}]
  /\ hook \in [Servers -> {"off", "index", "close"}]
  /\ pages \in [Jobs -> Nat]
  /\ reviewed \in [Jobs -> BOOLEAN]
  /\ leg \in [Dispatches -> {"off", "flip", "job"}]
  /\ ed \in [Editors -> {"off", "review", "repair", "hook", "page", "index", "close"}]
  /\ edJob \in [Editors -> Jobs \cup {None}]
  /\ seen \in [Editors -> [good : BOOLEAN, reviewed : BOOLEAN]]
  /\ edits \in 0..MaxEdits

KbInit ==
  /\ Init
  /\ dp = [d \in Dispatches |-> "idle"]
  /\ made = [d \in Dispatches |-> None]
  /\ aij = [d \in Dispatches |-> "none"]
  /\ link = [d \in Dispatches |-> None]
  /\ hook = [s \in Servers |-> "off"]
  /\ pages = [j \in Jobs |-> 0]
  /\ reviewed = [j \in Jobs |-> FALSE]
  /\ leg = [d \in Dispatches |-> "off"]
  /\ ed = [e \in Editors |-> "off"]
  /\ edJob = [e \in Editors |-> None]
  /\ seen = [e \in Editors |-> NotSeen]
  /\ edits = 0

SetAij(d, new) == aij' = [aij EXCEPT ![d] = new]

-----------------------------------------------------------------------------
(* dispatchKbLeg and dispatchKbLegUrl *)

dispatchOnly == <<hook, pages, reviewed, leg, ed, edJob, seen, edits>>

\* The AIJ is inserted first, PROCESSING and without a link.
InsertAij(d) ==
  /\ dp[d] = "idle"
  /\ dp' = [dp EXCEPT ![d] = "copy"]
  /\ SetAij(d, "PROCESSING")
  /\ UNCHANGED <<vars, made, link, dispatchOnly>>

\* The source of the draft cannot be copied.
CopyFails(d) ==
  /\ dp[d] = "copy"
  /\ dp' = [dp EXCEPT ![d] = "failed"]
  /\ SetAij(d, "FAILED")
  /\ UNCHANGED <<vars, made, link, dispatchOnly>>

\* From here on a scheduler can claim the job.
InsertJob(d) ==
  /\ dp[d] = "copy"
  /\ \E j \in Jobs :
       /\ Create(j)
       /\ made' = [made EXCEPT ![d] = j]
  /\ dp' = [dp EXCEPT ![d] = "link"]
  /\ UNCHANGED <<aij, link, dispatchOnly>>

LinkJob(d) ==
  /\ dp[d] = "link"
  /\ link' = [link EXCEPT ![d] = made[d]]
  /\ dp' = [dp EXCEPT ![d] = "attach"]
  /\ UNCHANGED <<vars, made, aij, dispatchOnly>>

\* The draft learns its kbJobId, which the cancel request needs.
AttachDraft(d) ==
  /\ dp[d] = "attach"
  /\ dp' = [dp EXCEPT ![d] = "done"]
  /\ UNCHANGED <<vars, made, aij, link, dispatchOnly>>

Dispatch(d) ==
  InsertAij(d) \/ CopyFails(d) \/ InsertJob(d) \/ LinkJob(d) \/ AttachDraft(d)

-----------------------------------------------------------------------------
(* The auto-approve hooks, run by the instance that finished the job *)

hookOnly == <<dp, made, link, reviewed, leg, ed, edJob, seen, edits>>

\* A job without an AIJ is left to manual approval.
HookSkips(s) ==
  /\ pc[s] = "approve" /\ hook[s] = "off"
  /\ Linked(cur[s]) = {}
  /\ Approve(s)
  /\ UNCHANGED <<aij, hook, pages, hookOnly>>

\* Valid pages become one archive page.
HookMakesPage(s) ==
  /\ pc[s] = "approve" /\ hook[s] = "off"
  /\ Linked(cur[s]) # {} /\ ok[s]
  /\ pages' = [pages EXCEPT ![cur[s]] = @ + 1]
  /\ hook' = [hook EXCEPT ![s] = "index"]
  /\ UNCHANGED <<vars, aij, hookOnly>>

HookIndexes(s) ==
  /\ hook[s] = "index"
  /\ hook' = [hook EXCEPT ![s] = "close"]
  /\ UNCHANGED <<vars, aij, pages, hookOnly>>

\* The AIJ becomes COMPLETED, whatever it was.
HookCloses(s) ==
  /\ hook[s] = "close"
  /\ \E d \in Linked(cur[s]) : SetAij(d, "COMPLETED")
  /\ hook' = [hook EXCEPT ![s] = "off"]
  /\ Approve(s)
  /\ UNCHANGED <<pages, hookOnly>>

\* Mutant of HookErrs: the import is closed although its page failed.
HookErrsCompletes(s) ==
  /\ PageErrors
  /\ pc[s] = "approve" /\ hook[s] \in {"off", "index"}
  /\ ok[s]
  /\ \E d \in Linked(cur[s]) : SetAij(d, "COMPLETED")
  /\ hook' = [hook EXCEPT ![s] = "off"]
  /\ Approve(s)
  /\ UNCHANGED <<pages, hookOnly>>

\* Mutant of HookErrs: the hook starts over when the index cannot be written.
HookErrsRetries(s) ==
  /\ PageErrors
  /\ hook[s] = "index"
  /\ hook' = [hook EXCEPT ![s] = "off"]
  /\ UNCHANGED <<vars, aij, pages, hookOnly>>

\* An error while making the page or the index is logged and forgotten.
HookErrs(s) ==
  /\ PageErrors
  /\ pc[s] = "approve" /\ hook[s] \in {"off", "index"}
  /\ Linked(cur[s]) # {} /\ ok[s]
  /\ hook' = [hook EXCEPT ![s] = "off"]
  /\ Approve(s)
  /\ UNCHANGED <<aij, pages, hookOnly>>

\* Without a valid page there is no archive page, and the AIJ fails.
HookRejects(s) ==
  /\ pc[s] = "approve" /\ hook[s] = "off"
  /\ ~ok[s]
  /\ \E d \in Linked(cur[s]) : SetAij(d, "FAILED")
  /\ Approve(s)
  /\ UNCHANGED <<hook, pages, hookOnly>>

\* Mutant of HookFails: every open import of the archive is failed.
HookFailsAll(s) ==
  /\ pc[s] = "report"
  /\ aij' = [d \in Dispatches |-> IF aij[d] = "PROCESSING" THEN "FAILED" ELSE aij[d]]
  /\ Report(s)
  /\ UNCHANGED <<hook, pages, hookOnly>>

\* Mutant of HookFails: the failure stays with the job.
HookFailsSilently(s) ==
  /\ pc[s] = "report"
  /\ Report(s)
  /\ UNCHANGED <<aij, hook, pages, hookOnly>>

\* finalizeAutoApproveOnFail, after failOcrJob.
HookFails(s) ==
  /\ pc[s] = "report"
  /\ aij' = [d \in Dispatches |-> IF link[d] = cur[s] THEN "FAILED" ELSE aij[d]]
  /\ Report(s)
  /\ UNCHANGED <<hook, pages, hookOnly>>

Hook(s) ==
  \/ HookSkips(s) \/ HookMakesPage(s) \/ HookIndexes(s) \/ HookCloses(s)
  \/ HookErrs(s) \/ HookRejects(s) \/ HookFails(s)

\* The steps of the queue that no hook takes part in.
PlainStep(s) ==
  /\ \/ Scheduler(s) \/ Setup(s) \/ Hash(s) \/ Dedup(s) \/ Start(s)
     \/ CheckCancelled(s) \/ Work(s) \/ Save(s) \/ Fail(s)
  /\ UNCHANGED kbOnly

-----------------------------------------------------------------------------
(* POST /uploads/:id/cancel, KB leg *)

legOnly == <<dp, made, link, hook, pages, reviewed, ed, edJob, seen, edits>>

LegRead(d) ==
  /\ dp[d] = "done" /\ aij[d] = "PROCESSING" /\ leg[d] = "off"
  /\ leg' = [leg EXCEPT ![d] = "flip"]
  /\ UNCHANGED <<vars, aij, legOnly>>

\* The AIJ becomes CANCELLED, whatever it has become since the read.
LegFlip(d) ==
  /\ leg[d] = "flip"
  /\ SetAij(d, "CANCELLED")
  /\ leg' = [leg EXCEPT ![d] = "job"]
  /\ UNCHANGED <<vars, legOnly>>

\* Mutant of LegJob: the row of the job is cancelled without looking at it.
LegJobForces(d) ==
  /\ leg[d] = "job"
  /\ SetStatus(link[d], "CANCELLED")
  /\ leg' = [leg EXCEPT ![d] = "off"]
  /\ UNCHANGED <<hash, good, runVars, cancelling, crashes, aij, legOnly>>

\* The companion cancelOcrJob: its read, or its early return.
LegJob(d) ==
  /\ leg[d] = "job"
  /\ \/ CancelRead(link[d])
     \/ /\ status[link[d]] \notin {"PENDING", "PROCESSING"}
        /\ UNCHANGED vars
  /\ leg' = [leg EXCEPT ![d] = "off"]
  /\ UNCHANGED <<aij, legOnly>>

-----------------------------------------------------------------------------
(* Review (approve, reject) and page repair of a COMPLETED job *)

edOnly == <<dp, made, link, hook, leg>>

\* The request reads the row and goes on with the result it read.
EditRead(e, j) ==
  /\ ed[e] = "off" /\ edits < MaxEdits
  /\ status[j] = "COMPLETED"
  /\ \E kind \in {"review", "repair"} : ed' = [ed EXCEPT ![e] = kind]
  /\ edJob' = [edJob EXCEPT ![e] = j]
  /\ seen' = [seen EXCEPT ![e] = [good |-> good[j], reviewed |-> reviewed[j]]]
  /\ edits' = edits + 1
  /\ UNCHANGED <<vars, aij, pages, reviewed, edOnly>>

EditEnds(e) ==
  /\ ed' = [ed EXCEPT ![e] = "off"]
  /\ edJob' = [edJob EXCEPT ![e] = None]
  /\ seen' = [seen EXCEPT ![e] = NotSeen]

\* Both write the whole result back; the update throws when the row is gone.
EditLost(e) ==
  /\ ed[e] \in {"review", "repair"} /\ status[edJob[e]] = "deleted"
  /\ EditEnds(e)
  /\ UNCHANGED <<vars, aij, pages, reviewed, edits, edOnly>>

\* The flag of the decision is added to the result that was read.  The page an
\* approval makes is the user's own and not counted here.
ReviewWrites(e) ==
  LET j == edJob[e]
  IN /\ ed[e] = "review"
     /\ StoreResult(j)
     /\ good' = [good EXCEPT ![j] = seen[e].good]
     /\ reviewed' = [reviewed EXCEPT ![j] = TRUE]
     /\ EditEnds(e)
     /\ UNCHANGED <<aij, pages, edits, edOnly>>

\* Failed pages are read again, and replace those of the result that was read;
\* the hook is tried only if every page is now valid.
RepairWrites(e) ==
  LET j == edJob[e]
  IN /\ ed[e] = "repair"
     /\ StoreResult(j)
     /\ reviewed' = [reviewed EXCEPT ![j] = seen[e].reviewed]
     /\ seen[e].good => good'[j]
     /\ \/ EditEnds(e)
        \/ /\ good'[j]
           /\ ed' = [ed EXCEPT ![e] = "hook"]
           /\ UNCHANGED <<edJob, seen>>
     /\ UNCHANGED <<aij, pages, edits, edOnly>>

\* Mutant of RepairChecks: the status of the AIJ is not looked at.
RepairChecksNothing(e) ==
  /\ ed[e] = "hook"
  /\ \/ /\ Linked(edJob[e]) # {}
        /\ ed' = [ed EXCEPT ![e] = "page"]
        /\ UNCHANGED <<edJob, seen>>
     \/ /\ Linked(edJob[e]) = {}
        /\ EditEnds(e)
  /\ UNCHANGED <<vars, aij, pages, reviewed, edits, edOnly>>

\* Mutant of RepairChecks: a cancelled import counts as recoverable.
RepairChecksOpen(e) ==
  /\ ed[e] = "hook"
  /\ \/ /\ \E d \in Linked(edJob[e]) : aij[d] # "COMPLETED"
        /\ ed' = [ed EXCEPT ![e] = "page"]
        /\ UNCHANGED <<edJob, seen>>
     \/ /\ \A d \in Linked(edJob[e]) : aij[d] = "COMPLETED"
        /\ EditEnds(e)
  /\ UNCHANGED <<vars, aij, pages, reviewed, edits, edOnly>>

\* The hook is called only for an AIJ that is not COMPLETED yet.
RepairChecks(e) ==
  /\ ed[e] = "hook"
  /\ \/ /\ \E d \in Linked(edJob[e]) : aij[d] = "FAILED"
        /\ ed' = [ed EXCEPT ![e] = "page"]
        /\ UNCHANGED <<edJob, seen>>
     \/ /\ \A d \in Linked(edJob[e]) : aij[d] # "FAILED"
        /\ EditEnds(e)
  /\ UNCHANGED <<vars, aij, pages, reviewed, edits, edOnly>>

RepairMakesPage(e) ==
  /\ ed[e] = "page"
  /\ pages' = [pages EXCEPT ![edJob[e]] = @ + 1]
  /\ ed' = [ed EXCEPT ![e] = "index"]
  /\ UNCHANGED <<vars, aij, reviewed, edJob, seen, edits, edOnly>>

RepairIndexes(e) ==
  /\ ed[e] = "index"
  /\ ed' = [ed EXCEPT ![e] = "close"]
  /\ UNCHANGED <<vars, aij, pages, reviewed, edJob, seen, edits, edOnly>>

RepairCloses(e) ==
  /\ ed[e] = "close"
  /\ \E d \in Linked(edJob[e]) : SetAij(d, "COMPLETED")
  /\ EditEnds(e)
  /\ UNCHANGED <<vars, pages, reviewed, edits, edOnly>>

RepairErrs(e) ==
  /\ PageErrors
  /\ ed[e] \in {"page", "index"}
  /\ EditEnds(e)
  /\ UNCHANGED <<vars, aij, pages, reviewed, edits, edOnly>>

Edit(e) ==
  \/ EditLost(e) \/ ReviewWrites(e) \/ RepairWrites(e) \/ RepairChecks(e)
  \/ RepairMakesPage(e) \/ RepairIndexes(e) \/ RepairCloses(e) \/ RepairErrs(e)

-----------------------------------------------------------------------------
(* Requests on the job alone, and crashes *)

JobRequest(j) ==
  /\ Create(j) \/ CancelRead(j) \/ CancelWrite(j) \/ Delete(j)
  /\ UNCHANGED kbOnly

\* Any of the requests in progress may have been served by the instance.
KbCrash(s) ==
  /\ Crash(s)
  /\ hook' = [hook EXCEPT ![s] = "off"]
  /\ \E gone \in SUBSET {d \in Dispatches : dp[d] \in {"copy", "link", "attach"}} :
       dp' = [d \in Dispatches |-> IF d \in gone THEN "lost" ELSE dp[d]]
  /\ \E gone \in SUBSET {d \in Dispatches : leg[d] # "off"} :
       leg' = [d \in Dispatches |-> IF d \in gone THEN "off" ELSE leg[d]]
  /\ \E gone \in SUBSET {e \in Editors : ed[e] # "off"} :
       /\ ed' = [e \in Editors |-> IF e \in gone THEN "off" ELSE ed[e]]
       /\ edJob' = [e \in Editors |-> IF e \in gone THEN None ELSE edJob[e]]
       /\ seen' = [e \in Editors |-> IF e \in gone THEN NotSeen ELSE seen[e]]
  /\ UNCHANGED <<made, aij, link, pages, reviewed, edits>>

KbServer(s) == PlainStep(s) \/ Hook(s)

KbNext ==
  \/ \E j \in Jobs : JobRequest(j)
  \/ \E s \in Servers : KbServer(s) \/ KbCrash(s)
  \/ \E d \in Dispatches : Dispatch(d) \/ LegRead(d) \/ LegFlip(d) \/ LegJob(d)
  \/ \E e \in Editors : Edit(e) \/ \E j \in Jobs : EditRead(e, j)

KbSpec == KbInit /\ [][KbNext]_kbVars

KbFairness ==
  /\ \A s \in Servers : WF_kbVars(KbServer(s))
  /\ \A j \in Jobs : WF_kbVars(CancelWrite(j) /\ UNCHANGED kbOnly)
  /\ \A d \in Dispatches :
       /\ WF_kbVars(CopyFails(d) \/ InsertJob(d) \/ LinkJob(d) \/ AttachDraft(d))
       /\ WF_kbVars(LegFlip(d) \/ LegJob(d))
  /\ \A e \in Editors : WF_kbVars(Edit(e))

KbFairSpec == KbSpec /\ KbFairness

-----------------------------------------------------------------------------
(* Safety *)

\* An import never reports success without its document: a COMPLETED AIJ is
\* linked to a job a page was made from, whichever of pipeline, cancel and
\* repair wrote the AIJ last.
NoHollowCompletion ==
  \A d \in Dispatches :
    aij[d] = "COMPLETED" => link[d] # None /\ pages[link[d]] > 0

\* The pipeline makes at most one page of a job, across crashes and restarts;
\* every further one is owed to a repair.
PagesOwedToRepairs == \A j \in Jobs : pages[j] <= 1 + edits

\* The job is over: no instance holds it and none will claim it.
AtRest(j) == j \notin Held /\ status[j] \notin {"none", "PENDING"}

\* A repair of the document of d has found the import FAILED and goes on to
\* make its page.
InRepair(d) == \E e \in Editors : edJob[e] = link[d] /\ ed[e] \in {"page", "index", "close"}

\* A completed import gets no second page, and no repair that could make one
\* begins: the check of the AIJ in repairOcrPages keeps out all but those that
\* had passed it while the import was FAILED.
CompletedImportKeepsItsPage ==
  [][\A d \in Dispatches :
       aij[d] = "COMPLETED" /\ ~InRepair(d)
         => ~InRepair(d)' /\ pages'[link[d]] = pages[link[d]]]_kbVars

\* "A COMPLETED AIJ must never double-create an ArchivePage": one automatic
\* page for each job, however many repairs of it run.
OneAutoPage == \A j \in Jobs : pages[j] <= 1

\* A cancelled import whose job is over is over itself: neither a scheduler
\* nor a page repair takes its document up again and completes it after all.
SettledCancel(d) ==
  aij[d] = "CANCELLED" /\ link[d] # None /\ AtRest(link[d]) /\ ~InRepair(d)

CancelledImportStays ==
  [][\A d \in Dispatches : SettledCancel(d) => SettledCancel(d)']_kbVars

\* The row of a failed import was failed by its own job, or never had one: the
\* hooks of one document never close the import of another.
FailureIsOwn ==
  [][\A d \in Dispatches :
       aij[d] # "FAILED" /\ aij'[d] = "FAILED"
         => \/ dp[d] = "copy"
            \/ \E s \in Servers : Holds(s, link[d])]_kbVars

\* The cancel request of a draft stops the work "at the next unit-of-work
\* boundary": no page is made for an import that is cancelled.
CancelledImportMakesNoPage ==
  [][\A d \in Dispatches :
       link[d] # None /\ aij[d] = "CANCELLED"
         => pages'[link[d]] = pages[link[d]]]_kbVars

\* The link is written "so the auto-approve hook can find this AIJ when the
\* OcrJob terminates".
HookFindsAij ==
  \A s \in Servers : \A d \in Dispatches :
    pc[s] \in {"approve", "report"} /\ made[d] = cur[s] => link[d] = cur[s]

\* A repair keeps the "approved/rejected" metadata of the job.
ReviewKept == [][\A j \in Jobs : reviewed[j] => reviewed'[j]]_kbVars

-----------------------------------------------------------------------------
(* Liveness *)

\* An import whose job was linked before a scheduler claimed it comes to an
\* end, unless the job itself is deleted or cancelled behind its back.
ImportEnds ==
  \A d \in Dispatches :
    link[d] # None /\ status[link[d]] = "PENDING" /\ aij[d] = "PROCESSING"
      ~> \/ aij[d] # "PROCESSING"
         \/ link[d] # None /\ status[link[d]] \in {"deleted", "CANCELLED"}
==============================================================================
