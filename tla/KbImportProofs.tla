---------------------------- MODULE KbImportProofs ----------------------------
(***************************************************************************)
(* Theorems about KbImport.  The composition adds no behaviour to the job  *)
(* queue: every step of it is a step of OcrJobs or leaves its variables    *)
(* alone, so that what OcrJobsProofs shows of the queue holds here too.    *)
(* With that, an import that reports success has its page.                 *)
(***************************************************************************)
EXTENDS KbImport, OcrJobsProofs

\* The variables of the import, by the party that writes them.
DispatchTyped ==
  /\ dp \in [Dispatches -> {"idle", "copy", "link", "attach", "done", "failed", "lost"}]
  /\ made \in [Dispatches -> Jobs \cup {None}]
  /\ aij \in [Dispatches -> {"none", "PROCESSING", "COMPLETED", "FAILED", "CANCELLED"}]
  /\ link \in [Dispatches -> Jobs \cup {None}]
  /\ leg \in [Dispatches -> {"off", "flip", "job"}]

HookTyped ==
  /\ hook \in [Servers -> {"off", "index", "close"}]
  /\ pages \in [Jobs -> Nat]

EditTyped ==
  /\ reviewed \in [Jobs -> BOOLEAN]
  /\ ed \in [Editors -> {"off", "review", "repair", "hook", "page", "index", "close"}]
  /\ edJob \in [Editors -> Jobs \cup {None}]
  /\ seen \in [Editors -> [good : BOOLEAN, reviewed : BOOLEAN]]
  /\ edits \in 0..MaxEdits

\* A dispatch past its insert knows its job, a link is set once, and a cancel
\* request is for an import with a link.
DispatchShape ==
  \A d \in Dispatches :
    /\ dp[d] = "link" => made[d] \in Jobs
    /\ dp[d] \in {"idle", "copy", "link"} => link[d] = None
    /\ dp[d] \in {"attach", "done"} => link[d] \in Jobs
    /\ leg[d] # "off" => link[d] \in Jobs

\* An edit in progress is of a job.
EditShape == \A e \in Editors : ed[e] # "off" => edJob[e] \in Jobs

Shape == DispatchTyped /\ HookTyped /\ EditTyped /\ DispatchShape /\ EditShape

\* The steps of the import, by the variables they write.
DispatchParty == \E d \in Dispatches : Dispatch(d) \/ LegRead(d) \/ LegFlip(d) \/ LegJob(d)

EditParty == \E e \in Editors : Edit(e) \/ \E j \in Jobs : EditRead(e, j)

ServerParty == \E s \in Servers : KbServer(s)

RequestParty == \E j \in Jobs : JobRequest(j)

CrashParty == \E s \in Servers : KbCrash(s)

LEMMA Parties ==
  KbNext <=> DispatchParty \/ EditParty \/ ServerParty \/ RequestParty \/ CrashParty
BY DEF KbNext, DispatchParty, EditParty, ServerParty, RequestParty, CrashParty

-----------------------------------------------------------------------------
(* Shape *)

LEMMA ShapeInit == KbInit => Shape
<1> SUFFICES ASSUME KbInit PROVE Shape
  OBVIOUS
<1>1. DispatchTyped BY DEF KbInit, DispatchTyped
<1>2. HookTyped BY DEF KbInit, HookTyped
<1>3. EditTyped BY EditBounds DEF KbInit, EditTyped, NotSeen
<1>4. DispatchShape BY DEF KbInit, DispatchShape
<1>5. EditShape BY DEF KbInit, EditShape
<1> QED BY <1>1, <1>2, <1>3, <1>4, <1>5 DEF Shape

LEMMA DispatchPartyShape == Shape /\ DispatchParty => Shape'
<1> SUFFICES ASSUME Shape, NEW d \in Dispatches,
                    Dispatch(d) \/ LegRead(d) \/ LegFlip(d) \/ LegJob(d)
             PROVE  Shape'
  BY DEF DispatchParty
<1>1. EditTyped' /\ EditShape'
  BY DEF Dispatch, InsertAij, CopyFails, InsertJob, LinkJob, AttachDraft, LegRead, LegFlip,
         LegJob, dispatchOnly, legOnly, Shape, EditTyped, EditShape
<1>2. HookTyped'
  BY DEF Dispatch, InsertAij, CopyFails, InsertJob, LinkJob, AttachDraft, LegRead, LegFlip,
         LegJob, dispatchOnly, legOnly, Shape, HookTyped
<1> SUFFICES DispatchTyped' /\ DispatchShape'
  BY <1>1, <1>2 DEF Shape
<1> USE DEF Shape, DispatchTyped, DispatchShape, dispatchOnly, legOnly, SetAij
<1>3. CASE InsertAij(d) BY <1>3 DEF InsertAij
<1>4. CASE CopyFails(d) BY <1>4 DEF CopyFails
<1>5. CASE InsertJob(d) BY <1>5, NoneFresh DEF InsertJob
<1>6. CASE LinkJob(d) BY <1>6 DEF LinkJob
<1>7. CASE AttachDraft(d) BY <1>7 DEF AttachDraft
<1>8. CASE LegRead(d) BY <1>8 DEF LegRead
<1>9. CASE LegFlip(d) BY <1>9 DEF LegFlip
<1>10. CASE LegJob(d) BY <1>10 DEF LegJob
<1> QED BY <1>3, <1>4, <1>5, <1>6, <1>7, <1>8, <1>9, <1>10 DEF Dispatch

LEMMA EditPartyShape == Shape /\ TypeOK /\ EditParty => Shape'
<1> SUFFICES ASSUME Shape, TypeOK, NEW e \in Editors, Edit(e) \/ \E j \in Jobs : EditRead(e, j)
             PROVE  Shape'
  BY DEF EditParty
<1> USE DEF Shape, edOnly, EditEnds
<1>1. DispatchShape' /\ UNCHANGED <<dp, made, link, hook, leg>>
  BY DEF Edit, EditLost, ReviewWrites, RepairWrites, RepairChecks, RepairMakesPage,
         RepairIndexes, RepairCloses, RepairErrs, EditRead, DispatchShape
<1>2. DispatchTyped'
  BY <1>1 DEF Edit, EditLost, ReviewWrites, RepairWrites, RepairChecks, RepairMakesPage,
         RepairIndexes, RepairCloses, RepairErrs, EditRead, DispatchTyped, SetAij
<1>3. HookTyped'
  <2>1. UNCHANGED hook
    BY <1>1
  <2>2. CASE RepairMakesPage(e)
    <3>1. edJob[e] \in Jobs
      BY <2>2 DEF RepairMakesPage, EditShape
    <3> QED BY <2>1, <2>2, <3>1 DEF RepairMakesPage, HookTyped
  <2>3. CASE ~RepairMakesPage(e)
    BY <2>1, <2>3 DEF Edit, EditLost, ReviewWrites, RepairWrites, RepairChecks,
           RepairIndexes, RepairCloses, RepairErrs, EditRead, HookTyped
  <2> QED BY <2>2, <2>3
<1> SUFFICES EditTyped' /\ EditShape'
  BY <1>1, <1>2, <1>3
<1> USE DEF EditTyped, EditShape, NotSeen
<1>end. ASSUME EditEnds(e), UNCHANGED edits, reviewed' \in [Jobs -> BOOLEAN]
        PROVE  EditTyped' /\ EditShape'
  BY <1>end
<1>go. ASSUME NEW l \in {"hook", "page", "index", "close"}, ed[e] # "off",
              ed' = [ed EXCEPT ![e] = l],
              UNCHANGED <<edJob, seen, edits>>, reviewed' \in [Jobs -> BOOLEAN]
       PROVE  EditTyped' /\ EditShape'
  BY <1>go
<1>4. ASSUME NEW j \in Jobs, EditRead(e, j) PROVE EditTyped' /\ EditShape'
  BY <1>4, EditBounds DEF EditRead, TypeOK
<1>5. CASE EditLost(e) BY <1>5, <1>end DEF EditLost
<1>6. CASE ReviewWrites(e)
  <2>1. reviewed' \in [Jobs -> BOOLEAN] BY <1>6 DEF ReviewWrites
  <2> QED BY <1>6, <2>1, <1>end DEF ReviewWrites
<1>7. CASE RepairWrites(e)
  <2>1. reviewed' \in [Jobs -> BOOLEAN] BY <1>7 DEF RepairWrites
  <2> QED BY <1>7, <2>1, <1>end, <1>go DEF RepairWrites
<1>8. CASE RepairChecks(e) BY <1>8, <1>end, <1>go DEF RepairChecks
<1>9. CASE RepairMakesPage(e) BY <1>9, <1>go DEF RepairMakesPage
<1>10. CASE RepairIndexes(e) BY <1>10, <1>go DEF RepairIndexes
<1>11. CASE RepairCloses(e) BY <1>11, <1>end DEF RepairCloses
<1>12. CASE RepairErrs(e) BY <1>12, <1>end DEF RepairErrs
<1> QED BY <1>4, <1>5, <1>6, <1>7, <1>8, <1>9, <1>10, <1>11, <1>12 DEF Edit

LEMMA ServerPartyShape == Shape /\ ServerParty => Shape'
<1> SUFFICES ASSUME Shape, NEW s \in Servers, PlainStep(s) \/ Hook(s) PROVE Shape'
  BY DEF ServerParty, KbServer
<1> USE DEF Shape
<1>1. DispatchShape' /\ UNCHANGED <<dp, made, link, leg>>
  BY DEF PlainStep, kbOnly, Hook, HookSkips, HookMakesPage, HookIndexes, HookCloses, HookErrs,
         HookRejects, HookFails, hookOnly, DispatchShape
<1>2. EditTyped' /\ EditShape'
  BY DEF PlainStep, kbOnly, Hook, HookSkips, HookMakesPage, HookIndexes, HookCloses, HookErrs,
         HookRejects, HookFails, hookOnly, EditTyped, EditShape
<1>3. aij' \in [Dispatches -> {"none", "PROCESSING", "COMPLETED", "FAILED", "CANCELLED"}]
  BY DEF PlainStep, kbOnly, Hook, HookSkips, HookMakesPage, HookIndexes, HookCloses, HookErrs,
         HookRejects, HookFails, SetAij, DispatchTyped
<1>4. HookTyped'
  BY DEF PlainStep, kbOnly, Hook, HookSkips, HookMakesPage, HookIndexes, HookCloses, HookErrs,
         HookRejects, HookFails, HookTyped
<1> QED BY <1>1, <1>2, <1>3, <1>4 DEF DispatchTyped

LEMMA CrashPartyShape == Shape /\ CrashParty => Shape'
<1> SUFFICES ASSUME Shape, NEW s \in Servers, KbCrash(s) PROVE Shape'
  BY DEF CrashParty
<1> USE DEF Shape
<1>1. HookTyped' BY DEF KbCrash, HookTyped
<1>2. DispatchTyped' BY DEF KbCrash, DispatchTyped
<1>3. DispatchShape' BY DEF KbCrash, DispatchShape, DispatchTyped
<1>4. EditTyped' BY DEF KbCrash, EditTyped, NotSeen
<1>5. EditShape' BY DEF KbCrash, EditShape, EditTyped
<1> QED BY <1>1, <1>2, <1>3, <1>4, <1>5

LEMMA ShapeStep == Shape /\ TypeOK /\ [KbNext]_kbVars => Shape'
<1> SUFFICES ASSUME Shape, TypeOK, [KbNext]_kbVars PROVE Shape'
  OBVIOUS
<1>1. CASE UNCHANGED kbOnly
  BY <1>1 DEF kbOnly, Shape, DispatchTyped, HookTyped, EditTyped, DispatchShape, EditShape
<1>2. RequestParty \/ UNCHANGED kbVars => UNCHANGED kbOnly
  BY DEF RequestParty, JobRequest, kbVars
<1> QED BY <1>1, <1>2, Parties, DispatchPartyShape, EditPartyShape, ServerPartyShape,
           CrashPartyShape

-----------------------------------------------------------------------------
(* The queue is the queue of OcrJobs *)

LEMMA KbStepIsStep == Shape /\ [KbNext]_kbVars => [Next]_vars
<1> SUFFICES ASSUME Shape, [KbNext]_kbVars PROVE Next \/ UNCHANGED vars
  OBVIOUS
<1>1. ASSUME NEW d \in Dispatches, Dispatch(d) \/ LegRead(d) \/ LegFlip(d) \/ LegJob(d)
      PROVE  Next \/ UNCHANGED vars
  <2>1. CASE InsertJob(d) BY <2>1 DEF InsertJob, Next, Request
  <2>2. CASE LegJob(d)
    <3>1. link[d] \in Jobs BY <2>2 DEF LegJob, Shape, DispatchShape
    <3> QED BY <2>2, <3>1 DEF LegJob, Next, Request
  <2>3. CASE InsertAij(d) \/ CopyFails(d) \/ LinkJob(d) \/ AttachDraft(d) \/ LegRead(d) \/ LegFlip(d)
    BY <2>3 DEF InsertAij, CopyFails, LinkJob, AttachDraft, LegRead, LegFlip
  <2> QED BY <1>1, <2>1, <2>2, <2>3 DEF Dispatch
<1>2. ASSUME NEW e \in Editors, Edit(e) \/ \E j \in Jobs : EditRead(e, j)
      PROVE  Next \/ UNCHANGED vars
  <2>1. CASE ReviewWrites(e) \/ RepairWrites(e)
    <3>1. edJob[e] \in Jobs BY <2>1 DEF ReviewWrites, RepairWrites, Shape, EditShape
    <3>2. StoreResult(edJob[e]) BY <2>1 DEF ReviewWrites, RepairWrites
    <3> QED BY <3>1, <3>2 DEF Next, Request
  <2>2. CASE ~(ReviewWrites(e) \/ RepairWrites(e))
    BY <1>2, <2>2 DEF Edit, EditLost, RepairChecks, RepairMakesPage, RepairIndexes,
                      RepairCloses, RepairErrs, EditRead
  <2> QED BY <2>1, <2>2
<1>3. ASSUME NEW s \in Servers, PlainStep(s) \/ Hook(s) PROVE Next \/ UNCHANGED vars
  BY <1>3 DEF PlainStep, Hook, HookSkips, HookMakesPage, HookIndexes, HookCloses, HookErrs,
              HookRejects, HookFails, Next, Pipeline
<1>4. RequestParty => Next
  BY DEF RequestParty, JobRequest, Next, Request
<1>5. CrashParty => Next
  BY DEF CrashParty, KbCrash, Next
<1>6. CASE UNCHANGED kbVars
  BY <1>6 DEF kbVars, vars
<1> QED BY <1>1, <1>2, <1>3, <1>4, <1>5, <1>6, Parties
        DEF DispatchParty, EditParty, ServerParty, KbServer

\* The variables always have their types and the imports their shape.
LEMMA ShapeInvariance == KbSpec => [](Shape /\ TypeOK)
<1>1. KbInit => Shape /\ TypeOK
  BY ShapeInit, IInvInit DEF KbInit, IInv
<1>2. Shape /\ TypeOK /\ [KbNext]_kbVars => Shape' /\ TypeOK'
  BY ShapeStep, KbStepIsStep, TypeStep
<1> QED BY <1>1, <1>2, PTL DEF KbSpec

\* The type invariant of the composition.
THEOREM KbTypeCorrect == KbSpec => []KbTypeOK
<1>1. Shape /\ TypeOK => KbTypeOK
  BY DEF Shape, DispatchTyped, HookTyped, EditTyped, KbTypeOK
<1> QED BY <1>1, ShapeInvariance, PTL

\* Dispatches, hooks, reviews, repairs and cancels of imports only do to the
\* job queue what OcrJobs says.
THEOREM ImportUsesQueue == KbSpec => Spec
<1>1. KbInit => Init
  BY DEF KbInit
<1> QED BY <1>1, ShapeInvariance, KbStepIsStep, PTL DEF KbSpec, Spec

\* Hence no two instances run the OcrJob of an import.
COROLLARY ImportOneRunner == KbSpec => []ExclusiveRun
BY ImportUsesQueue, OneRunner

-----------------------------------------------------------------------------
(* Honest completion *)

\* Whoever is about to index or close has made its page.
HookHasPage ==
  \A s \in Servers : hook[s] # "off" => pc[s] = "approve" /\ pages[cur[s]] > 0

EditHasPage ==
  \A e \in Editors : ed[e] \in {"index", "close"} => pages[edJob[e]] > 0

PInv == Shape /\ TypeOK /\ HookHasPage /\ EditHasPage /\ NoHollowCompletion

\* A link, once set, stays, and no step takes a page away.
LEMMA Monotone ==
  ASSUME Shape, [KbNext]_kbVars
  PROVE  /\ \A d \in Dispatches : link[d] # None => link'[d] = link[d]
         /\ \A j \in Jobs : pages'[j] >= pages[j]
<1>1. \A d \in Dispatches : link[d] # None => link'[d] = link[d]
  <2>1. CASE DispatchParty
    <3>1. PICK d \in Dispatches : Dispatch(d) \/ LegRead(d) \/ LegFlip(d) \/ LegJob(d)
      BY <2>1 DEF DispatchParty
    <3>2. CASE LinkJob(d)
      BY <3>2 DEF LinkJob, Shape, DispatchShape, DispatchTyped
    <3>3. CASE ~LinkJob(d)
      BY <3>1, <3>3 DEF Dispatch, InsertAij, CopyFails, InsertJob, AttachDraft, LegRead,
                        LegFlip, LegJob, dispatchOnly, legOnly
    <3> QED BY <3>2, <3>3
  <2>2. CASE EditParty
    BY <2>2 DEF EditParty, Edit, EditLost, ReviewWrites, RepairWrites, RepairChecks,
                RepairMakesPage, RepairIndexes, RepairCloses, RepairErrs, EditRead, edOnly
  <2>3. CASE ServerParty
    BY <2>3 DEF ServerParty, KbServer, PlainStep, kbOnly, Hook, HookSkips, HookMakesPage,
                HookIndexes, HookCloses, HookErrs, HookRejects, HookFails, hookOnly
  <2>4. CASE RequestParty \/ CrashParty \/ UNCHANGED kbVars
    BY <2>4 DEF RequestParty, JobRequest, CrashParty, KbCrash, kbVars, kbOnly
  <2> QED BY <2>1, <2>2, <2>3, <2>4, Parties
<1>2. \/ UNCHANGED pages
      \/ \E j \in Jobs \cup {None} : pages' = [pages EXCEPT ![j] = @ + 1]
  <2>1. CASE DispatchParty
    BY <2>1 DEF DispatchParty, Dispatch, InsertAij, CopyFails, InsertJob, LinkJob, AttachDraft,
                LegRead, LegFlip, LegJob, dispatchOnly, legOnly
  <2>2. CASE EditParty
    <3>1. PICK e \in Editors : Edit(e) \/ \E j \in Jobs : EditRead(e, j)
      BY <2>2 DEF EditParty
    <3>2. CASE RepairMakesPage(e)
      BY <3>2 DEF RepairMakesPage, Shape, EditTyped
    <3>3. CASE ~RepairMakesPage(e)
      BY <3>1, <3>3 DEF Edit, EditLost, ReviewWrites, RepairWrites, RepairChecks,
                        RepairIndexes, RepairCloses, RepairErrs, EditRead
    <3> QED BY <3>2, <3>3
  <2>3. CASE ServerParty
    <3>1. PICK s \in Servers : PlainStep(s) \/ Hook(s)
      BY <2>3 DEF ServerParty, KbServer
    <3>2. CASE HookMakesPage(s)
      <4>1. pages' = [pages EXCEPT ![cur[s]] = @ + 1] BY <3>2 DEF HookMakesPage
      <4>2. cur[s] \in Jobs \/ pages' = pages
        BY <4>1 DEF Shape, HookTyped
      <4> QED BY <4>1, <4>2
    <3>3. CASE ~HookMakesPage(s)
      BY <3>1, <3>3 DEF PlainStep, kbOnly, Hook, HookSkips, HookIndexes, HookCloses, HookErrs,
                        HookRejects, HookFails
    <3> QED BY <3>2, <3>3
  <2>4. CASE RequestParty \/ CrashParty \/ UNCHANGED kbVars
    BY <2>4 DEF RequestParty, JobRequest, CrashParty, KbCrash, kbVars, kbOnly
  <2> QED BY <2>1, <2>2, <2>3, <2>4, Parties
<1>3. \A j \in Jobs : pages'[j] >= pages[j]
  BY <1>2 DEF Shape, HookTyped
<1> QED BY <1>1, <1>3

LEMMA PInvInit == KbInit => PInv
<1> SUFFICES ASSUME KbInit PROVE PInv
  OBVIOUS
<1>1. TypeOK
  BY IInvInit DEF KbInit, IInv
<1> QED BY <1>1, ShapeInit DEF KbInit, PInv, HookHasPage, EditHasPage, NoHollowCompletion

\* A hook has its page while it indexes and closes: its instance stays put.
LEMMA HookStep == PInv /\ Shape' /\ [KbNext]_kbVars => HookHasPage'
<1> SUFFICES ASSUME PInv, Shape', [KbNext]_kbVars,
                    NEW t \in Servers, hook'[t] # "off"
             PROVE  pc'[t] = "approve" /\ pages'[cur'[t]] > 0
  BY DEF HookHasPage
<1> USE DEF PInv
<1> TypeOK /\ RunsOK BY TypeParts
<1>keep. ASSUME hook[t] # "off", pc'[t] = pc[t], cur'[t] = cur[t]
         PROVE  pc'[t] = "approve" /\ pages'[cur'[t]] > 0
  <2>1. pc[t] = "approve" /\ pages[cur[t]] > 0
    BY <1>keep DEF HookHasPage
  <2>2. cur[t] \in Jobs
    BY <2>1, HasJob
  <2>3. pages'[cur[t]] >= pages[cur[t]] /\ pages[cur[t]] \in Nat /\ pages'[cur[t]] \in Nat
    BY <2>2, Monotone DEF Shape, HookTyped
  <2> QED BY <1>keep, <2>1, <2>3
<1>1. CASE DispatchParty \/ EditParty \/ RequestParty \/ UNCHANGED kbVars
  <2>1. UNCHANGED hook
    BY <1>1 DEF DispatchParty, Dispatch, InsertAij, CopyFails, InsertJob, LinkJob, AttachDraft,
                LegRead, LegFlip, LegJob, dispatchOnly, legOnly, EditParty, Edit, EditLost,
                ReviewWrites, RepairWrites, RepairChecks, RepairMakesPage, RepairIndexes,
                RepairCloses, RepairErrs, EditRead, edOnly, RequestParty, JobRequest, kbVars,
                kbOnly
  <2>2. UNCHANGED <<pc, cur>>
    BY <1>1 DEF DispatchParty, Dispatch, InsertAij, CopyFails, InsertJob, LinkJob, AttachDraft,
                LegRead, LegFlip, LegJob, EditParty, Edit, EditLost, ReviewWrites,
                RepairWrites, RepairChecks, RepairMakesPage, RepairIndexes, RepairCloses,
                RepairErrs, EditRead, RequestParty, JobRequest, kbVars, vars, Create,
                CancelRead, CancelWrite, Delete, StoreResult, runVars
  <2> QED BY <2>1, <2>2, <1>keep
<1>2. ASSUME NEW s \in Servers, PlainStep(s) PROVE pc'[t] = "approve" /\ pages'[cur'[t]] > 0
  <2>1. UNCHANGED hook
    BY <1>2 DEF PlainStep, kbOnly
  <2>2. t # s
    BY <1>2, <2>1 DEF PlainStep, Scheduler, Tick, Pick, Claim, Setup, Hash, Dedup, Start,
                      CheckCancelled, Work, Save, Fail, HookHasPage
  <2>3. pc'[t] = pc[t] /\ cur'[t] = cur[t]
    BY <1>2, <2>2 DEF PlainStep, Scheduler, Tick, Pick, Claim, Setup, Hash, Dedup, Start,
                      CheckCancelled, Work, Save, Fail, GoTo, Return, Throw, RunsOK
  <2> QED BY <2>1, <2>3, <1>keep
<1>3. ASSUME NEW s \in Servers, HookMakesPage(s) \/ HookIndexes(s)
      PROVE  pc'[t] = "approve" /\ pages'[cur'[t]] > 0
  <2>1. UNCHANGED <<pc, cur>> /\ \A u \in Servers \ {s} : hook'[u] = hook[u]
    BY <1>3 DEF HookMakesPage, HookIndexes, vars, Shape, HookTyped
  <2>2. CASE HookMakesPage(s) /\ t = s
    <3>1. pc[s] = "approve" /\ pages' = [pages EXCEPT ![cur[s]] = @ + 1] /\ cur[s] \in Jobs
      BY <2>2, HasJob DEF HookMakesPage
    <3> QED BY <2>1, <2>2, <3>1 DEF Shape, HookTyped
  <2>3. CASE HookIndexes(s) \/ t # s
    BY <2>1, <2>3, <1>keep DEF HookIndexes
  <2> QED BY <1>3, <2>2, <2>3
<1>4. ASSUME NEW s \in Servers,
             \/ HookSkips(s) \/ HookCloses(s) \/ HookErrs(s) \/ HookRejects(s) \/ HookFails(s)
             \/ KbCrash(s)
      PROVE  pc'[t] = "approve" /\ pages'[cur'[t]] > 0
  <2>1. Return(s)
    BY <1>4 DEF HookSkips, HookCloses, HookErrs, HookRejects, HookFails, KbCrash, Approve,
                Report, Crash
  <2>2. hook'[s] = "off" /\ \A u \in Servers \ {s} : hook'[u] = hook[u]
    BY <1>4 DEF HookSkips, HookCloses, HookErrs, HookRejects, HookFails, KbCrash, Approve,
                Report, Shape, HookTyped, HookHasPage
  <2>3. pc'[t] = pc[t] /\ cur'[t] = cur[t]
    BY <2>1, <2>2, ReturnDrops
  <2> QED BY <2>2, <2>3, <1>keep
<1> QED BY <1>1, <1>2, <1>3, <1>4, Parties DEF ServerParty, KbServer, Hook, CrashParty

\* So has a repair.
LEMMA EditStep == PInv /\ Shape' /\ [KbNext]_kbVars => EditHasPage'
<1> SUFFICES ASSUME PInv, Shape', [KbNext]_kbVars,
                    NEW f \in Editors, ed'[f] \in {"index", "close"}
             PROVE  pages'[edJob'[f]] > 0
  BY DEF EditHasPage
<1> USE DEF PInv
<1>keep. ASSUME ed[f] \in {"index", "close"}, edJob'[f] = edJob[f]
         PROVE  pages'[edJob'[f]] > 0
  <2>1. edJob[f] \in Jobs /\ pages[edJob[f]] > 0
    BY <1>keep DEF EditHasPage, Shape, EditShape
  <2>2. /\ pages'[edJob[f]] >= pages[edJob[f]]
        /\ pages[edJob[f]] \in Nat /\ pages'[edJob[f]] \in Nat
    BY <2>1, Monotone DEF Shape, HookTyped
  <2> QED BY <1>keep, <2>1, <2>2
<1>1. CASE DispatchParty \/ ServerParty \/ RequestParty \/ UNCHANGED kbVars
  <2>1. UNCHANGED <<ed, edJob>>
    BY <1>1 DEF DispatchParty, Dispatch, InsertAij, CopyFails, InsertJob, LinkJob, AttachDraft,
                LegRead, LegFlip, LegJob, dispatchOnly, legOnly, ServerParty, KbServer,
                PlainStep, kbOnly, Hook, HookSkips, HookMakesPage, HookIndexes, HookCloses,
                HookErrs, HookRejects, HookFails, hookOnly, RequestParty, JobRequest, kbVars
  <2> QED BY <2>1, <1>keep
<1>2. CASE CrashParty
  <2>1. ed[f] \in {"index", "close"} /\ edJob'[f] = edJob[f]
    BY <1>2 DEF CrashParty, KbCrash, Shape, EditTyped
  <2> QED BY <2>1, <1>keep
<1>3. ASSUME NEW e \in Editors, Edit(e) \/ \E j \in Jobs : EditRead(e, j)
      PROVE  pages'[edJob'[f]] > 0
  <2>1. CASE f # e
    <3>1. ed'[f] = ed[f] /\ edJob'[f] = edJob[f]
      BY <1>3, <2>1 DEF Edit, EditLost, ReviewWrites, RepairWrites, RepairChecks,
                        RepairMakesPage, RepairIndexes, RepairCloses, RepairErrs, EditRead,
                        EditEnds, Shape, EditTyped
    <3> QED BY <3>1, <1>keep
  <2>2. CASE f = e /\ RepairMakesPage(e)
    <3>1. /\ edJob' = edJob /\ edJob[e] \in Jobs
          /\ pages' = [pages EXCEPT ![edJob[e]] = @ + 1]
      BY <2>2 DEF RepairMakesPage, Shape, EditShape
    <3> QED BY <2>2, <3>1 DEF Shape, HookTyped
  <2>3. CASE f = e /\ RepairIndexes(e)
    BY <2>3, <1>keep DEF RepairIndexes
  <2>4. CASE f = e /\ ~RepairMakesPage(e) /\ ~RepairIndexes(e)
    <3>1. ed'[e] \notin {"index", "close"}
      BY <1>3, <2>4 DEF Edit, EditLost, ReviewWrites, RepairWrites, RepairChecks,
                        RepairCloses, RepairErrs, EditRead, EditEnds, Shape, EditTyped
    <3> QED BY <2>4, <3>1
  <2> QED BY <2>1, <2>2, <2>3, <2>4
<1> QED BY <1>1, <1>2, <1>3, Parties DEF EditParty

\* Only a hook that closes writes COMPLETED.
LEMMA CompletionStep == PInv /\ Shape' /\ [KbNext]_kbVars => NoHollowCompletion'
<1> SUFFICES ASSUME PInv, Shape', [KbNext]_kbVars,
                    NEW d \in Dispatches, aij'[d] = "COMPLETED"
             PROVE  link'[d] # None /\ pages'[link'[d]] > 0
  BY DEF NoHollowCompletion
<1> USE DEF PInv
<1>keep. ASSUME link[d] \in Jobs, pages[link[d]] > 0
         PROVE  link'[d] # None /\ pages'[link'[d]] > 0
  <2>1. link'[d] = link[d]
    BY <1>keep, Monotone, NoneFresh
  <2>2. /\ pages'[link[d]] >= pages[link[d]]
        /\ pages[link[d]] \in Nat /\ pages'[link[d]] \in Nat
    BY <1>keep, Monotone DEF Shape, HookTyped
  <2> QED BY <1>keep, <2>1, <2>2, NoneFresh
<1>was. ASSUME aij[d] = "COMPLETED" PROVE link'[d] # None /\ pages'[link'[d]] > 0
  BY <1>was, <1>keep DEF NoHollowCompletion, Shape, DispatchTyped
<1>1. ASSUME NEW c \in Dispatches, Dispatch(c) \/ LegRead(c) \/ LegFlip(c) \/ LegJob(c)
      PROVE  aij[d] = "COMPLETED"
  BY <1>1 DEF Dispatch, InsertAij, CopyFails, InsertJob, LinkJob, AttachDraft, LegRead,
              LegFlip, LegJob, SetAij, Shape, DispatchTyped
<1>2. ASSUME NEW e \in Editors, Edit(e) \/ \E j \in Jobs : EditRead(e, j)
      PROVE  link'[d] # None /\ pages'[link'[d]] > 0
  <2>1. CASE RepairCloses(e)
    <3>1. PICK c \in Linked(edJob[e]) : SetAij(c, "COMPLETED")
      BY <2>1 DEF RepairCloses
    <3>2. c # d => aij[d] = "COMPLETED"
      BY <3>1 DEF SetAij, Shape, DispatchTyped, Linked
    <3>3. c = d => link[d] \in Jobs /\ pages[link[d]] > 0
      BY <2>1, <3>1 DEF RepairCloses, Linked, EditHasPage, Shape, EditShape
    <3> QED BY <3>2, <3>3, <1>keep, <1>was
  <2>2. CASE ~RepairCloses(e)
    <3>1. aij' = aij
      BY <1>2, <2>2 DEF Edit, EditLost, ReviewWrites, RepairWrites, RepairChecks,
                        RepairMakesPage, RepairIndexes, RepairErrs, EditRead
    <3> QED BY <3>1, <1>was
  <2> QED BY <2>1, <2>2
<1>3. ASSUME NEW s \in Servers, PlainStep(s) \/ Hook(s)
      PROVE  link'[d] # None /\ pages'[link'[d]] > 0
  <2>1. CASE HookCloses(s)
    <3>1. PICK c \in Linked(cur[s]) : SetAij(c, "COMPLETED")
      BY <2>1 DEF HookCloses
    <3>2. c # d => aij[d] = "COMPLETED"
      BY <3>1 DEF SetAij, Shape, DispatchTyped, Linked
    <3>3. c = d => link[d] \in Jobs /\ pages[link[d]] > 0
      BY <2>1, <3>1, HasJob, TypeParts DEF HookCloses, Linked, HookHasPage
    <3> QED BY <3>2, <3>3, <1>keep, <1>was
  <2>2. CASE ~HookCloses(s)
    <3>1. aij[d] = "COMPLETED"
      BY <1>3, <2>2 DEF PlainStep, kbOnly, Hook, HookSkips, HookMakesPage, HookIndexes,
                        HookErrs, HookRejects, HookFails, SetAij, Shape, DispatchTyped
    <3> QED BY <3>1, <1>was
  <2> QED BY <2>1, <2>2
<1>4. CASE RequestParty \/ CrashParty \/ UNCHANGED kbVars
  <2>1. aij' = aij
    BY <1>4 DEF RequestParty, JobRequest, CrashParty, KbCrash, kbVars, kbOnly
  <2> QED BY <2>1, <1>was
<1> QED BY <1>1, <1>2, <1>3, <1>4, <1>was, Parties
        DEF DispatchParty, EditParty, ServerParty, KbServer

\* An import that reports success is linked to a job, and a page was made from
\* that job, whoever wrote the AIJ last and whatever crashed on the way.
THEOREM CompletionIsHonest == KbSpec => []NoHollowCompletion
<1>1. PInv /\ [KbNext]_kbVars => PInv'
  BY ShapeStep, KbStepIsStep, TypeStep, HookStep, EditStep, CompletionStep DEF PInv
<1>2. PInv => NoHollowCompletion
  BY DEF PInv
<1> QED BY <1>1, <1>2, PInvInit, PTL DEF KbSpec

-----------------------------------------------------------------------------
(* Who may write an AIJ *)

\* An AIJ without a link is open: nobody but its dispatch can find it.
OpenUntilLinked ==
  \A d \in Dispatches :
    /\ dp[d] = "idle" => aij[d] = "none"
    /\ dp[d] \in {"copy", "link"} => aij[d] = "PROCESSING"

\* An AIJ is written by its dispatch, by its cancel request, by the hook of the
\* instance that holds its job, or by a repair that closes.
LEMMA AijWriters ==
  ASSUME Shape, TypeOK, [KbNext]_kbVars, NEW d \in Dispatches, aij'[d] # aij[d]
  PROVE  \/ dp[d] = "idle" /\ InsertAij(d)
         \/ dp[d] = "copy" /\ CopyFails(d)
         \/ link[d] \in Jobs /\ LegFlip(d)
         \/ \E s \in Servers : /\ link[d] \in Jobs /\ Holds(s, link[d])
                               /\ HookCloses(s) \/ HookRejects(s) \/ HookFails(s)
         \/ \E e \in Editors : link[d] \in Jobs /\ link[d] = edJob[e] /\ RepairCloses(e)
<1> RunsOK BY TypeParts
<1>1. ASSUME NEW c \in Dispatches, Dispatch(c) \/ LegRead(c) \/ LegFlip(c) \/ LegJob(c)
      PROVE  \/ dp[d] = "idle" /\ InsertAij(d)
             \/ dp[d] = "copy" /\ CopyFails(d)
             \/ link[d] \in Jobs /\ LegFlip(d)
  <2>1. InsertAij(c) \/ CopyFails(c) \/ LegFlip(c)
    BY <1>1 DEF Dispatch, InsertJob, LinkJob, AttachDraft, LegRead, LegJob
  <2>2. c = d
    BY <2>1 DEF InsertAij, CopyFails, LegFlip, SetAij, Shape, DispatchTyped
  <2> QED BY <2>1, <2>2 DEF InsertAij, CopyFails, LegFlip, Shape, DispatchShape
<1>2. ASSUME NEW e \in Editors, Edit(e) \/ \E j \in Jobs : EditRead(e, j)
      PROVE  link[d] \in Jobs /\ link[d] = edJob[e] /\ RepairCloses(e)
  <2>1. RepairCloses(e)
    BY <1>2 DEF Edit, EditLost, ReviewWrites, RepairWrites, RepairChecks, RepairMakesPage,
                RepairIndexes, RepairErrs, EditRead
  <2>2. d \in Linked(edJob[e])
    BY <2>1 DEF RepairCloses, SetAij, Shape, DispatchTyped, Linked
  <2> QED BY <2>1, <2>2 DEF Linked, RepairCloses, Shape, EditShape
<1>3. ASSUME NEW s \in Servers, PlainStep(s) \/ Hook(s)
      PROVE  /\ link[d] \in Jobs /\ Holds(s, link[d])
             /\ HookCloses(s) \/ HookRejects(s) \/ HookFails(s)
  <2>1. HookCloses(s) \/ HookRejects(s) \/ HookFails(s)
    BY <1>3 DEF PlainStep, kbOnly, Hook, HookSkips, HookMakesPage, HookIndexes, HookErrs
  <2>2. link[d] = cur[s]
    BY <2>1 DEF HookCloses, HookRejects, HookFails, SetAij, Shape, DispatchTyped, Linked
  <2>3. pc[s] \in {"approve", "report"}
    BY <2>1 DEF HookCloses, HookRejects, HookFails, Approve
  <2> QED BY <2>1, <2>2, <2>3, HasJob DEF Holds, Running
<1>4. RequestParty \/ CrashParty \/ UNCHANGED kbVars => aij' = aij
  BY DEF RequestParty, JobRequest, CrashParty, KbCrash, kbVars, kbOnly
<1> QED BY <1>1, <1>2, <1>3, <1>4, Parties DEF DispatchParty, EditParty, ServerParty, KbServer

\* A dispatch moves on by its own steps only.
LEMMA DispatchMoves ==
  ASSUME Shape, [KbNext]_kbVars, NEW d \in Dispatches, dp'[d] # dp[d]
  PROVE  Dispatch(d) \/ dp'[d] = "lost"
<1>1. ASSUME NEW c \in Dispatches, Dispatch(c) \/ LegRead(c) \/ LegFlip(c) \/ LegJob(c)
      PROVE  Dispatch(d)
  BY <1>1 DEF Dispatch, InsertAij, CopyFails, InsertJob, LinkJob, AttachDraft, LegRead, LegFlip,
              LegJob, legOnly, Shape, DispatchTyped
<1>2. EditParty \/ ServerParty \/ RequestParty \/ UNCHANGED kbVars => dp' = dp
  BY DEF EditParty, Edit, EditLost, ReviewWrites, RepairWrites, RepairChecks, RepairMakesPage,
         RepairIndexes, RepairCloses, RepairErrs, EditRead, edOnly, ServerParty, KbServer,
         PlainStep, kbOnly, Hook, HookSkips, HookMakesPage, HookIndexes, HookCloses, HookErrs,
         HookRejects, HookFails, hookOnly, RequestParty, JobRequest, kbVars
<1>3. CrashParty => dp'[d] = "lost"
  BY DEF CrashParty, KbCrash, Shape, DispatchTyped
<1> QED BY <1>1, <1>2, <1>3, Parties DEF DispatchParty

LEMMA OpenStep == Shape /\ TypeOK /\ OpenUntilLinked /\ [KbNext]_kbVars => OpenUntilLinked'
<1> SUFFICES ASSUME Shape, TypeOK, OpenUntilLinked, [KbNext]_kbVars, NEW d \in Dispatches
             PROVE  /\ dp'[d] = "idle" => aij'[d] = "none"
                    /\ dp'[d] \in {"copy", "link"} => aij'[d] = "PROCESSING"
  BY DEF OpenUntilLinked
<1>1. CASE Dispatch(d)
  BY <1>1 DEF Dispatch, InsertAij, CopyFails, InsertJob, LinkJob, AttachDraft, SetAij, Shape,
              DispatchTyped, OpenUntilLinked
<1>2. CASE ~Dispatch(d)
  <2>1. dp'[d] = dp[d] \/ dp'[d] = "lost"
    BY <1>2, DispatchMoves
  <2>2. dp[d] \in {"idle", "copy", "link"} => aij'[d] = aij[d]
    BY <1>2, AijWriters, NoneFresh DEF Dispatch, Shape, DispatchShape
  <2> QED BY <2>1, <2>2 DEF OpenUntilLinked
<1> QED BY <1>1, <1>2

LEMMA OpenInvariance == KbSpec => [](Shape /\ TypeOK /\ OpenUntilLinked)
<1>1. KbInit => OpenUntilLinked
  BY DEF KbInit, OpenUntilLinked
<1> QED BY <1>1, OpenStep, ShapeInvariance, PTL DEF KbSpec

\* The hooks of one document never fail the import of another.
THEOREM FailuresAreOwn == KbSpec => FailureIsOwn
<1> DEFINE A == \A d \in Dispatches :
                  aij[d] # "FAILED" /\ aij'[d] = "FAILED"
                    => \/ dp[d] = "copy"
                       \/ \E s \in Servers : Holds(s, link[d])
<1>1. Shape /\ TypeOK /\ [KbNext]_kbVars => [A]_kbVars
  <2> SUFFICES ASSUME Shape, TypeOK, [KbNext]_kbVars, NEW d \in Dispatches,
                      aij[d] # "FAILED", aij'[d] = "FAILED"
               PROVE  dp[d] = "copy" \/ \E s \in Servers : Holds(s, link[d])
    OBVIOUS
  <2>1. ~InsertAij(d) /\ ~LegFlip(d)
    BY DEF InsertAij, LegFlip, SetAij, Shape, DispatchTyped
  <2>2. \A e \in Editors : ~RepairCloses(e)
    BY DEF RepairCloses, SetAij, Shape, DispatchTyped, Linked
  <2> QED BY <2>1, <2>2, AijWriters
<1> QED BY <1>1, ShapeInvariance, PTL DEF KbSpec, FailureIsOwn

-----------------------------------------------------------------------------
(* Closed imports *)

\* An import is closed by the hook of its job or by a later repair, so that a
\* closed import has its job at rest, and so has a repair in its hook.
ClosedAtRest ==
  \A d \in Dispatches :
    aij[d] \in {"COMPLETED", "FAILED"} /\ link[d] # None => AtRest(link[d])

RepairAtRest ==
  \A e \in Editors : ed[e] \in {"page", "index", "close"} => AtRest(edJob[e])

RInv == Shape /\ IInv /\ OpenUntilLinked /\ ClosedAtRest /\ RepairAtRest

\* A job at rest stays so.
LEMMA RestStays ==
  ASSUME IInv, [Next]_vars, NEW j \in Jobs, AtRest(j)
  PROVE  AtRest(j)'
<1> TypeOK /\ RunsOK BY TypeParts DEF IInv
<1>0. TypeOK'
  BY TypeStep
<1>1. status'[j] \notin {"none", "PENDING"}
  BY IInvStep DEF AtRest, RowStep
<1>2. \A t \in Servers : ~Holds(t, j)
  BY DEF AtRest, Held
<1>3. NoNewHold => \A t \in Servers : ~Holds(t, j)'
  BY <1>2 DEF NoNewHold
<1>4. ASSUME NEW k \in Jobs, Request(k) PROVE NoNewHold
  BY <1>4, RequestStep, SameHolds DEF IInv
<1>5. ASSUME NEW s \in Servers, Tick(s) \/ Crash(s) \/ Pick(s) \/ Pipeline(s) PROVE NoNewHold
  BY <1>0, <1>5, OtherSteps, PickStep, PipelineKeeps
<1>6. ASSUME NEW s \in Servers, Claim(s) PROVE \A t \in Servers : ~Holds(t, j)'
  BY <1>0, <1>2, <1>6, ClaimStep DEF AtRest
<1>7. ASSUME UNCHANGED vars PROVE NoNewHold
  BY <1>7, SameHolds DEF vars
<1>8. \A t \in Servers : ~Holds(t, j)'
  <2>1. CASE \E s \in Servers : Claim(s)
    BY <1>6, <2>1
  <2>2. CASE ~\E s \in Servers : Claim(s)
    <3>1. NoNewHold
      BY <1>4, <1>5, <1>7, <2>2 DEF Next, Scheduler
    <3> QED BY <1>3, <3>1
  <2> QED BY <2>1, <2>2
<1> QED BY <1>1, <1>8 DEF AtRest, Held

\* The instance of a hook that returns leaves its job at rest.
LEMMA HookRests ==
  ASSUME IInv, IInv', NEW s \in Servers, NEW j \in Jobs, Holds(s, j), Return(s), RowStep
  PROVE  AtRest(j)'
<1> TypeOK /\ RunsOK BY TypeParts DEF IInv
<1>1. \A t \in Servers : Holds(t, j) => t = s
  BY DEF IInv, ExclusiveRun
<1>2. pc'[s] = "idle" /\ NoNewHold
  BY ReturnDrops
<1>3. \A t \in Servers : ~Holds(t, j)'
  BY <1>1, <1>2 DEF NoNewHold, Holds, Running
<1>4. status'[j] \notin {"none", "PENDING"}
  BY DEF RowStep, IInv, HeldNotWaiting
<1> QED BY <1>3, <1>4 DEF AtRest, Held

LEMMA ClosedStep == RInv /\ Shape' /\ [KbNext]_kbVars => ClosedAtRest'
<1> SUFFICES ASSUME RInv, Shape', [KbNext]_kbVars, NEW d \in Dispatches, NEW j \in Jobs,
                    aij'[d] \in {"COMPLETED", "FAILED"}, link'[d] = j
             PROVE  AtRest(j)'
  <2> SUFFICES ASSUME RInv, Shape', [KbNext]_kbVars, NEW d \in Dispatches,
                      aij'[d] \in {"COMPLETED", "FAILED"}, link'[d] # None
               PROVE  /\ link'[d] \notin Held'
                      /\ status'[link'[d]] \notin {"none", "PENDING"}
    BY DEF ClosedAtRest, AtRest
  <2>1. PICK j \in Jobs : link'[d] = j
    BY DEF Shape, DispatchTyped
  <2>2. AtRest(j)'
    BY <2>1
  <2> QED BY <2>1, <2>2 DEF AtRest
<1> USE DEF RInv
<1> TypeOK /\ RunsOK BY TypeParts DEF IInv
<1>0. [Next]_vars /\ IInv' /\ RowStep
  BY KbStepIsStep, IInvStep
<1>1. CASE aij'[d] = aij[d]
  <2>1. link[d] # None
    <3>1. link'[d] # link[d] => dp[d] = "link"
      <4>1. CASE DispatchParty
        BY <4>1 DEF DispatchParty, Dispatch, InsertAij, CopyFails, InsertJob, LinkJob, AttachDraft,
             LegRead, LegFlip, LegJob, dispatchOnly, legOnly, Shape, DispatchTyped
      <4>2. CASE EditParty \/ ServerParty \/ RequestParty \/ CrashParty \/ UNCHANGED kbVars
        BY <4>2 DEF EditParty, Edit, EditLost, ReviewWrites, RepairWrites, RepairChecks,
             RepairMakesPage, RepairIndexes, RepairCloses, RepairErrs, EditRead, edOnly,
             ServerParty, KbServer, PlainStep, kbOnly, Hook, HookSkips, HookMakesPage,
             HookIndexes, HookCloses, HookErrs, HookRejects, HookFails, hookOnly,
             RequestParty, JobRequest, kbVars, CrashParty, KbCrash
      <4> QED BY <4>1, <4>2, Parties
    <3> QED BY <1>1, <3>1, NoneFresh DEF OpenUntilLinked
  <2>2. link[d] = j
    BY <2>1, Monotone DEF Shape, DispatchTyped
  <2>3. AtRest(j)
    BY <1>1, <2>2, NoneFresh DEF ClosedAtRest
  <2> QED BY <1>0, <2>3, RestStays
<1>2. CASE aij'[d] # aij[d]
  <2>1. ~InsertAij(d) /\ ~LegFlip(d)
    BY DEF InsertAij, LegFlip, SetAij, Shape, DispatchTyped
  <2>2. ~CopyFails(d)
    BY NoneFresh DEF CopyFails, dispatchOnly, Shape, DispatchShape
  <2>3. ASSUME NEW s \in Servers, link[d] \in Jobs, Holds(s, link[d]),
               HookCloses(s) \/ HookRejects(s) \/ HookFails(s)
        PROVE  AtRest(j)'
    <3>1. Return(s) /\ link[d] = j
      BY <2>3 DEF HookCloses, HookRejects, HookFails, Approve, Report, hookOnly
    <3>2. Holds(s, j)
      BY <2>3, <3>1
    <3> QED BY <1>0, <3>1, <3>2, HookRests
  <2>4. ASSUME NEW e \in Editors, link[d] \in Jobs, link[d] = edJob[e], RepairCloses(e)
        PROVE  AtRest(j)'
    <3>1. edJob[e] = j
      BY <2>4 DEF RepairCloses, edOnly
    <3>2. AtRest(j)
      BY <2>4, <3>1 DEF RepairCloses, RepairAtRest
    <3> QED BY <1>0, <3>2, RestStays
  <2> QED BY <1>2, <2>1, <2>2, <2>3, <2>4, AijWriters
<1> QED BY <1>1, <1>2

\* A repair goes on to the page of an import only while that is FAILED.
LEMMA RepairEntry ==
  ASSUME Shape, [KbNext]_kbVars, NEW f \in Editors, ed'[f] \in {"page", "index", "close"}
  PROVE  /\ edJob'[f] = edJob[f] /\ edJob[f] \in Jobs
         /\ \/ ed[f] \in {"page", "index", "close"}
            \/ ed[f] = "hook" /\ \E d \in Linked(edJob[f]) : aij[d] = "FAILED"
<1>1. CASE EditParty
  <2>1. PICK e \in Editors : Edit(e) \/ \E j \in Jobs : EditRead(e, j)
    BY <1>1 DEF EditParty
  <2>2. CASE f # e
    BY <2>1, <2>2 DEF Edit, EditLost, ReviewWrites, RepairWrites, RepairChecks,
                      RepairMakesPage, RepairIndexes, RepairCloses, RepairErrs, EditRead,
                      EditEnds, Shape, EditTyped, EditShape
  <2>3. CASE f = e
    BY <2>1, <2>3 DEF Edit, EditLost, ReviewWrites, RepairWrites, RepairChecks,
                      RepairMakesPage, RepairIndexes, RepairCloses, RepairErrs, EditRead,
                      EditEnds, Shape, EditTyped, EditShape
  <2> QED BY <2>2, <2>3
<1>2. CASE DispatchParty \/ ServerParty \/ RequestParty \/ UNCHANGED kbVars
  <2>1. UNCHANGED <<ed, edJob>>
    BY <1>2 DEF DispatchParty, Dispatch, InsertAij, CopyFails, InsertJob, LinkJob,
              AttachDraft, LegRead, LegFlip, LegJob, dispatchOnly, legOnly, ServerParty,
              KbServer, PlainStep, kbOnly, Hook, HookSkips, HookMakesPage, HookIndexes,
              HookCloses, HookErrs, HookRejects, HookFails, hookOnly, RequestParty,
              JobRequest, kbVars
  <2> QED BY <2>1 DEF Shape, EditShape
<1>3. CASE CrashParty
  BY <1>3 DEF CrashParty, KbCrash, Shape, EditTyped, EditShape
<1> QED BY <1>1, <1>2, <1>3, Parties

LEMMA RepairStep == RInv /\ [KbNext]_kbVars => RepairAtRest'
<1> SUFFICES ASSUME RInv, [KbNext]_kbVars, NEW f \in Editors,
                    ed'[f] \in {"page", "index", "close"}
             PROVE  /\ edJob'[f] \notin Held'
                    /\ status'[edJob'[f]] \notin {"none", "PENDING"}
  BY DEF RepairAtRest, AtRest
<1> USE DEF RInv
<1>1. PICK j \in Jobs : j = edJob[f] /\ j = edJob'[f]
  BY RepairEntry
<1>2. AtRest(j)
  <2>1. CASE ed[f] \in {"page", "index", "close"}
    BY <1>1, <2>1 DEF RepairAtRest
  <2>2. CASE \E d \in Linked(j) : aij[d] = "FAILED"
    BY <2>2, NoneFresh DEF ClosedAtRest, Linked
  <2> QED BY <1>1, <2>1, <2>2, RepairEntry
<1>3. AtRest(j)'
  BY <1>2, KbStepIsStep, RestStays DEF IInv
<1> QED BY <1>1, <1>3 DEF AtRest

\* A job belongs to one import: the insert returns a new row.
SoleOwner ==
  /\ \A d \in Dispatches : made[d] # None => status[made[d]] # "none"
  /\ \A c, d \in Dispatches : made[c] = made[d] /\ made[c] # None => c = d
  /\ \A d \in Dispatches : link[d] # None => link[d] = made[d]

LEMMA OwnerStep == RInv /\ SoleOwner /\ [KbNext]_kbVars => SoleOwner'
<1> SUFFICES ASSUME RInv, SoleOwner, [KbNext]_kbVars PROVE SoleOwner'
  OBVIOUS
<1> USE DEF RInv
<1>1. RowStep
  BY KbStepIsStep, IInvStep
<1>2. \A j \in Jobs : status[j] # "none" => status'[j] # "none"
  BY <1>1 DEF RowStep
<1>3. ASSUME NEW c \in Dispatches, InsertJob(c) PROVE SoleOwner'
  <2>1. PICK j \in Jobs : Create(j) /\ made' = [made EXCEPT ![c] = j]
    BY <1>3 DEF InsertJob
  <2>2. status[j] = "none" /\ status'[j] # "none"
    BY <2>1 DEF Create, SetStatus, IInv, TypeOK
  <2>3. link' = link /\ link[c] = None
    BY <1>3 DEF InsertJob, dispatchOnly, Shape, DispatchShape
  <2> QED BY <1>2, <2>1, <2>2, <2>3, NoneFresh DEF SoleOwner, Shape, DispatchTyped
<1>4. ASSUME NEW c \in Dispatches, LinkJob(c) PROVE SoleOwner'
  BY <1>2, <1>4 DEF LinkJob, SoleOwner, Shape, DispatchTyped
<1>5. CASE UNCHANGED <<made, link>>
  BY <1>2, <1>5 DEF SoleOwner, Shape, DispatchTyped
<1>6. DispatchParty => \/ UNCHANGED <<made, link>>
                       \/ \E c \in Dispatches : InsertJob(c) \/ LinkJob(c)
  BY DEF DispatchParty, Dispatch, InsertAij, CopyFails, AttachDraft, LegRead, LegFlip, LegJob,
         dispatchOnly, legOnly
<1>7. EditParty \/ ServerParty \/ RequestParty \/ CrashParty \/ UNCHANGED kbVars
        => UNCHANGED <<made, link>>
  BY DEF EditParty, Edit, EditLost, ReviewWrites, RepairWrites, RepairChecks, RepairMakesPage,
         RepairIndexes, RepairCloses, RepairErrs, EditRead, edOnly, ServerParty, KbServer,
         PlainStep, kbOnly, Hook, HookSkips, HookMakesPage, HookIndexes, HookCloses, HookErrs,
         HookRejects, HookFails, hookOnly, RequestParty, JobRequest, kbVars, CrashParty, KbCrash
<1> QED BY <1>3, <1>4, <1>5, <1>6, <1>7, Parties

LEMMA RestInvariance == KbSpec => [](RInv /\ SoleOwner)
<1>1. KbInit => RInv /\ SoleOwner
  BY ShapeInit, IInvInit
  DEF KbInit, RInv, OpenUntilLinked, ClosedAtRest, RepairAtRest, SoleOwner
<1>2. RInv /\ SoleOwner /\ [KbNext]_kbVars => RInv' /\ SoleOwner'
  <2> SUFFICES ASSUME RInv, SoleOwner, [KbNext]_kbVars PROVE RInv' /\ SoleOwner'
    OBVIOUS
  <2>1. Shape' /\ IInv' /\ OpenUntilLinked'
    BY ShapeStep, KbStepIsStep, IInvStep, OpenStep DEF RInv, IInv
  <2> QED BY <2>1, ClosedStep, RepairStep, OwnerStep DEF RInv
<1> QED BY <1>1, <1>2, PTL DEF KbSpec

\* No repair takes up an import that is neither FAILED nor in repair.
LEMMA NoNewRepair ==
  ASSUME RInv, SoleOwner, [KbNext]_kbVars, NEW d \in Dispatches,
         link[d] # None, aij[d] # "FAILED", ~InRepair(d)
  PROVE  ~InRepair(d)'
<1> USE DEF RInv
<1> SUFFICES ASSUME NEW f \in Editors, edJob'[f] = link'[d],
                    ed'[f] \in {"page", "index", "close"}
             PROVE  FALSE
  BY DEF InRepair
<1>1. edJob[f] = link[d]
  BY RepairEntry, Monotone
<1>2. ed[f] \notin {"page", "index", "close"}
  BY <1>1 DEF InRepair
<1>3. PICK c \in Dispatches : link[c] = link[d] /\ aij[c] = "FAILED"
  BY <1>1, <1>2, RepairEntry DEF Linked
<1> QED BY <1>3 DEF SoleOwner

\* A completed import gets no second page and no further repair.
THEOREM CompletedImportHasOnePage == KbSpec => CompletedImportKeepsItsPage
<1> DEFINE A == \A d \in Dispatches :
                  aij[d] = "COMPLETED" /\ ~InRepair(d)
                    => ~InRepair(d)' /\ pages'[link[d]] = pages[link[d]]
<1>1. RInv /\ SoleOwner /\ NoHollowCompletion /\ [KbNext]_kbVars => [A]_kbVars
  <2> SUFFICES ASSUME RInv, SoleOwner, NoHollowCompletion, [KbNext]_kbVars,
                      NEW d \in Dispatches, aij[d] = "COMPLETED", ~InRepair(d)
               PROVE  ~InRepair(d)' /\ pages'[link[d]] = pages[link[d]]
    OBVIOUS
  <2> USE DEF RInv
  <2> TypeOK /\ RunsOK BY TypeParts DEF IInv
  <2>1. link[d] \in Jobs /\ AtRest(link[d])
    BY DEF NoHollowCompletion, ClosedAtRest, Shape, DispatchTyped
  <2>2. ~InRepair(d)'
    BY <2>1, NoneFresh, NoNewRepair
  <2> SUFFICES ASSUME pages'[link[d]] # pages[link[d]] PROVE FALSE
    BY <2>2
  <2>3. CASE DispatchParty
    BY <2>3 DEF DispatchParty, Dispatch, InsertAij, CopyFails, InsertJob, LinkJob, AttachDraft,
                LegRead, LegFlip, LegJob, dispatchOnly, legOnly
  <2>4. CASE EditParty
    <3>1. PICK e \in Editors : Edit(e) \/ \E j \in Jobs : EditRead(e, j)
      BY <2>4 DEF EditParty
    <3>2. CASE RepairMakesPage(e)
      <4>1. edJob[e] # link[d] /\ edJob[e] \in Jobs
        BY <3>2 DEF RepairMakesPage, InRepair, Shape, EditShape
      <4> QED BY <2>1, <3>2, <4>1 DEF RepairMakesPage, Shape, HookTyped
    <3>3. CASE ~RepairMakesPage(e)
      BY <3>1, <3>3 DEF Edit, EditLost, ReviewWrites, RepairWrites, RepairChecks,
                        RepairIndexes, RepairCloses, RepairErrs, EditRead
    <3> QED BY <3>2, <3>3
  <2>5. CASE ServerParty
    <3>1. PICK s \in Servers : PlainStep(s) \/ Hook(s)
      BY <2>5 DEF ServerParty, KbServer
    <3>2. CASE HookMakesPage(s)
      <4>1. cur[s] \in Jobs /\ cur[s] \in Held
        BY <3>2, HasJob DEF HookMakesPage, Held, Holds, Running
      <4>2. cur[s] # link[d]
        BY <2>1, <4>1 DEF AtRest
      <4> QED BY <2>1, <3>2, <4>1, <4>2 DEF HookMakesPage, Shape, HookTyped
    <3>3. CASE ~HookMakesPage(s)
      BY <3>1, <3>3 DEF PlainStep, kbOnly, Hook, HookSkips, HookIndexes, HookCloses, HookErrs,
                        HookRejects, HookFails
    <3> QED BY <3>2, <3>3
  <2>6. CASE RequestParty \/ CrashParty \/ UNCHANGED kbVars
    BY <2>6 DEF RequestParty, JobRequest, CrashParty, KbCrash, kbVars, kbOnly
  <2> QED BY <2>3, <2>4, <2>5, <2>6, Parties
<1> QED BY <1>1, RestInvariance, CompletionIsHonest, PTL
        DEF KbSpec, CompletedImportKeepsItsPage

\* A cancelled import whose job is over stays cancelled.
THEOREM CancelledImportIsFinal == KbSpec => CancelledImportStays
<1> DEFINE A == \A d \in Dispatches : SettledCancel(d) => SettledCancel(d)'
<1>1. RInv /\ SoleOwner /\ [KbNext]_kbVars => [A]_kbVars
  <2> SUFFICES ASSUME RInv, SoleOwner, [KbNext]_kbVars, NEW d \in Dispatches,
                      NEW j \in Jobs, link[d] = j, SettledCancel(d)
               PROVE  SettledCancel(d)'
    BY DEF RInv, Shape, DispatchTyped, SettledCancel
  <2> USE DEF RInv
  <2> TypeOK /\ RunsOK BY TypeParts DEF IInv
  <2>1. aij[d] = "CANCELLED" /\ AtRest(j) /\ ~InRepair(d) /\ link[d] # None
    BY DEF SettledCancel
  <2>2. link'[d] = j
    BY <2>1, Monotone
  <2>3. AtRest(j)'
    BY <2>1, KbStepIsStep, RestStays
  <2>4. ~InRepair(d)'
    BY <2>1, NoNewRepair
  <2>5. aij'[d] = "CANCELLED"
    <3> SUFFICES ASSUME aij'[d] # aij[d] PROVE FALSE
      BY <2>1
    <3>1. dp[d] \notin {"idle", "copy"}
      BY <2>1 DEF OpenUntilLinked
    <3>2. ~LegFlip(d)
      BY <2>1 DEF LegFlip, SetAij, Shape, DispatchTyped
    <3>3. \A e \in Editors : RepairCloses(e) => edJob[e] # link[d]
      BY <2>1 DEF RepairCloses, InRepair
    <3>4. \A s \in Servers : ~Holds(s, link[d])
      BY <2>1 DEF AtRest, Held
    <3> QED BY <3>1, <3>2, <3>3, <3>4, AijWriters
  <2>6. AtRest(link[d])'
    BY <2>2, <2>3 DEF AtRest
  <2>7. (link[d] # None)'
    BY <2>2, NoneFresh
  <2> QED BY <2>4, <2>5, <2>6, <2>7 DEF SettledCancel
<1> QED BY <1>1, RestInvariance, PTL DEF KbSpec, CancelledImportStays

-----------------------------------------------------------------------------
(* Pages are made once, or owed to a repair *)

\* The pipeline may still make the page of job j: no run of it began, or the
\* instance that runs it is not past its page.
Unpaged(j) ==
  \/ status[j] \in {"none", "PENDING"}
  \/ \E s \in Servers : Holds(s, j) /\ hook[s] = "off"

\* Requests that may still make a page.
Owed == {e \in Editors : ed[e] \in {"review", "repair", "hook", "page"}}

\* Of the pages of a job and the requests that may still make one, all but the
\* page of its pipeline are counted in edits.
Tally ==
  /\ IsFiniteSet(Owed)
  /\ \A j \in Jobs : pages[j] + Cardinality(Owed) <= edits + (IF Unpaged(j) THEN 0 ELSE 1)

\* A hook that is over has let go of its job.
LEMMA HookDrops ==
  ASSUME Shape, TypeOK, [KbNext]_kbVars, NEW s \in Servers, hook[s] # "off", hook'[s] = "off"
  PROVE  pc'[s] = "idle"
<1> RunsOK BY TypeParts
<1>1. ~(DispatchParty \/ EditParty \/ RequestParty \/ UNCHANGED kbVars)
  BY DEF DispatchParty, Dispatch, InsertAij, CopyFails, InsertJob, LinkJob, AttachDraft,
         LegRead, LegFlip, LegJob, dispatchOnly, legOnly, EditParty, Edit, EditLost,
         ReviewWrites, RepairWrites, RepairChecks, RepairMakesPage, RepairIndexes,
         RepairCloses, RepairErrs, EditRead, edOnly, RequestParty, JobRequest, kbVars, kbOnly
<1>2. PICK t \in Servers : PlainStep(t) \/ Hook(t) \/ KbCrash(t)
  BY <1>1, Parties DEF ServerParty, KbServer, CrashParty
<1>3. Return(t) /\ t = s
  BY <1>2 DEF PlainStep, kbOnly, Hook, HookSkips, HookMakesPage, HookIndexes, HookCloses, HookErrs,
              HookRejects, HookFails, KbCrash, Approve, Report, Crash, Shape, HookTyped
<1> QED BY <1>3, ReturnDrops

\* The pipeline of a job does not get a second page to make.
LEMMA UnpagedStays ==
  ASSUME RInv, PInv, [KbNext]_kbVars, NEW j \in Jobs, Unpaged(j)'
  PROVE  Unpaged(j)
<1> SUFFICES ASSUME ~Unpaged(j) PROVE FALSE
  OBVIOUS
<1> USE DEF RInv, PInv
<1>1. [Next]_vars /\ RowStep
  BY KbStepIsStep, IInvStep
<1>2. status[j] \notin {"none", "PENDING"} /\ status'[j] \notin {"none", "PENDING"}
  BY <1>1 DEF Unpaged, RowStep
<1>3. PICK s \in Servers : Holds(s, j)' /\ hook'[s] = "off"
  BY <1>2 DEF Unpaged
<1>4. Holds(s, j)
  BY <1>1, <1>2, <1>3, NewHolds
<1>5. hook[s] # "off"
  BY <1>4 DEF Unpaged
<1>6. pc'[s] = "idle"
  BY <1>3, <1>5, HookDrops
<1> QED BY <1>3, <1>6 DEF Holds, Running

\* What a step may do to the pages and to the requests that owe one.
LEMMA TallyMoves ==
  ASSUME Shape, [KbNext]_kbVars
  PROVE  \/ UNCHANGED <<pages, edits>> /\ Owed' \subseteq Owed
         \/ /\ UNCHANGED pages /\ edits' = edits + 1
            /\ \E e \in Editors : Owed' \subseteq Owed \cup {e}
         \/ \E e \in Editors : RepairMakesPage(e)
         \/ \E s \in Servers : HookMakesPage(s)
<1>1. CASE DispatchParty \/ RequestParty \/ UNCHANGED kbVars
  <2>1. UNCHANGED <<pages, edits, ed>>
    BY <1>1 DEF DispatchParty, Dispatch, InsertAij, CopyFails, InsertJob, LinkJob, AttachDraft,
                LegRead, LegFlip, LegJob, dispatchOnly, legOnly, RequestParty, JobRequest, kbVars, kbOnly
  <2> QED BY <2>1 DEF Owed
<1>2. CASE ServerParty
  <2>1. PICK s \in Servers : PlainStep(s) \/ Hook(s)
    BY <1>2 DEF ServerParty, KbServer
  <2>2. HookMakesPage(s) \/ UNCHANGED <<pages, edits, ed>>
    BY <2>1 DEF PlainStep, kbOnly, Hook, HookSkips, HookIndexes, HookCloses, HookErrs,
                HookRejects, HookFails, hookOnly
  <2> QED BY <2>2 DEF Owed
<1>3. CASE CrashParty
  <2>1. UNCHANGED <<pages, edits>> /\ \A f \in Editors : ed'[f] \in {"off", ed[f]}
    BY <1>3 DEF CrashParty, KbCrash
  <2> QED BY <2>1 DEF Owed
<1>4. ASSUME NEW e \in Editors, Edit(e) PROVE (UNCHANGED <<pages, edits>> /\ Owed' \subseteq Owed) \/ RepairMakesPage(e)
  <2>1. RepairMakesPage(e) \/ UNCHANGED <<pages, edits>>
    BY <1>4 DEF Edit, EditLost, ReviewWrites, RepairWrites, RepairChecks, RepairIndexes,
                RepairCloses, RepairErrs
  <2>2. \A f \in Editors \ {e} : ed'[f] = ed[f]
    BY <1>4 DEF Edit, EditLost, ReviewWrites, RepairWrites, RepairChecks, RepairMakesPage, RepairIndexes,
                RepairCloses, RepairErrs, EditEnds, Shape, EditTyped
  <2>3. e \in Owed' => e \in Owed
    BY <1>4 DEF Edit, EditLost, ReviewWrites, RepairWrites, RepairChecks, RepairMakesPage, RepairIndexes,
                RepairCloses, RepairErrs, EditEnds, Shape, EditTyped, Owed
  <2> QED BY <2>1, <2>2, <2>3 DEF Owed
<1>5. ASSUME NEW e \in Editors, NEW j \in Jobs, EditRead(e, j)
      PROVE  UNCHANGED pages /\ edits' = edits + 1 /\ Owed' \subseteq Owed \cup {e}
  BY <1>5 DEF EditRead, Owed, Shape, EditTyped
<1> QED BY <1>1, <1>2, <1>3, <1>4, <1>5, Parties DEF EditParty

LEMMA TallyStep == RInv /\ PInv /\ Tally /\ [KbNext]_kbVars => Tally'
<1> SUFFICES ASSUME RInv, PInv, Tally, [KbNext]_kbVars PROVE Tally'
  OBVIOUS
<1> USE DEF RInv, PInv
<1> TypeOK /\ RunsOK BY TypeParts DEF IInv
<1> DEFINE Open(j) == IF Unpaged(j) THEN 0 ELSE 1
<1>1. /\ IsFiniteSet(Owed) /\ Cardinality(Owed) \in Nat /\ edits \in Nat
      /\ \A j \in Jobs : pages[j] \in Nat
      /\ \A j \in Jobs : pages[j] + Cardinality(Owed) <= edits + Open(j)
  BY FS_CardinalityType, EditBounds DEF Tally, Shape, HookTyped, EditTyped
<1>2. \A j \in Jobs : Open(j) \in {0, 1} /\ Open(j)' \in {0, 1} /\ Open(j) <= Open(j)'
  BY UnpagedStays
<1>3. ASSUME NEW S, S \subseteq Owed
      PROVE  IsFiniteSet(S) /\ Cardinality(S) \in Nat /\ Cardinality(S) <= Cardinality(Owed)
  BY <1>1, <1>3, FS_Subset, FS_CardinalityType
<1>4. CASE UNCHANGED <<pages, edits>> /\ Owed' \subseteq Owed
  <2>1. IsFiniteSet(Owed') /\ Cardinality(Owed') \in Nat /\ Cardinality(Owed') <= Cardinality(Owed)
    BY <1>3, <1>4
  <2>2. \A j \in Jobs : pages'[j] + Cardinality(Owed') <= edits' + Open(j)'
    BY <1>1, <1>2, <1>4, <2>1
  <2> QED BY <2>1, <2>2 DEF Tally
<1>5. ASSUME NEW e \in Editors, UNCHANGED pages, edits' = edits + 1, Owed' \subseteq Owed \cup {e}
      PROVE  Tally'
  <2>1. /\ IsFiniteSet(Owed \cup {e}) /\ Cardinality(Owed \cup {e}) \in Nat
        /\ Cardinality(Owed \cup {e}) <= Cardinality(Owed) + 1
    <3>1. /\ IsFiniteSet(Owed \cup {e})
          /\ Cardinality(Owed \cup {e})
               = IF e \in Owed THEN Cardinality(Owed) ELSE Cardinality(Owed) + 1
      BY ONLY <1>1, FS_AddElement
    <3> QED BY ONLY <1>1, <3>1
  <2>2. /\ IsFiniteSet(Owed') /\ Cardinality(Owed') \in Nat
        /\ Cardinality(Owed') <= Cardinality(Owed \cup {e})
    BY <1>5, <2>1, FS_Subset, FS_CardinalityType
  <2>3. \A j \in Jobs : pages'[j] + Cardinality(Owed') <= edits' + Open(j)'
    BY <1>1, <1>2, <1>5, <2>1, <2>2
  <2> QED BY <2>2, <2>3 DEF Tally
<1>6. ASSUME NEW e \in Editors, RepairMakesPage(e) PROVE Tally'
  <2>1. /\ ed[e] = "page" /\ edJob[e] \in Jobs /\ edits' = edits
        /\ pages' = [pages EXCEPT ![edJob[e]] = @ + 1] /\ ed' = [ed EXCEPT ![e] = "index"]
    BY <1>6 DEF RepairMakesPage, Shape, EditShape
  <2>2. e \in Owed /\ Owed' = Owed \ {e}
    BY <2>1 DEF Owed, Shape, EditTyped
  <2>3. IsFiniteSet(Owed') /\ Cardinality(Owed') = Cardinality(Owed) - 1
    BY <1>1, <2>2, FS_RemoveElement
  <2>4. \A j \in Jobs : pages'[j] \in Nat /\ pages'[j] <= pages[j] + 1
    BY <1>1, <2>1 DEF Shape, HookTyped
  <2>5. \A j \in Jobs : pages'[j] + Cardinality(Owed') <= edits' + Open(j)'
    BY <1>1, <1>2, <2>1, <2>3, <2>4
  <2> QED BY <2>3, <2>5 DEF Tally
<1>7. ASSUME NEW s \in Servers, HookMakesPage(s) PROVE Tally'
  <2>1. PICK i \in Jobs : i = cur[s]
    BY <1>7, HasJob DEF HookMakesPage
  <2>2. /\ pc[s] = "approve" /\ hook[s] = "off" /\ UNCHANGED <<status, pc, cur, edits, ed>>
        /\ pages' = [pages EXCEPT ![i] = pages[i] + 1] /\ hook' = [hook EXCEPT ![s] = "index"]
    BY <1>7, <2>1 DEF HookMakesPage, hookOnly, vars
  <2>3. Holds(s, i) /\ Unpaged(i)
    BY <2>1, <2>2 DEF Holds, Running, Unpaged
  <2>4. ~Unpaged(i)'
    <3>1. status'[i] \notin {"none", "PENDING"}
      BY <2>2, <2>3 DEF IInv, HeldNotWaiting
    <3>2. \A t \in Servers : Holds(t, i)' => t = s
      BY <2>2, <2>3 DEF IInv, ExclusiveRun, Holds
    <3>3. hook'[s] = "index"
      BY <2>2 DEF Shape, HookTyped
    <3> QED BY <3>1, <3>2, <3>3 DEF Unpaged
  <2>5. Owed' = Owed
    BY <2>2 DEF Owed
  <2>6. pages'[i] = pages[i] + 1 /\ \A j \in Jobs \ {i} : pages'[j] = pages[j]
    BY <2>2 DEF Shape, HookTyped
  <2>7. \A j \in Jobs : pages'[j] + Cardinality(Owed') <= edits' + Open(j)'
    BY <1>1, <1>2, <2>2, <2>3, <2>4, <2>5, <2>6
  <2> QED BY <1>1, <2>5, <2>7 DEF Tally
<1> QED BY <1>4, <1>5, <1>6, <1>7, TallyMoves

\* However often the instances of a job crash and however many repairs of it run,
\* its pipeline makes at most one page of it, and every other page has a request
\* of its own that made it.
THEOREM PagesAreAccountedFor == KbSpec => []PagesOwedToRepairs
<1>1. KbInit => Tally
  <2> SUFFICES ASSUME KbInit PROVE Tally
    OBVIOUS
  <2>1. Owed = {} /\ edits = 0 /\ \A j \in Jobs : pages[j] = 0
    BY DEF KbInit, Owed
  <2> QED BY <2>1, FS_EmptySet DEF Tally
<1>2. PInv /\ [KbNext]_kbVars => PInv'
  BY ShapeStep, KbStepIsStep, TypeStep, HookStep, EditStep, CompletionStep DEF PInv
<1>3. RInv /\ PInv /\ Tally => PagesOwedToRepairs
  <2> SUFFICES ASSUME RInv, PInv, Tally, NEW j \in Jobs PROVE pages[j] <= 1 + edits
    BY DEF PagesOwedToRepairs
  <2>1. Cardinality(Owed) \in Nat /\ edits \in Nat /\ pages[j] \in Nat
    BY FS_CardinalityType, EditBounds DEF Tally, PInv, Shape, HookTyped, EditTyped
  <2> QED BY <2>1 DEF Tally
<1> QED BY <1>1, <1>2, <1>3, PInvInit, RestInvariance, TallyStep, PTL DEF KbSpec

==============================================================================
