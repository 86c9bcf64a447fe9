---------------------------- MODULE UploadDrafts ----------------------------
(***************************************************************************)
(* Upload drafts: files and URLs staged by a user and then assigned to the *)
(* workspace (RAG leg, a document) or to an archive (KB leg, an import     *)
(* job).  Each request is an async handler that reads the draft once and   *)
(* works from that copy; the two legs of a dispatch run concurrently; the  *)
(* daily reaper works from a list.  Every write is by id.  What becomes of *)
(* a document or an import job is the business of Documents and KbImport:  *)
(* here it is worked on until it ends.                                     *)
(***************************************************************************)
EXTENDS Naturals, FiniteSets

CONSTANTS
  Drafts,    \* drafts that may be staged
  Documents, \* rows that RAG legs may create
  Imports,   \* rows that KB legs may create
  Users,     \* requests being handled
  None

Jobs == Documents \cup Imports
Legs == {"rag", "kb"}

ASSUME DraftsAssumption ==
  /\ None \notin Drafts \cup Jobs
  /\ None \notin {"uploaded", "assigned", "done", "pending", "processing",
                 "completed", "failed", "cancelled"}
  /\ Documents \cap Imports = {}

VARIABLES
  urls,     \* drafts staged as a URL, without a file
  parse,    \* parseStatus of each draft; None before it is staged
  rag,      \* ragJobId; ragEnabled is set with it
  kb,       \* kbJobId; kbEnabled is set with it, and from the start for a URL
  deleted,  \* drafts with deletedAt
  file,     \* drafts whose staged file is in the storage provider
  leg,      \* status of each document or import job
  owner,    \* the draft it was made for
  active,   \* jobs that somebody works on
  gone,     \* documents with deletedAt
  req,      \* each request
  reaper,   \* the reaper's list and the draft whose file it removes next
  staged,   \* history: live drafts whose file was put
  thrown,   \* history: live drafts a KB leg threw for, or that were reset to
            \* "assigned" before any leg
  messy     \* history: live drafts with overlapping, repeated or crashed RAG legs

rows == <<urls, parse, rag, kb, deleted>>
storage == <<file, staged>>
jobs == <<leg, owner, active, gone>>
vars == <<rows, storage, jobs, req, reaper, thrown, messy>>

Terminal == {"completed", "failed", "cancelled"}
NoRow == [parse |-> None, rag |-> None, kb |-> None]
Off == [at |-> "off", job |-> None]
Idle == [op |-> "none", at |-> "idle", draft |-> None, row |-> NoRow,
         rag |-> Off, kb |-> Off]
NotReaping == [left |-> {}, now |-> None]

Init ==
  /\ urls = {}
  /\ parse = [d \in Drafts |-> None]
  /\ rag = [d \in Drafts |-> None]
  /\ kb = [d \in Drafts |-> None]
  /\ deleted = {} /\ file = {} /\ staged = {}
  /\ leg = [j \in Jobs |-> None]
  /\ owner = [j \in Jobs |-> None]
  /\ active = {} /\ gone = {}
  /\ req = [u \in Users |-> Idle]
  /\ reaper = NotReaping
  /\ thrown = {} /\ messy = {}

\* The copy of the row, and whether a dispatch is a retry, is dropped when it is
\* not looked at any more.
Goto(u, at) == req' = [req EXCEPT ![u].at = at,
  ![u].op = IF at = "dispatch" THEN "assign" ELSE @,
  ![u].row = IF at = "drop" THEN @ ELSE NoRow]
Finish(u) == req' = [req EXCEPT ![u] = Idle]
Live(d) == parse[d] # None /\ d \notin deleted

\* The history of a draft ends when it is deleted.
Forget(d) == staged' = staged \ {d} /\ thrown' = thrown \ {d} /\ messy' = messy \ {d}

\* Jobs that no dispatch has taken yet.
Free == {j \in Jobs : leg[j] = None /\ \A u \in Users : j \notin {req[u].rag.job, req[u].kb.job}}

-----------------------------------------------------------------------------
(* POST /uploads                                                            *)

\* Mutant of StageUrl: the draft of a URL gets a file in the provider, too.
StageUrlPuts(u, d, j) ==
  /\ req[u] = Idle /\ parse[d] = None
  /\ j \in Free \cap Imports
  /\ urls' = urls \cup {d} /\ file' = file \cup {d}
  /\ parse' = [parse EXCEPT ![d] = "assigned"]
  /\ req' = [req EXCEPT ![u] = [Idle EXCEPT !.op = "stage", !.at = "dispatch", !.draft = d,
                                            !.kb = [at |-> "send", job |-> j]]]
  /\ UNCHANGED <<rag, kb, deleted, staged, jobs, reaper, thrown, messy>>

\* A URL is dispatched at once, by dispatchKbLegUrl.
StageUrl(u, d, j) ==
  /\ req[u] = Idle /\ parse[d] = None
  /\ j \in Free \cap Imports
  /\ urls' = urls \cup {d}
  /\ parse' = [parse EXCEPT ![d] = "assigned"]
  /\ req' = [req EXCEPT ![u] = [Idle EXCEPT !.op = "stage", !.at = "dispatch", !.draft = d,
                                            !.kb = [at |-> "send", job |-> j]]]
  /\ UNCHANGED <<rag, kb, deleted, storage, jobs, reaper, thrown, messy>>

Stage(u, d) ==
  /\ req[u] = Idle /\ parse[d] = None
  /\ parse' = [parse EXCEPT ![d] = "uploaded"]
  /\ req' = [req EXCEPT ![u] = [Idle EXCEPT !.op = "stage", !.at = "put", !.draft = d]]
  /\ UNCHANGED <<urls, rag, kb, deleted, storage, jobs, reaper, thrown, messy>>

\* The row is there before the file; a put that throws leaves it without one.
PutFile(u) ==
  LET d == req[u].draft IN
  /\ req[u].at = "put"
  /\ \/ file' = file \cup {d} /\ staged' = IF d \in deleted THEN staged ELSE staged \cup {d}
     \/ UNCHANGED <<file, staged>>
  /\ Finish(u)
  /\ UNCHANGED <<rows, jobs, reaper, thrown, messy>>

-----------------------------------------------------------------------------
(* Requests for a staged draft read its row first.                          *)

Row(d) == [parse |-> parse[d], rag |-> rag[d], kb |-> kb[d]]

Reads(u, d, op, at, row, r, k) ==
  /\ req[u] = Idle /\ Live(d)
  /\ req' = [req EXCEPT ![u] =
       [op |-> op, at |-> at, draft |-> d, row |-> row, rag |-> r, kb |-> k]]
  /\ UNCHANGED <<rows, storage, jobs, reaper, thrown>>

New(S, at) == {Off} \cup [at : {at}, job : Free \cap S]

\* Requests with a RAG leg under way for a draft.
Ragging(d) == {u \in Users : req[u].draft = d /\ req[u].rag # Off}

\* POST /:id/assign and /:id/retry with one leg or both; only assign looks
\* whether the draft is done.
Assign(u, d, r, k) ==
  /\ r # Off \/ k # Off
  /\ IF parse[d] = "done" THEN Reads(u, d, "assign", "legs", Row(d), r, k)
     ELSE Reads(u, d, "assign", "check", NoRow, r, k)
  /\ messy' = IF r # Off /\ (Ragging(d) # {} \/ rag[d] # None) THEN messy \cup {d} ELSE messy

Retry(u, d, r, k) ==
  /\ r # Off \/ k # Off
  /\ Reads(u, d, "retry", "check", [NoRow EXCEPT !.rag = IF r = Off THEN None ELSE rag[d]], r, k)
  /\ messy' = IF r # Off /\ Ragging(d) # {} THEN messy \cup {d} ELSE messy

\* GET /pending and DELETE /:id; the legs of a finished draft do not matter.
Ask(u, d) ==
  /\ \/ /\ parse[d] # "done"
        /\ \E op \in {"poll", "delete"} : Reads(u, d, op, "legs", Row(d), Off, Off)
     \/ /\ parse[d] = "done"
        /\ Reads(u, d, "delete", "mark", NoRow, Off, Off)
  /\ UNCHANGED messy

-----------------------------------------------------------------------------
(* enrichDraftWithLegStatus, from the row that was read.                    *)

RagIn(u, S) == IF req[u].row.rag = None THEN TRUE ELSE leg[req[u].row.rag] \in S
KbIn(u, S) ==
  IF req[u].row.kb = None THEN req[u].draft \notin urls ELSE leg[req[u].row.kb] \in S
LegsIn(u, S) == RagIn(u, S) /\ KbIn(u, S)

SomeLegFailed(u) ==
  \E j \in {req[u].row.rag, req[u].row.kb} \ {None} : leg[j] = "failed"

\* Mutant of Promotes: every draft whose enabled legs succeeded, also if it has none.
PromotesUndispatched(u) == req[u].row.parse # "done" /\ LegsIn(u, {"completed"})

\* Only a dispatched draft is promoted.
Promotes(u) == req[u].row.parse = "assigned" /\ LegsIn(u, {"completed"})

\* DELETE answers 409 for a draft in flight, assign for a finished one.
ReadLegs(u) ==
  LET r == req[u] IN
  /\ r.at = "legs"
  /\ \/ Promotes(u) /\ Goto(u, "promote")
     \/ /\ ~ Promotes(u)
        /\ \/ r.op = "poll" /\ Finish(u)
           \/ /\ r.op = "delete"
              /\ IF r.row.parse = "assigned" /\ ~ LegsIn(u, Terminal)
                 THEN Finish(u) ELSE Goto(u, "mark")
           \/ /\ r.op = "assign"
              /\ IF SomeLegFailed(u) THEN Goto(u, "reset") ELSE Finish(u)
  /\ UNCHANGED <<rows, storage, jobs, reaper, thrown, messy>>

\* Written by id, whatever became of the draft since.
Promote(u) ==
  /\ req[u].at = "promote"
  /\ parse' = [parse EXCEPT ![req[u].draft] = "done"]
  /\ IF req[u].op = "delete" THEN Goto(u, "mark") ELSE Finish(u)
  /\ UNCHANGED <<urls, rag, kb, deleted, storage, jobs, reaper, thrown, messy>>

-----------------------------------------------------------------------------
(* Dispatch.                                                                *)

\* tryRestoreDraftFromOcrCopy finds what the OCR of an earlier KB leg kept; it
\* does not bring back the file under the draft's storage key.
Copied(d) == \E i \in Imports : owner[i] = d /\ d \notin urls

\* Mutant of Check: a retry leaves the old document alone.
CheckKeeps(u) ==
  LET d == req[u].draft
      looks == d \notin urls /\ (req[u].op = "retry" \/ req[u].kb # Off) IN
  /\ req[u].at = "check"
  /\ \/ looks /\ d \notin file /\ Finish(u)
     \/ /\ looks => d \in file \/ Copied(d)
        /\ Goto(u, IF req[u].op = "assign" THEN "dispatch" ELSE "reset")
  /\ UNCHANGED <<rows, storage, jobs, reaper, thrown, messy>>

\* Looks for the file, for assign only if the KB leg is wanted.
Check(u) ==
  LET d == req[u].draft
      looks == d \notin urls /\ (req[u].op = "retry" \/ req[u].kb # Off) IN
  /\ req[u].at = "check"
  /\ \/ looks /\ d \notin file /\ Finish(u)
     \/ /\ looks => d \in file \/ Copied(d)
        /\ Goto(u, IF req[u].op = "assign" THEN "dispatch"
                   ELSE IF req[u].row.rag # None THEN "drop" ELSE "reset")
  /\ UNCHANGED <<rows, storage, jobs, reaper, thrown, messy>>

\* A retry soft-deletes the document of the RAG leg it replaces.
DropDocument(u) ==
  /\ req[u].at = "drop"
  /\ gone' = gone \cup {req[u].row.rag}
  /\ Goto(u, "reset")
  /\ UNCHANGED <<rows, storage, leg, owner, active, reaper, thrown, messy>>

Reset(u) ==
  LET d == req[u].draft IN
  /\ req[u].at = "reset"
  /\ parse' = [parse EXCEPT ![d] = "assigned"]
  /\ thrown' = IF rag[d] = None /\ kb[d] = None THEN (thrown \cup {d}) \ deleted ELSE thrown
  /\ Goto(u, IF req[u].op = "assign" THEN "check" ELSE "dispatch")
  /\ UNCHANGED <<urls, rag, kb, deleted, storage, jobs, reaper, messy>>

RagAt(u, at) == req' = [req EXCEPT ![u].rag = [at |-> at, job |-> IF at = "over" THEN None ELSE @.job]]
KbAt(u, at) == req' = [req EXCEPT ![u].kb = [at |-> at, job |-> IF at = "over" THEN None ELSE @.job]]
AtLeg(u, l, at) == req[u].at = "dispatch" /\ req[u][l].at = at

RagCreate(u) ==
  LET j == req[u].rag.job IN
  /\ AtLeg(u, "rag", "create")
  /\ leg' = [leg EXCEPT ![j] = "pending"]
  /\ owner' = [owner EXCEPT ![j] = req[u].draft]
  /\ RagAt(u, "post")
  /\ UNCHANGED <<rows, storage, active, gone, reaper, thrown, messy>>

\* forwardToCollector claims a pending document and reads its file.
RagPost(u) ==
  LET j == req[u].rag.job IN
  /\ AtLeg(u, "rag", "post")
  /\ \/ /\ leg[j] = "pending" /\ req[u].draft \in file
        /\ leg' = [leg EXCEPT ![j] = "processing"]
        /\ active' = active \cup {j}
     \/ leg[j] = "pending" /\ leg' = [leg EXCEPT ![j] = "failed"] /\ UNCHANGED active
     \/ leg[j] # "pending" /\ UNCHANGED <<leg, active>>
  /\ RagAt(u, "await")
  /\ UNCHANGED <<rows, storage, owner, gone, reaper, thrown, messy>>

\* The document is attached only when forwardToCollector is back.
RagAttach(u) ==
  LET j == req[u].rag.job IN
  /\ AtLeg(u, "rag", "await") /\ j \notin active
  /\ rag' = [rag EXCEPT ![req[u].draft] = j]
  /\ RagAt(u, "over")
  /\ UNCHANGED <<urls, parse, kb, deleted, storage, jobs, reaper, thrown, messy>>

\* The import is created and the file, not that of a URL, is read and sent on,
\* by createOcrJob or to the collector: somebody works on it.  A read that fails
\* fails it; a dispatch that throws leaves it as it is.  Nobody sees the row
\* before it is attached.
KbSend(u) ==
  LET d == req[u].draft
      j == req[u].kb.job IN
  /\ AtLeg(u, "kb", "send")
  /\ owner' = [owner EXCEPT ![j] = d]
  /\ \/ /\ d \in file \/ req[u].op = "stage"
        /\ leg' = [leg EXCEPT ![j] = "processing"]
        /\ active' = active \cup {j}
        /\ KbAt(u, "attach") /\ UNCHANGED thrown
     \/ /\ req[u].op # "stage"
        /\ leg' \in {[leg EXCEPT ![j] = "processing"], [leg EXCEPT ![j] = "failed"]}
        /\ thrown' = (thrown \cup {d}) \ deleted
        /\ KbAt(u, "over") /\ UNCHANGED active
  /\ UNCHANGED <<rows, storage, gone, reaper, messy>>

KbAttach(u) ==
  /\ AtLeg(u, "kb", "attach")
  /\ kb' = [kb EXCEPT ![req[u].draft] = req[u].kb.job]
  /\ KbAt(u, "over")
  /\ UNCHANGED <<urls, parse, rag, deleted, storage, jobs, reaper, thrown, messy>>

\* allSettled: a leg that threw makes no difference.
Settle(u) ==
  LET d == req[u].draft IN
  /\ req[u].at = "dispatch"
  /\ \A l \in Legs : req[u][l].at \in {"off", "over"}
  /\ parse' = IF req[u].op = "stage" THEN parse ELSE [parse EXCEPT ![d] = "assigned"]
  /\ Finish(u)
  /\ UNCHANGED <<urls, rag, kb, deleted, storage, jobs, reaper, thrown, messy>>

DispatchStep(u) ==
  \/ Check(u) \/ DropDocument(u) \/ Reset(u) \/ RagCreate(u) \/ RagPost(u) \/ RagAttach(u)
  \/ KbSend(u) \/ KbAttach(u) \/ Settle(u)

-----------------------------------------------------------------------------
(* Delete and cancel.                                                       *)

\* Mutant of Delete: the file is removed before the row is marked.
DeleteFileFirst(u) ==
  \/ /\ req[u].at = "mark"
     /\ file' = file \ {req[u].draft}
     /\ Goto(u, "unlink")
     /\ UNCHANGED <<rows, staged, jobs, reaper, thrown, messy>>
  \/ /\ req[u].at = "unlink"
     /\ deleted' = deleted \cup {req[u].draft} /\ Forget(req[u].draft)
     /\ Finish(u)
     /\ UNCHANGED <<urls, parse, rag, kb, file, jobs, reaper>>

\* The row is marked, then the file is removed, best effort.
Delete(u) ==
  LET d == req[u].draft IN
  \/ /\ req[u].at = "mark"
     /\ deleted' = deleted \cup {d} /\ Forget(d)
     /\ IF d \in urls THEN Finish(u) ELSE Goto(u, "unlink")
     /\ UNCHANGED <<urls, parse, rag, kb, file, jobs, reaper>>
  \/ /\ req[u].at = "unlink"
     /\ file' \in {file, file \ {d}}
     /\ Finish(u)
     /\ UNCHANGED <<rows, staged, jobs, reaper, thrown, messy>>

-----------------------------------------------------------------------------
(* The reaper, the jobs and the environment.                                *)

\* One query for the whole cycle: any drafts may have expired by now.  URLs
\* fail the key guard and are skipped.
ReapList ==
  /\ reaper = NotReaping
  /\ \E S \in SUBSET {d \in Drafts \ urls : Live(d) /\ parse[d] # "done"} :
       S # {} /\ reaper' = [left |-> S, now |-> None]
  /\ UNCHANGED <<rows, storage, jobs, req, thrown, messy>>

Reap(d) ==
  \/ /\ reaper.now = None /\ d \in reaper.left
     /\ deleted' = deleted \cup {d} /\ Forget(d)
     /\ reaper' = [left |-> reaper.left \ {d}, now |-> d]
     /\ UNCHANGED <<urls, parse, rag, kb, file, jobs, req>>
  \/ /\ reaper.now = d
     /\ file' \in {file, file \ {d}}
     /\ reaper' = [reaper EXCEPT !.now = None]
     /\ UNCHANGED <<rows, staged, jobs, req, thrown, messy>>

\* Whoever works on a job writes its end, or gives way to a cancel.
LegEnds(j) ==
  /\ j \in active
  /\ active' = active \ {j}
  /\ \/ leg' = [leg EXCEPT ![j] = "completed"]
     \/ leg' = [leg EXCEPT ![j] = "failed"]
     \/ leg[j] \in Terminal /\ UNCHANGED leg
  /\ UNCHANGED <<rows, storage, owner, gone, req, reaper, thrown, messy>>

\* POST /:id/cancel of an attached leg, or POST /documents/:id/cancel of any
\* document: the row is written by id, long after it was read as not ended.
CancelJob(j) ==
  /\ leg[j] # None /\ (j \in Imports => j \in {kb[d] : d \in Drafts})
  /\ leg' = [leg EXCEPT ![j] = "cancelled"]
  /\ UNCHANGED <<rows, storage, owner, active, gone, req, reaper, thrown, messy>>

Crash ==
  /\ req' = [u \in Users |-> Idle]
  /\ reaper' = NotReaping
  /\ messy' = messy \cup {d \in Drafts \ deleted : Ragging(d) # {}}
  /\ UNCHANGED <<rows, storage, jobs, thrown>>

RequestStep(u) == PutFile(u) \/ ReadLegs(u) \/ Promote(u) \/ DispatchStep(u) \/ Delete(u)

Next ==
  \/ \E u \in Users, d \in Drafts :
       \/ \E j \in Imports : StageUrl(u, d, j)
       \/ Stage(u, d) \/ Ask(u, d)
       \/ \E r \in New(Documents, "create"), k \in New(Imports, "send") : Assign(u, d, r, k) \/ Retry(u, d, r, k)
  \/ \E u \in Users : RequestStep(u)
  \/ \E d \in Drafts : Reap(d)
  \/ \E j \in Jobs : LegEnds(j) \/ CancelJob(j)
  \/ ReapList \/ Crash

Spec == Init /\ [][Next]_vars

-----------------------------------------------------------------------------
(* Properties.                                                              *)

\* Type correctness; the draft of a URL never has a file.
DraftTypeOK ==
  /\ parse \in [Drafts -> {None, "uploaded", "assigned", "done"}]
  /\ rag \in [Drafts -> Documents \cup {None}]
  /\ kb \in [Drafts -> Imports \cup {None}]
  /\ urls \subseteq Drafts /\ deleted \subseteq Drafts
  /\ file \subseteq Drafts \ urls /\ staged \subseteq Drafts
  /\ leg \in [Jobs -> {None, "pending", "processing"} \cup Terminal]
  /\ owner \in [Jobs -> Drafts \cup {None}]
  /\ active \subseteq Jobs /\ gone \subseteq Documents
  /\ req \in [Users ->
       [op : {"none", "stage", "assign", "retry", "poll", "delete"},
        at : {"idle", "put", "legs", "promote", "check", "drop", "reset", "dispatch",
              "mark", "unlink"},
        draft : Drafts \cup {None},
        row : [parse : {None, "uploaded", "assigned", "done"},
               rag : Documents \cup {None}, kb : Imports \cup {None}],
        rag : [at : {"off", "create", "post", "await", "over"}, job : Documents \cup {None}],
        kb : [at : {"off", "send", "attach", "over"},
              job : Imports \cup {None}]]]
  /\ reaper \in [left : SUBSET Drafts, now : Drafts \cup {None}]
  /\ thrown \subseteq Drafts /\ messy \subseteq Drafts

\* A staged file stays as long as its draft is live: the reaper and DELETE mark
\* the row before they remove the file, and a retry can rely on its source.
LiveFileKept == staged \subseteq file

\* A job of the draft completed, and may have been cancelled too late.
Earned(d) == \E j \in Jobs : owner[j] = d /\ leg[j] \in {"completed", "cancelled"}

\* A draft is done only if a job made for it completed, unless a KB leg threw
\* for it or it was retried before it had a leg: polls that work from an old
\* copy of the row, cancels, retries and crashes promote no other draft.
DoneIsEarned ==
  \A d \in Drafts \ (deleted \cup thrown) : parse[d] = "done" => Earned(d)

\* A retry replaces its document: a draft has one document that is not deleted,
\* unless two dispatches overlapped, an assign repeated the leg or one crashed.
OneLiveDocument ==
  \A d \in Drafts \ (deleted \cup messy) : Cardinality({j \in Documents \ gone : owner[j] = d}) <= 1

\* "done" is set only when every leg succeeded.
DoneNeedsSuccess ==
  \A d \in Drafts : parse[d] = "done" => Earned(d)
=============================================================================
