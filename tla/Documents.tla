------------------------------ MODULE Documents ------------------------------
(***************************************************************************)
(* The documents of a workspace and their ingestion for retrieval: the     *)
(* document row, its full-text chunks and its stored file in the server,   *)
(* its vectors in the collector.  A dispatch is one call of                *)
(* forwardToCollector (or of the connector bridge) for one document; the   *)
(* collector's POST /ingest handler serves it and reports back through     *)
(* status callbacks that the server handles like any other request, so     *)
(* that dispatch, callbacks, cancel, edit and delete requests and the      *)
(* vector cleanup job all write one row.                                   *)
(***************************************************************************)
EXTENDS Naturals, FiniteSets

CONSTANTS
  Docs,         \* document rows that may be created
  Binary,       \* those whose text is extracted, not their file itself
  DraftKeys,    \* storage keys of the files staged in upload drafts
  Texts,        \* contents a file may have
  Original,     \* the content before any edit
  MaxDispatches,\* bound on the calls of forwardToCollector
  Users,        \* requests that read a row and write it later
  MaxTries,     \* failed purges after which the cleanup job gives up
  MaxFaults,    \* bound on restarts and on callbacks that time out
  Units,        \* units of work of one ingestion
  Capped,       \* TRUE when COLLECTOR_INGEST_TIMEOUT_MS is set
  None

\* A direct upload has a key of its own, a PDF gets one for its text when it
\* is edited, and a document made from a draft has the key of the draft.
OwnKeys == Docs \X {"bytes", "text"}
Keys == DraftKeys \cup OwnKeys
Dispatches == 1..MaxDispatches

ASSUME DocumentsAssumption ==
  /\ None \notin Texts \cup Docs \cup Keys \cup Dispatches
  /\ None \notin {"pending", "processing", "completed", "failed", "cancelled",
                 "upload", "draft", "connector"}
  /\ DraftKeys \cap OwnKeys = {}
  /\ Original \in Texts
  /\ Binary \subseteq Docs
  /\ MaxDispatches \in Nat
  /\ MaxTries \in Nat
  /\ MaxFaults \in Nat
  /\ Units \in Nat \ {0}
  /\ Capped \in BOOLEAN

VARIABLES
  status,   \* column of each row; None before the row exists
  deleted,  \* rows with deletedAt
  cleaned,  \* rows with vectorCleanupAt
  tries,    \* vectorCleanupAttempts
  source,   \* storageKey of each row, None for a connector's
  origin,   \* "upload", "draft" or "connector"
  chunks,   \* text in document_chunks, or None
  vectors,  \* texts in the workspace's collection of the vector store
  file,     \* content under each storage key, or None
  job,      \* each dispatch in the server
  ingest,   \* the collector's handler of each dispatch
  call,     \* the status callback the handler waits for
  stray,    \* a status callback the handler no longer waits for
  request,  \* each user request between its read and its last write
  purging,  \* documents whose vector purge a delete request sent
  faults,
  latest,   \* history: the last dispatch of each document
  mishap    \* history: live documents with a dispatch that started before another
            \* was over, had no good answer, wrote no chunks or died

table == <<status, deleted, cleaned, tries, source, origin>>
stores == <<chunks, vectors, file>>
dispatching == <<job, ingest, call, stray>>
users == <<request, purging>>
history == <<faults, latest, mishap>>
vars == <<table, stores, dispatching, users, history>>

Terminal == {"completed", "failed", "cancelled"}
Statuses == {"pending", "processing"} \cup Terminal

IdleJob == [at |-> "idle", doc |-> None, text |-> None, keep |-> FALSE]
NoIngest == [at |-> "none", stored |-> FALSE, left |-> 0]
NewIngest == [at |-> "poll", stored |-> FALSE, left |-> Units]
NoCall == [at |-> "none", says |-> None]
IdleRequest == [at |-> "idle", doc |-> None]

Init ==
  /\ status = [d \in Docs |-> None]
  /\ deleted = {}
  /\ cleaned = {}
  /\ tries = [d \in Docs |-> 0]
  /\ source = [d \in Docs |-> None]
  /\ origin = [d \in Docs |-> None]
  /\ chunks = [d \in Docs |-> None]
  /\ vectors = [d \in Docs |-> {}]
  /\ file = [k \in Keys |-> IF k \in DraftKeys THEN Original ELSE None]
  /\ job = [p \in Dispatches |-> IdleJob]
  /\ ingest = [p \in Dispatches |-> NoIngest]
  /\ call = [p \in Dispatches |-> NoCall]
  /\ stray = [p \in Dispatches |-> NoCall]
  /\ request = [u \in Users |-> IdleRequest]
  /\ purging = {}
  /\ faults = 0
  /\ latest = [d \in Docs |-> None]
  /\ mishap = {}

Over == {"none", "cancelled", "lost", "closing", "failing"}

\* The collector answers a dispatch when its last callback is over, or dies.
Answered(p) ==
  \/ ingest[p].at = "lost"
  \/ ingest[p].at \in {"cancelled", "closing", "failing"} /\ call[p].at = "none"

\* Dispatches of a document that work on it or still have a callback to come.
Busy(d) == {p \in Dispatches :
  job[p].doc = d /\ ~ (job[p].at = "done" /\ call[p] = NoCall /\ stray[p] = NoCall)}

JobAt(p, at) == job' = [job EXCEPT ![p].at = at]
IngestAt(p, at) == ingest' = [ingest EXCEPT ![p].at = at]
\* What the handler knew is gone when it ends.
EndIngest(p, at) == ingest' = [ingest EXCEPT ![p] = [NoIngest EXCEPT !.at = at]]
WriteStatus(d, s) == status' = [status EXCEPT ![d] = s]

Mishap(D) == mishap' = mishap \cup (D \ deleted)

\* Dispatches are numbered in the order of their start.
Start(p, d, at, text, keep) ==
  /\ job[p].at = "idle" /\ \A q \in 1..(p - 1) : job[q].at # "idle"
  /\ job' = [job EXCEPT ![p] = [at |-> at, doc |-> d, text |-> text, keep |-> keep]]
  /\ latest' = [latest EXCEPT ![d] = p]
  /\ IF Busy(d) = {} THEN UNCHANGED mishap ELSE Mishap({d})

-----------------------------------------------------------------------------
(* Dispatch: POST /documents/upload, dispatchRagLeg, the connector bridge.  *)

\* The row is created before the bytes are stored; a draft's file is there.
Create(p, d) ==
  /\ status[d] = None
  /\ WriteStatus(d, "pending")
  /\ \/ /\ Start(p, d, "put", Original, FALSE) /\ UNCHANGED ingest
        /\ origin' = [origin EXCEPT ![d] = "upload"]
        /\ source' = [source EXCEPT ![d] = <<d, "bytes">>]
     \/ /\ Start(p, d, "claim", None, TRUE) /\ UNCHANGED ingest
        /\ origin' = [origin EXCEPT ![d] = "draft"]
        /\ \E k \in DraftKeys : source' = [source EXCEPT ![d] = k]
     \/ /\ Start(p, d, "post", Original, TRUE)
        /\ origin' = [origin EXCEPT ![d] = "connector"]
        /\ ingest' = [ingest EXCEPT ![p] = NewIngest]
        /\ UNCHANGED source
  /\ UNCHANGED <<deleted, cleaned, tries, stores, call, stray, users, faults>>

\* Mutant of Put: a put that throws leaves the dispatch without an answer.
PutHangs(p) ==
  /\ job[p].at = "put"
  /\ \/ /\ file' = [file EXCEPT ![source[job[p].doc]] = job[p].text]
        /\ JobAt(p, "claim")
     \/ UNCHANGED file /\ JobAt(p, "putting")
  /\ UNCHANGED <<table, chunks, vectors, ingest, call, stray, users, history>>

\* A put that throws answers 500 and leaves the row pending.
Put(p) ==
  /\ job[p].at = "put"
  /\ \/ /\ file' = [file EXCEPT ![source[job[p].doc]] = job[p].text]
        /\ JobAt(p, "claim")
     \/ UNCHANGED file /\ JobAt(p, "done")
  /\ UNCHANGED <<table, chunks, vectors, ingest, call, stray, users, history>>

\* updateMany where status is pending; the deletion mark is not looked at.
Claim(p) ==
  LET d == job[p].doc IN
  /\ job[p].at = "claim"
  /\ \/ status[d] = "pending" /\ WriteStatus(d, "processing") /\ JobAt(p, "read")
     \/ status[d] # "pending" /\ UNCHANGED status /\ JobAt(p, "done")
  /\ UNCHANGED <<deleted, cleaned, tries, source, origin, stores, ingest, call, stray, users, history>>

\* Reads the source and posts it; a missing file or a refused connection throws.
Post(p) ==
  LET text == file[source[job[p].doc]] IN
  /\ job[p].at = "read"
  /\ \/ /\ text # None
        /\ job' = [job EXCEPT ![p].at = "post", ![p].text = text]
        /\ ingest' = [ingest EXCEPT ![p] = NewIngest]
     \/ JobAt(p, "check") /\ UNCHANGED ingest
  /\ UNCHANGED <<table, stores, call, stray, users, history>>

\* The connector bridge writes no chunks and does not look at the row before it
\* writes failed.
Answer(p) ==
  LET connector == origin[job[p].doc] = "connector" IN
  /\ job[p].at = "post"
  /\ \/ /\ Answered(p) /\ EndIngest(p, "none")
        /\ \/ /\ ingest[p].at = "closing" /\ UNCHANGED mishap
              /\ JobAt(p, IF connector THEN "done" ELSE "drop")
           \/ ingest[p].at = "cancelled" /\ JobAt(p, "done") /\ UNCHANGED mishap
           \/ /\ ingest[p].at \in {"failing", "lost"} /\ Mishap({job[p].doc})
              /\ JobAt(p, IF connector THEN "fail" ELSE "check")
     \/ /\ Capped /\ Mishap({job[p].doc})
        /\ JobAt(p, IF connector THEN "fail" ELSE "check")
        /\ UNCHANGED ingest
  /\ UNCHANGED <<table, stores, call, stray, users, faults, latest>>

\* Mutant of DropChunks: the old chunks are not deleted first.
DropChunksKeeps(p) ==
  /\ job[p].at = "drop"
  /\ JobAt(p, "save")
  /\ UNCHANGED <<table, stores, ingest, call, stray, users, history>>

\* DELETE FROM document_chunks; a failure of it or of the insert is logged only.
DropChunks(p) ==
  LET d == job[p].doc IN
  /\ job[p].at = "drop"
  /\ \/ /\ chunks' = [chunks EXCEPT ![d] = None]
        /\ JobAt(p, "save") /\ UNCHANGED mishap
     \/ UNCHANGED chunks /\ JobAt(p, "complete") /\ Mishap({d})
  /\ UNCHANGED <<table, vectors, file, ingest, call, stray, users, faults, latest>>

\* The insert fails when another dispatch put its chunks there meanwhile.
SaveChunks(p) ==
  LET d == job[p].doc IN
  /\ job[p].at = "save"
  /\ chunks' = [chunks EXCEPT ![d] = IF @ = None THEN job[p].text ELSE @]
  /\ JobAt(p, "complete")
  /\ UNCHANGED <<table, vectors, file, ingest, call, stray, users, history>>

\* Unconditional, unlike the other two writes of a dispatch.
Complete(p) ==
  /\ job[p].at = "complete"
  /\ WriteStatus(job[p].doc, "completed")
  /\ JobAt(p, "done")
  /\ UNCHANGED <<deleted, cleaned, tries, source, origin, stores, ingest, call, stray, users, history>>

\* Mutant of Check: the row is not read again before the failure is written.
CheckNothing(p) ==
  /\ job[p].at = "check"
  /\ JobAt(p, "fail")
  /\ UNCHANGED <<table, stores, ingest, call, stray, users, history>>

\* The catch block reads the row before it writes the failure.
Check(p) ==
  /\ job[p].at = "check"
  /\ JobAt(p, IF status[job[p].doc] = "cancelled" THEN "done" ELSE "fail")
  /\ UNCHANGED <<table, stores, ingest, call, stray, users, history>>

Fail(p) ==
  /\ job[p].at = "fail"
  /\ WriteStatus(job[p].doc, "failed")
  /\ JobAt(p, IF job[p].keep THEN "done" ELSE "unlink")
  /\ UNCHANGED <<deleted, cleaned, tries, source, origin, stores, ingest, call, stray, users, history>>

\* deleteSourceOnFailure, with the key that the upload route passed in.
Unlink(p) ==
  /\ job[p].at = "unlink"
  /\ file' = [file EXCEPT ![<<job[p].doc, "bytes">>] = None]
  /\ JobAt(p, "done")
  /\ UNCHANGED <<table, chunks, vectors, ingest, call, stray, users, history>>

JobStep(p) ==
  \/ Put(p) \/ Claim(p) \/ Post(p) \/ Answer(p) \/ DropChunks(p) \/ SaveChunks(p)
  \/ Complete(p) \/ Check(p) \/ Fail(p) \/ Unlink(p)

-----------------------------------------------------------------------------
(* The collector: POST /ingest, in units of work (parsing, chunking, a      *)
(* slice of embeddings), each after a poll of the row and followed by a     *)
(* progress callback that the handler waits for.                            *)

Send(p, says) == call' = [call EXCEPT ![p] = [at |-> "sent", says |-> says]]
Waits(p) == call[p].at # "none"

\* Mutant of Work: an error ends the handler without a word or an answer.
WorkHangs(p) ==
  /\ ingest[p].at = "poll" /\ ~ ingest[p].stored /\ ~ Waits(p)
  /\ \/ /\ Send(p, "processing")
        /\ ingest' = [ingest EXCEPT ![p].left = @ - 1,
                                    ![p].at = IF ingest[p].left = 1 THEN "add" ELSE "poll"]
     \/ UNCHANGED call /\ IngestAt(p, "none")
  /\ UNCHANGED <<table, stores, job, stray, users, history>>

\* A poll that fails counts as not cancelled.  The unit is done and reported,
\* or throws.
Work(p) ==
  /\ ingest[p].at = "poll" /\ ~ ingest[p].stored /\ ~ Waits(p)
  /\ \/ /\ Send(p, "processing")
        /\ ingest' = [ingest EXCEPT ![p].left = @ - 1,
                                    ![p].at = IF ingest[p].left = 1 THEN "add" ELSE "poll"]
     \/ Send(p, "failed") /\ EndIngest(p, "failing")
  /\ UNCHANGED <<table, stores, job, stray, users, history>>

\* Mutant of Add: the vectors are stored without effect.
AddNothing(p) ==
  /\ ingest[p].at = "add" /\ ~ Waits(p)
  /\ Send(p, "processing")
  /\ ingest' = [ingest EXCEPT ![p].at = "poll", ![p].stored = TRUE]
  /\ UNCHANGED <<table, stores, job, stray, users, history>>

\* LanceDB, the default store, appends: vectors of an earlier text remain.
Add(p) ==
  /\ ingest[p].at = "add" /\ ~ Waits(p)
  /\ \/ /\ vectors' = [vectors EXCEPT ![job[p].doc] = @ \cup {job[p].text}]
        /\ Send(p, "processing")
        /\ ingest' = [ingest EXCEPT ![p].at = "poll", ![p].stored = TRUE]
     \/ UNCHANGED vectors /\ Send(p, "failed") /\ EndIngest(p, "failing")
  /\ UNCHANGED <<table, chunks, file, job, stray, users, history>>

\* The last poll is over, and the ingestion is reported as completed.
Close(p) ==
  /\ ingest[p].at = "poll" /\ ingest[p].stored /\ ~ Waits(p)
  /\ Send(p, "completed")
  /\ EndIngest(p, "closing")
  /\ UNCHANGED <<table, stores, job, stray, users, history>>

\* A poll sees the cancel.
SeeCancel(p) ==
  /\ ingest[p].at = "poll" /\ ~ Waits(p)
  /\ status[job[p].doc] = "cancelled"
  /\ IF ingest[p].stored THEN IngestAt(p, "undo") ELSE EndIngest(p, "cancelled")
  /\ UNCHANGED <<table, stores, job, call, stray, users, history>>

\* Vectors stored before the cancel was seen are purged, best effort.
Undo(p) ==
  /\ ingest[p].at = "undo"
  /\ vectors' \in {vectors, [vectors EXCEPT ![job[p].doc] = {}]}
  /\ EndIngest(p, "cancelled")
  /\ UNCHANGED <<table, chunks, file, job, call, stray, users, history>>

\* The client gives a callback up after 5 s; the server may still handle it.
GiveUpCall(p) ==
  /\ faults < MaxFaults /\ faults' = faults + 1
  /\ Waits(p) /\ stray[p] = NoCall
  /\ stray' = [stray EXCEPT ![p] = call[p]]
  /\ call' = [call EXCEPT ![p] = NoCall]
  /\ UNCHANGED <<table, stores, job, ingest, users, latest, mishap>>

IngestStep(p) == Work(p) \/ Add(p) \/ Close(p) \/ SeeCancel(p) \/ Undo(p)

-----------------------------------------------------------------------------
(* PUT /documents/:id/status in the server: what becomes of callback c.     *)

\* Mutant of NextCall: the file of a draft is removed like any other.
NextCallOwns(p, c) ==
  LET d == job[p].doc IN
  IF c.at = "sent" /\ c.says # "processing" /\ status[d] # "cancelled"
  THEN [c EXCEPT !.at = "write"]
  ELSE IF c.at = "write" /\ source[d] \in Keys THEN [c EXCEPT !.at = "clean"]
  ELSE NoCall

\* A terminal callback reads the row, writes it, and removes the file unless
\* a draft owns it.
NextCall(p, c) ==
  LET d == job[p].doc IN
  IF c.at = "sent" /\ c.says # "processing" /\ status[d] # "cancelled"
  THEN [c EXCEPT !.at = "write"]
  ELSE IF c.at = "write" /\ source[d] \in Keys \ DraftKeys THEN [c EXCEPT !.at = "clean"]
  ELSE NoCall

\* Progress is written whatever the row says.
Writes(c) == c.at = "write" \/ (c.at = "sent" /\ c.says = "processing")

HandleCall(p, c) ==
  LET d == job[p].doc IN
  /\ c # NoCall
  /\ status' = IF Writes(c) THEN [status EXCEPT ![d] = c.says] ELSE status
  /\ file' = IF c.at = "clean" THEN [file EXCEPT ![source[d]] = None] ELSE file
  /\ UNCHANGED <<deleted, cleaned, tries, source, origin, chunks, vectors, job, ingest, users, history>>

Callback(p) ==
  \/ /\ HandleCall(p, call[p])
     /\ call' = [call EXCEPT ![p] = NextCall(p, call[p])]
     /\ UNCHANGED stray
  \/ /\ HandleCall(p, stray[p])
     /\ stray' = [stray EXCEPT ![p] = NextCall(p, stray[p])]
     /\ UNCHANGED call

-----------------------------------------------------------------------------
(* Requests of users.                                                       *)

RequestAt(u, at, d) == request' = [request EXCEPT ![u] = [at |-> at, doc |-> d]]

\* Only rows that are waiting or in progress can be cancelled.
ReadForCancel(u, d) ==
  /\ request[u].at = "idle"
  /\ d \notin deleted
  /\ status[d] \in {"pending", "processing"}
  /\ RequestAt(u, "cancel", d)
  /\ UNCHANGED <<table, stores, dispatching, purging, history>>

WriteCancel(u) ==
  /\ request[u].at = "cancel"
  /\ WriteStatus(request[u].doc, "cancelled")
  /\ RequestAt(u, "idle", None)
  /\ UNCHANGED <<deleted, cleaned, tries, source, origin, stores, dispatching, purging, history>>

EditKey(d) == IF d \in Binary THEN <<d, "text">> ELSE source[d]

\* PUT /documents/:id/text: only completed rows can be edited.
ReadForEdit(u, d) ==
  /\ request[u].at = "idle"
  /\ d \notin deleted
  /\ status[d] = "completed"
  /\ EditKey(d) # None
  /\ RequestAt(u, "edit", d)
  /\ UNCHANGED <<table, stores, dispatching, purging, history>>

PutEdit(u, t) ==
  LET d == request[u].doc IN
  /\ request[u].at = "edit"
  /\ \/ file' = [file EXCEPT ![EditKey(d)] = t] /\ RequestAt(u, "reset", d)
     \/ UNCHANGED file /\ RequestAt(u, "idle", None)
  /\ UNCHANGED <<table, chunks, vectors, dispatching, purging, history>>

\* The row waits again, under the key of the text, and is dispatched.
ResetEdited(u, p) ==
  LET d == request[u].doc IN
  /\ request[u].at = "reset"
  /\ WriteStatus(d, "pending")
  /\ source' = [source EXCEPT ![d] = EditKey(d)]
  /\ Start(p, d, "claim", None, TRUE)
  /\ RequestAt(u, "idle", None)
  /\ UNCHANGED <<deleted, cleaned, tries, origin, stores, ingest, call, stray, purging, faults>>

\* DELETE /documents/:id, and bulk-delete for several documents at once: one
\* transaction, then a purge that nobody waits for.
Delete(D) ==
  /\ D # {}
  /\ \A d \in D : status[d] # None /\ d \notin deleted
  /\ deleted' = deleted \cup D
  /\ chunks' = [d \in Docs |-> IF d \in D THEN None ELSE chunks[d]]
  /\ purging' = purging \cup D
  /\ mishap' = mishap \ D
  /\ UNCHANGED <<status, cleaned, tries, source, origin, vectors, file, dispatching, request, faults, latest>>

\* The collector removes the vectors and the row is marked, unless its answer
\* or the server is lost meanwhile, or it is down.
Purge(d) ==
  /\ d \in purging
  /\ purging' = purging \ {d}
  /\ \/ /\ vectors' = [vectors EXCEPT ![d] = {}]
        /\ cleaned' \in {cleaned, cleaned \cup {d}}
     \/ UNCHANGED <<vectors, cleaned>>
  /\ UNCHANGED <<status, deleted, tries, source, origin, chunks, file, dispatching, request, history>>

\* runVectorCleanupCycle for one row.  The request names no workspace, so that
\* the collector looks in a table that does not exist and answers 200.
Sweep(d) ==
  /\ d \in deleted \ cleaned
  /\ tries[d] < MaxTries
  /\ \/ cleaned' = cleaned \cup {d} /\ UNCHANGED tries
     \/ tries' = [tries EXCEPT ![d] = @ + 1] /\ UNCHANGED cleaned
  /\ UNCHANGED <<status, deleted, source, origin, stores, dispatching, users, history>>

-----------------------------------------------------------------------------
(* Restarts.                                                                *)

\* Everything the server had under way ends; the collector goes on.
ServerCrash ==
  /\ faults < MaxFaults
  /\ faults' = faults + 1
  /\ Mishap({d \in Docs : Busy(d) # {}})
  /\ job' = [p \in Dispatches |->
               IF job[p].doc = None THEN job[p] ELSE [job[p] EXCEPT !.at = "done"]]
  /\ call' = [p \in Dispatches |-> NoCall]
  /\ stray' = [p \in Dispatches |-> NoCall]
  /\ request' = [u \in Users |-> IdleRequest]
  /\ UNCHANGED <<table, stores, ingest, purging, latest>>

\* Every handler dies; callbacks already in the server are still handled.
CollectorCrash ==
  /\ faults < MaxFaults
  /\ faults' = faults + 1
  /\ ingest' = [p \in Dispatches |->
       IF ingest[p].at = "none" \/ Answered(p) THEN ingest[p]
       ELSE [NoIngest EXCEPT !.at = "lost"]]
  /\ UNCHANGED <<table, stores, job, call, stray, users, latest, mishap>>

RequestStep(u) ==
  \/ \E d \in Docs : ReadForCancel(u, d) \/ ReadForEdit(u, d)
  \/ WriteCancel(u)
  \/ \E t \in Texts : PutEdit(u, t)
  \/ \E p \in Dispatches : ResetEdited(u, p)

Next ==
  \/ \E p \in Dispatches :
       \/ \E d \in Docs : Create(p, d)
       \/ JobStep(p) \/ IngestStep(p) \/ Callback(p) \/ GiveUpCall(p)
  \/ \E u \in Users : RequestStep(u)
  \/ \E D \in SUBSET Docs : Delete(D)
  \/ \E d \in Docs : Purge(d) \/ Sweep(d)
  \/ ServerCrash \/ CollectorCrash

Spec == Init /\ [][Next]_vars

\* The promises and requests that serve a dispatch are resumed in the end.
Fairness ==
  WF_vars(\E p \in Dispatches : JobStep(p) \/ IngestStep(p) \/ Callback(p))

FairSpec == Spec /\ Fairness

-----------------------------------------------------------------------------
(* Properties.                                                              *)

\* Type correctness.
DocTypeOK ==
  /\ status \in [Docs -> Statuses \cup {None}]
  /\ deleted \subseteq Docs /\ cleaned \subseteq deleted
  /\ tries \in [Docs -> 0..MaxTries]
  /\ source \in [Docs -> Keys \cup {None}]
  /\ origin \in [Docs -> {"upload", "draft", "connector", None}]
  /\ chunks \in [Docs -> Texts \cup {None}]
  /\ vectors \in [Docs -> SUBSET Texts]
  /\ file \in [Keys -> Texts \cup {None}]
  /\ job \in [Dispatches ->
       [at : {"idle", "put", "claim", "read", "post", "drop", "save", "complete",
              "check", "fail", "unlink", "done"},
        doc : Docs \cup {None}, text : Texts \cup {None}, keep : BOOLEAN]]
  /\ ingest \in [Dispatches ->
       [at : {"poll", "add", "undo"} \cup Over,
        stored : BOOLEAN, left : 0..Units]]
  /\ \A c \in {call, stray} : c \in [Dispatches ->
       {NoCall} \cup [at : {"sent", "write", "clean"},
                      says : {"processing", "completed", "failed"}]]
  /\ request \in [Users -> [at : {"idle", "cancel", "edit", "reset"},
                            doc : Docs \cup {None}]]
  /\ purging \subseteq Docs
  /\ faults \in 0..MaxFaults
  /\ latest \in [Docs -> Dispatches \cup {None}]
  /\ mishap \subseteq Docs

Of(d) == {p \in Dispatches : job[p].doc = d}

\* The staged file of a draft outlives the end of every document made from it,
\* by callback or by failed dispatch, so that a retry finds its source.
StagedFileKept == \A k \in DraftKeys : file[k] # None

\* A completed document has vectors, unless an edit had it dispatched twice:
\* no order of callbacks, cancels and faults completes a document whose
\* vectors were not stored yet or were purged.
CompletedHasVectors ==
  \A d \in Docs \ deleted :
    status[d] = "completed" /\ Cardinality(Of(d)) = 1 => vectors[d] # {}

\* The chunks of a completed document are those of the text its last dispatch
\* read, once no dispatch works on it and none overlapped or went wrong.
ChunksShowText ==
  \A d \in Docs \ (deleted \cup mishap) :
    status[d] = "completed" /\ Busy(d) = {} /\ origin[d] # "connector"
      => chunks[d] = job[latest[d]].text

\* Nobody is past its look at the row: no collector is at work or about to be,
\* no callback, dispatch or edit is going to write.
Quiet(d) ==
  /\ \A p \in Of(d) :
       /\ ingest[p].at \in Over
       /\ ~ Writes(call[p]) /\ ~ Writes(stray[p])
       /\ job[p].at \notin {"read", "drop", "save", "complete", "fail"}
       /\ job[p].at = "post" => ingest[p].at # "closing"
  /\ \A u \in Users : request[u].doc = d => request[u].at = "cancel"

\* A cancelled row that is quiet stays cancelled and quiet: a dispatch that was
\* not claimed yet, a failure that is caught later and a terminal callback that
\* arrives later all give way.  (A connector's dispatch does not look.)
CancelledRests ==
  [][\A d \in Docs : status[d] = "cancelled" /\ Quiet(d) /\ origin[d] # "connector"
       => status'[d] = "cancelled" /\ Quiet(d)']_vars

\* Ingestion comes to an end, unless a restart or a callback that outlived its
\* timeout got in its way.
IngestEnds == \A d \in Docs :
  status[d] = "processing" ~> status[d] \in Terminal \/ faults > 0

\* The comment at the cancel request: the guards of the callback and of
\* forwardToCollector keep the row cancelled.
CancelKept ==
  [][\A d \in Docs : status[d] = "cancelled" => status'[d] = "cancelled"]_vars

\* vectorCleanupAt says that the purge succeeded.
CleanedHasNoVectors == \A d \in cleaned : vectors[d] = {}
=============================================================================
