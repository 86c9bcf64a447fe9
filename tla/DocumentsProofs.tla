---------------------------- MODULE DocumentsProofs ----------------------------
\* Theorems of Documents for any documents, dispatches, requests, faults and
\* texts.  DocShape relates each dispatch, callback and request to the row it works
\* on; VectorsLine and ChunksLine say how far a dispatch is with the vectors and the
\* chunks of a document that it alone works on.
EXTENDS Documents, FiniteSetTheorems, TLAPS

JobPlaces == {"idle", "put", "claim", "read", "post", "drop", "save", "complete", "check",
              "fail", "unlink", "done"}
JobRecords == [at : JobPlaces, doc : Docs \cup {None}, text : Texts \cup {None}, keep : BOOLEAN]
IngestPlaces == {"poll", "add", "undo", "none", "cancelled", "lost", "closing", "failing"}
IngestRecords == [at : IngestPlaces, stored : BOOLEAN, left : 0..Units]
Calls == {NoCall} \cup [at : {"sent", "write", "clean"}, says : {"processing", "completed", "failed"}]
RequestRecords == [at : {"idle", "cancel", "edit", "reset"}, doc : Docs \cup {None}]
AllStatuses == {"pending", "processing", "completed", "failed", "cancelled", None}

Typed ==
  /\ status \in [Docs -> AllStatuses]
  /\ deleted \subseteq Docs /\ cleaned \subseteq deleted
  /\ tries \in [Docs -> 0..MaxTries]
  /\ source \in [Docs -> Keys \cup {None}]
  /\ origin \in [Docs -> {"upload", "draft", "connector", None}]
  /\ chunks \in [Docs -> Texts \cup {None}]
  /\ vectors \in [Docs -> SUBSET Texts]
  /\ file \in [Keys -> Texts \cup {None}]
  /\ job \in [Dispatches -> JobRecords]
  /\ ingest \in [Dispatches -> IngestRecords]
  /\ call \in [Dispatches -> Calls] /\ stray \in [Dispatches -> Calls]
  /\ request \in [Users -> RequestRecords]
  /\ purging \subseteq deleted
  /\ faults \in 0..MaxFaults
  /\ latest \in [Docs -> Dispatches \cup {None}]
  /\ mishap \subseteq Docs

\* A dispatch that was started has a row, and one that was not has nothing; a
\* collector at work has a text, and work left until it adds it.
DispatchKnown(p) ==
  /\ job[p].at = "idle" => job[p] = IdleJob /\ ingest[p] = NoIngest /\ call[p] = NoCall /\ stray[p] = NoCall
  /\ job[p].at # "idle" => job[p].doc \in Docs /\ status[job[p].doc] # None
  /\ job[p].at = "put" => job[p].text # None
  /\ job[p].at \in {"put", "claim", "read"} => source[job[p].doc] # None /\ ingest[p].at = "none"
  /\ ingest[p].at \in {"poll", "add", "undo"} => job[p].text # None
  /\ ingest[p].at = "poll" /\ ~ ingest[p].stored => ingest[p].left # 0
  /\ call[p].at = "clean" => source[job[p].doc] \notin DraftKeys
  /\ stray[p].at = "clean" => source[job[p].doc] \notin DraftKeys

RequestKnown(u) ==
  IF request[u].at = "idle" THEN request[u] = IdleRequest
  ELSE /\ request[u].doc \in Docs /\ status[request[u].doc] # None
       /\ request[u].at \in {"edit", "reset"} => EditKey(request[u].doc) # None

DocShape ==
  /\ Typed /\ StagedFileKept
  /\ \A p \in Dispatches : DispatchKnown(p)
  /\ \A u \in Users : RequestKnown(u)
  /\ \A d \in Docs : status[d] # None => latest[d] \in Dispatches /\ job[latest[d]].doc = d

\* The only dispatch of a document, once it has something completed to show for
\* it, stored its vectors and does not work on them any more.
AtWork == {"poll", "add", "undo"}
Completes(p, d) ==
  \/ status[d] = "completed" \/ call[p].says = "completed" \/ stray[p].says = "completed"
  \/ ingest[p].at = "closing" \/ job[p].at \in {"drop", "save", "complete"}
VectorsLine(d, p) ==
  /\ Completes(p, d) => /\ vectors[d] # {} /\ ingest[p].at \notin AtWork
                        /\ job[p].at \notin {"put", "claim", "read"}
  /\ ingest[p].at = "poll" /\ ingest[p].stored => vectors[d] # {}
VectorsInv == \A d \in Docs \ deleted, p \in Dispatches : Of(d) = {p} => VectorsLine(d, p)

\* Without a mishap only the last dispatch of a document is not over, its collector
\* works while it waits, and it completes only by way of its chunks.
Spent(p) == job[p].at = "done" /\ call[p] = NoCall /\ stray[p] = NoCall
WellEnded(p, d) ==
  \/ job[p].at = "post" /\ ingest[p].at \in {"closing", "lost"}
  \/ job[p].at \in {"drop", "save", "complete"}
  \/ job[p].at = "done" /\ chunks[d] = job[p].text
ChunksLine(p, d) ==
  /\ p = latest[d] \/ Spent(p)
  /\ ingest[p].at \in AtWork => job[p].at = "post"
  /\ p = latest[d] /\ origin[d] # "connector" =>
       /\ job[p].at = "save" => chunks[d] = None
       /\ job[p].at = "complete" => chunks[d] = job[p].text
       /\ status[d] = "completed" \/ call[p].says = "completed" \/ stray[p].says = "completed"
            => WellEnded(p, d)
ChunksInv == \A d \in Docs \ (deleted \cup mishap), p \in Dispatches : job[p].doc = d => ChunksLine(p, d)

DocInv == DocShape /\ VectorsInv /\ ChunksInv

-------------------------------------------------------------------------------
(* How an action changes the record of a dispatch.                             *)

JobOnly(p) == job' \in [Dispatches -> JobRecords] /\ \A q \in Dispatches \ {p} : job'[q] = job[q]
IngestOnly(p) == ingest' \in [Dispatches -> IngestRecords] /\ \A q \in Dispatches \ {p} : ingest'[q] = ingest[q]
StatusOnly(d) == status' \in [Docs -> AllStatuses] /\ \A e \in Docs \ {d} : status'[e] = status[e]

LEMMA SomeRecords ==
  /\ IdleJob \in JobRecords /\ NoIngest \in IngestRecords /\ NewIngest \in IngestRecords
  /\ NoCall \in Calls /\ IdleRequest \in RequestRecords
  /\ NoCall.says = None /\ NoCall.at = "none" /\ IdleJob.doc = None /\ IdleJob.at = "idle"
  /\ NoIngest.at = "none" /\ NoIngest.stored = FALSE
  /\ NewIngest.at = "poll" /\ NewIngest.stored = FALSE /\ NewIngest.left = Units /\ Units # 0
  /\ IdleRequest.at = "idle" /\ IdleRequest.doc = None
<1>1. Units \in 0..Units /\ 0 \in 0..Units /\ Units # 0
  BY DocumentsAssumption
<1> QED BY <1>1 DEF IdleJob, JobRecords, JobPlaces, NoIngest, NewIngest, IngestRecords, IngestPlaces,
           NoCall, Calls, IdleRequest, RequestRecords

LEMMA JobAtEffect ==
  ASSUME Typed, NEW p \in Dispatches, NEW at \in JobPlaces, JobAt(p, at)
  PROVE  /\ JobOnly(p) /\ job'[p].at = at
         /\ job'[p].doc = job[p].doc /\ job'[p].text = job[p].text
<1>1. job \in [Dispatches -> JobRecords] /\ job[p] \in JobRecords
  BY DEF Typed
<1>2. /\ job'[p] = [job[p] EXCEPT !.at = at]
      /\ \A q \in Dispatches \ {p} : job'[q] = job[q]
      /\ job' = [job EXCEPT ![p] = job'[p]]
  BY <1>1 DEF JobAt
<1>3. job'[p] \in JobRecords /\ job'[p].at = at /\ job'[p].doc = job[p].doc /\ job'[p].text = job[p].text
  BY <1>1, <1>2 DEF JobRecords
<1> QED BY <1>1, <1>2, <1>3 DEF JobOnly

LEMMA IngestAtEffect ==
  ASSUME Typed, NEW p \in Dispatches, NEW at \in IngestPlaces, IngestAt(p, at)
  PROVE  IngestOnly(p) /\ ingest'[p].at = at /\ ingest'[p].stored = ingest[p].stored
<1>1. ingest \in [Dispatches -> IngestRecords] /\ ingest[p] \in IngestRecords
  BY DEF Typed
<1>2. /\ ingest'[p] = [ingest[p] EXCEPT !.at = at]
      /\ \A q \in Dispatches \ {p} : ingest'[q] = ingest[q]
      /\ ingest' = [ingest EXCEPT ![p] = ingest'[p]]
  BY <1>1 DEF IngestAt
<1>3. ingest'[p] \in IngestRecords /\ ingest'[p].at = at /\ ingest'[p].stored = ingest[p].stored
  BY <1>1, <1>2 DEF IngestRecords
<1> QED BY <1>1, <1>2, <1>3 DEF IngestOnly

LEMMA EndIngestEffect ==
  ASSUME Typed, NEW p \in Dispatches, NEW at \in IngestPlaces, EndIngest(p, at)
  PROVE  IngestOnly(p) /\ ingest'[p].at = at
<1>1. PICK n : n = [NoIngest EXCEPT !.at = at] /\ ingest' = [ingest EXCEPT ![p] = n]
  BY DEF EndIngest
<1>2. n \in IngestRecords /\ n.at = at
  BY <1>1, SomeRecords DEF IngestRecords
<1> QED BY <1>1, <1>2 DEF IngestOnly, Typed

LEMMA SendEffect ==
  ASSUME Typed, NEW p \in Dispatches, NEW says \in {"processing", "completed", "failed"}, Send(p, says)
  PROVE  /\ call' \in [Dispatches -> Calls] /\ \A q \in Dispatches \ {p} : call'[q] = call[q]
         /\ call'[p].at = "sent" /\ call'[p].says = says
<1>1. PICK n : n = [at |-> "sent", says |-> says] /\ call' = [call EXCEPT ![p] = n]
  BY DEF Send
<1>2. n \in Calls /\ n.at = "sent" /\ n.says = says
  BY <1>1 DEF Calls
<1> QED BY <1>1, <1>2 DEF Typed

LEMMA StatusEffect ==
  ASSUME Typed, NEW d \in Docs, NEW s \in AllStatuses, WriteStatus(d, s)
  PROVE  StatusOnly(d) /\ status'[d] = s
BY DEF Typed, WriteStatus, StatusOnly

-------------------------------------------------------------------------------
(* The steps of one dispatch.                                                  *)

\* The step changes only the dispatch p and the row, vectors and chunks of its
\* document d.
Local(p, d) ==
  /\ job[p].doc = d /\ job'[p].doc = d
  /\ \A q \in Dispatches \ {p} : /\ job'[q] = job[q] /\ ingest'[q] = ingest[q]
                                 /\ call'[q] = call[q] /\ stray'[q] = stray[q]
  /\ \A e \in Docs \ {d} : status'[e] = status[e] /\ vectors'[e] = vectors[e] /\ chunks'[e] = chunks[e]
  /\ status'[d] # None
  /\ UNCHANGED <<deleted, origin, latest, source, request>>
  /\ mishap' = mishap \/ (mishap \subseteq mishap' /\ d \in deleted \cup mishap')

LEMMA LocalShape ==
  ASSUME DocShape, NEW p \in Dispatches, NEW d \in Docs, Local(p, d), Typed', StagedFileKept', DispatchKnown(p)'
  PROVE  DocShape'
<1>1. \A e \in Docs : status[e] # None => status'[e] # None
  BY DEF Local
<1>2. ASSUME NEW q \in Dispatches, q # p PROVE DispatchKnown(q)'
  <2>1. DispatchKnown(q) /\ job'[q] = job[q] /\ ingest'[q] = ingest[q] /\ call'[q] = call[q] /\ stray'[q] = stray[q]
        /\ source' = source
    BY <1>2 DEF DocShape, Local
  <2> QED BY <1>1, <2>1 DEF DispatchKnown
<1>3. \A u \in Users : RequestKnown(u)'
  BY <1>1 DEF DocShape, RequestKnown, EditKey, Local
<1>4. \A e \in Docs : status'[e] # None => latest'[e] \in Dispatches /\ job'[latest'[e]].doc = e
  <2> SUFFICES ASSUME NEW e \in Docs, status'[e] # None PROVE latest'[e] \in Dispatches /\ job'[latest'[e]].doc = e
    OBVIOUS
  <2>1. status[e] # None
    <3>1. CASE e = d
      <4>1. job[p].at # "idle"
        BY SomeRecords, DocumentsAssumption DEF DocShape, DispatchKnown, Local
      <4> QED BY <3>1, <4>1 DEF DocShape, DispatchKnown, Local
    <3>2. CASE e # d
      BY <3>2 DEF Local
    <3> QED BY <3>1, <3>2
  <2>2. latest[e] \in Dispatches /\ job[latest[e]].doc = e /\ latest' = latest
    BY <2>1 DEF DocShape, Local
  <2> QED BY <2>2 DEF Local
<1> QED BY <1>2, <1>3, <1>4 DEF DocShape

LEMMA LocalStep ==
  ASSUME DocInv, NEW p \in Dispatches, NEW d \in Docs, Local(p, d),
         ingest[p].at \in AtWork \/ ~ Spent(p),
         Typed', StagedFileKept', DispatchKnown(p)',
         d \notin deleted /\ VectorsLine(d, p) => VectorsLine(d, p)',
         d \notin deleted \cup mishap' /\ p = latest[d] /\ ChunksLine(p, d) => ChunksLine(p, d)'
  PROVE  DocInv'
<1>1. DocShape'
  BY LocalShape DEF DocInv
<1>2. VectorsInv'
  <2> SUFFICES ASSUME NEW e \in Docs \ deleted, NEW q \in Dispatches, (Of(e) = {q})'
               PROVE  VectorsLine(e, q)'
    BY DEF VectorsInv, Local
  <2>1. Of(e) = {q}
    <3>1. \A r \in Dispatches : job'[r].doc = job[r].doc
      BY DEF Local
    <3> QED BY <3>1 DEF Of
  <2>2. VectorsLine(e, q)
    BY <2>1 DEF DocInv, VectorsInv
  <2>3. CASE q = p
    <3>1. e = d
      BY <2>1, <2>3 DEF Of, Local
    <3> QED BY <2>2, <2>3, <3>1
  <2>4. CASE q # p
    <3>1. e # d
      BY <2>1, <2>4 DEF Of, Local
    <3> QED BY <2>2, <2>4, <3>1 DEF VectorsLine, Completes, Local
  <2> QED BY <2>3, <2>4
<1>3. ChunksInv'
  <2> SUFFICES ASSUME NEW e \in Docs \ (deleted \cup mishap'), NEW q \in Dispatches, job'[q].doc = e
               PROVE  ChunksLine(q, e)'
    BY DEF ChunksInv, Local
  <2>1. job[q].doc = e /\ e \notin mishap
    BY DEF Local
  <2>2. ChunksLine(q, e)
    BY <2>1 DEF DocInv, ChunksInv
  <2>3. CASE e # d
    <3>1. q # p
      BY <2>1, <2>3 DEF Local
    <3> QED BY <2>2, <2>3, <3>1 DEF ChunksLine, WellEnded, Spent, Local
  <2>4. CASE e = d
    <3>1. ChunksLine(p, d)
      BY <2>1, <2>4 DEF DocInv, ChunksInv, Local
    <3>2. p = latest[d]
      BY <3>1 DEF ChunksLine, Spent, AtWork
    <3>3. CASE q = p
      BY <2>4, <3>1, <3>2, <3>3
    <3>4. CASE q # p
      <4>1. Spent(q) /\ q # latest[d]
        BY <2>2, <2>4, <3>2, <3>4 DEF ChunksLine
      <4> QED BY <2>2, <2>4, <3>4, <4>1 DEF ChunksLine, Spent, Local
    <3> QED BY <3>3, <3>4
  <2> QED BY <2>3, <2>4
<1> QED BY <1>1, <1>2, <1>3 DEF DocInv

\* A step of p in the server that writes neither vectors nor callbacks.
LEMMA JobOnlyStep ==
  ASSUME DocInv, NEW p \in Dispatches, NEW d \in Docs, job[p].doc = d, ~ Spent(p) \/ ingest[p].at \in AtWork,
         job[p].at # "idle", JobOnly(p), job'[p].doc = d, job'[p].at # "idle",
         job'[p].at = "put" => job'[p].text # None,
         job'[p].at \in {"put", "claim", "read"} => job[p].at \in {"put", "claim", "read"} /\ ingest' = ingest,
         job[p].text # None => job'[p].text # None,
         IngestOnly(p), ingest'[p].at \in AtWork => job'[p].text # None,
         ingest'[p].at = "poll" /\ ~ ingest'[p].stored => ingest'[p].left # 0,
         UNCHANGED <<vectors, deleted, cleaned, tries, source, origin, call, stray, users, faults, latest>>,
         StatusOnly(d), status'[d] # None,
         chunks' \in [Docs -> Texts \cup {None}], \A e \in Docs \ {d} : chunks'[e] = chunks[e],
         file' \in [Keys -> Texts \cup {None}], StagedFileKept',
         mishap' = mishap \/ Mishap({d}),
         d \notin deleted /\ VectorsLine(d, p) => VectorsLine(d, p)',
         d \notin deleted \cup mishap' /\ p = latest[d] /\ ChunksLine(p, d) => ChunksLine(p, d)'
  PROVE  DocInv'
<1>1. Typed /\ DispatchKnown(p)
  BY DEF DocInv, DocShape
<1>2. UNCHANGED <<request, purging>>
  BY DEF users
<1>3. mishap' \subseteq Docs /\ (mishap' = mishap \/ (mishap \subseteq mishap' /\ d \in deleted \cup mishap'))
  BY <1>1 DEF Mishap, Typed
<1>4. Typed'
  BY <1>1, <1>2, <1>3 DEF Typed, JobOnly, IngestOnly, StatusOnly
<1>5. DispatchKnown(p)'
  BY <1>1 DEF DispatchKnown, AtWork
<1>6. Local(p, d)
  BY <1>2, <1>3 DEF Local, JobOnly, IngestOnly, StatusOnly
<1> QED BY <1>4, <1>5, <1>6, LocalStep

\* Where a dispatch and its row are, for the steps below.
LEMMA DispatchPlaces ==
  ASSUME DocInv, NEW p \in Dispatches
  PROVE  /\ Typed /\ StagedFileKept /\ DispatchKnown(p)
         /\ job[p] \in JobRecords /\ ingest[p] \in IngestRecords /\ call[p] \in Calls /\ stray[p] \in Calls
         /\ ingest[p].at \in AtWork \/ call[p] # NoCall \/ stray[p] # NoCall => job[p].at # "idle"
         /\ job[p].at # "idle" => job[p].doc \in Docs /\ status[job[p].doc] # None
         /\ job[p].at \notin {"idle", "done"} => ~ Spent(p)
BY SomeRecords DEF DocInv, DocShape, Typed, DispatchKnown, AtWork, Spent

LEMMA Unmoved ==
  ASSUME Typed, NEW p \in Dispatches, NEW d \in Docs
  PROVE  /\ ingest' = ingest => IngestOnly(p)
         /\ job' = job => JobOnly(p)
         /\ status' = status => StatusOnly(d)
         /\ chunks' = chunks => chunks' \in [Docs -> Texts \cup {None}]
         /\ file' = file => file' \in [Keys -> Texts \cup {None}]
         /\ file' = file /\ StagedFileKept => StagedFileKept'
BY DEF Typed, IngestOnly, JobOnly, StatusOnly, StagedFileKept

LEMMA PutInv ==
  ASSUME DocInv, NEW p \in Dispatches, Put(p)
  PROVE  DocInv'
<1>1. /\ job[p].at = "put"
      /\ JobAt(p, "claim") \/ JobAt(p, "done")
      /\ \/ file' = [file EXCEPT ![source[job[p].doc]] = job[p].text]
         \/ file' = file
      /\ UNCHANGED <<table, chunks, vectors, ingest, call, stray, users, history>>
  BY DEF Put
<1>2. PICK d \in Docs : d = job[p].doc
  BY <1>1, DispatchPlaces
<1>3. /\ Typed /\ StagedFileKept /\ DispatchKnown(p) /\ status[d] # None /\ ~ Spent(p)
      /\ job[p].text \in Texts
  BY <1>1, <1>2, DispatchPlaces DEF DispatchKnown, JobRecords
<1>4. /\ JobOnly(p) /\ job'[p].at \in {"claim", "done"} /\ job'[p].doc = d /\ job'[p].text = job[p].text
  BY <1>1, <1>2, <1>3, JobAtEffect DEF JobPlaces
<1>5. UNCHANGED <<status, deleted, cleaned, tries, source, origin, chunks, faults, latest, mishap>>
  BY <1>1 DEF table, history
<1>6. file' \in [Keys -> Texts \cup {None}] /\ StagedFileKept'
  <2>1. None \notin Texts /\ DraftKeys \subseteq Keys
    BY DocumentsAssumption DEF Keys
  <2> QED BY <1>1, <1>3, <2>1 DEF Typed, StagedFileKept
<1>7. VectorsLine(d, p) => VectorsLine(d, p)'
  BY <1>1, <1>4, <1>5 DEF VectorsLine, Completes
<1>8. p = latest[d] /\ ChunksLine(p, d) => ChunksLine(p, d)'
  BY <1>1, <1>4, <1>5 DEF ChunksLine, WellEnded, Spent, AtWork
<1>9. ingest'[p].at \notin AtWork \/ job'[p].text # None
  BY <1>3, <1>4, DocumentsAssumption
<1> QED BY <1>1, <1>2, <1>3, <1>4, <1>5, <1>6, <1>7, <1>8, <1>9, Unmoved, JobOnlyStep DEF DispatchKnown

LEMMA ClaimInv ==
  ASSUME DocInv, NEW p \in Dispatches, Claim(p)
  PROVE  DocInv'
<1>2. PICK d \in Docs : d = job[p].doc
  BY DispatchPlaces DEF Claim
<1>1. /\ job[p].at = "claim"
      /\ \/ WriteStatus(d, "processing") /\ JobAt(p, "read")
         \/ status' = status /\ JobAt(p, "done")
      /\ UNCHANGED <<deleted, cleaned, tries, source, origin, stores, ingest, call, stray, users, history>>
  BY <1>2 DEF Claim
<1>3. Typed /\ StagedFileKept /\ DispatchKnown(p) /\ status[d] # None /\ ~ Spent(p)
  BY <1>1, <1>2, DispatchPlaces
<1>4. JobOnly(p) /\ job'[p].at \in {"read", "done"} /\ job'[p].doc = d /\ job'[p].text = job[p].text
  BY <1>1, <1>2, <1>3, JobAtEffect DEF JobPlaces
<1>5. UNCHANGED <<deleted, cleaned, tries, source, origin, chunks, vectors, file, faults, latest, mishap>>
  BY <1>1 DEF stores, history
<1>6. StatusOnly(d) /\ status'[d] # None /\ (status'[d] = "completed" => status[d] = "completed")
  <2>1. CASE WriteStatus(d, "processing")
    BY <1>3, <2>1, StatusEffect, DocumentsAssumption DEF AllStatuses
  <2>2. CASE status' = status
    BY <1>3, <2>2, Unmoved
  <2> QED BY <1>1, <2>1, <2>2
<1>7. VectorsLine(d, p) => VectorsLine(d, p)'
  BY <1>1, <1>4, <1>5, <1>6 DEF VectorsLine, Completes
<1>8. p = latest[d] /\ ChunksLine(p, d) => ChunksLine(p, d)'
  BY <1>1, <1>4, <1>5, <1>6 DEF ChunksLine, WellEnded, Spent, AtWork
<1> QED BY <1>1, <1>2, <1>3, <1>4, <1>5, <1>6, <1>7, <1>8, Unmoved, JobOnlyStep DEF DispatchKnown, AtWork

LEMMA PostInv ==
  ASSUME DocInv, NEW p \in Dispatches, Post(p)
  PROVE  DocInv'
<1>2. PICK d \in Docs : d = job[p].doc
  BY DispatchPlaces DEF Post
<1>1. /\ job[p].at = "read"
      /\ \/ /\ file[source[d]] # None
            /\ job' = [job EXCEPT ![p].at = "post", ![p].text = file[source[d]]]
            /\ ingest' = [ingest EXCEPT ![p] = NewIngest]
         \/ JobAt(p, "check") /\ ingest' = ingest
      /\ UNCHANGED <<table, stores, call, stray, users, history>>
  BY <1>2 DEF Post
<1>3. Typed /\ StagedFileKept /\ DispatchKnown(p) /\ status[d] # None /\ ~ Spent(p)
  BY <1>1, <1>2, DispatchPlaces
<1>5. UNCHANGED <<status, deleted, cleaned, tries, source, origin, chunks, vectors, file, faults, latest, mishap>>
  BY <1>1 DEF table, stores, history
<1>4. /\ JobOnly(p) /\ IngestOnly(p) /\ job'[p].at \in {"post", "check"} /\ job'[p].doc = d
      /\ \/ job'[p].at = "post" /\ ingest'[p] = NewIngest /\ job'[p].text # None
         \/ ingest'[p] = ingest[p] /\ job'[p].text = job[p].text /\ job'[p].at = "check"
  <2>1. CASE JobAt(p, "check") /\ ingest' = ingest
    BY <1>2, <1>3, <2>1, JobAtEffect, Unmoved DEF JobPlaces
  <2>2. ASSUME file[source[d]] # None, ingest' = [ingest EXCEPT ![p] = NewIngest],
               job' = [job EXCEPT ![p].at = "post", ![p].text = file[source[d]]]
        PROVE  /\ JobOnly(p) /\ IngestOnly(p) /\ job'[p].at = "post" /\ job'[p].doc = d
               /\ ingest'[p] = NewIngest /\ job'[p].text # None
    <3>1. source[d] \in Keys
      BY <1>1, <1>2, <1>3 DEF DispatchKnown, Typed
    <3>2. PICK t \in Texts : t = file[source[d]] /\ t # None
      BY <2>2, <3>1, <1>3 DEF Typed
    <3>3. job' = [job EXCEPT ![p] = [job[p] EXCEPT !.at = "post", !.text = t]]
      BY <2>2, <3>2, <1>3 DEF Typed
    <3>4. job[p] \in JobRecords /\ job \in [Dispatches -> JobRecords] /\ ingest \in [Dispatches -> IngestRecords]
      BY <1>3 DEF Typed
    <3>5. PICK r : r = [job[p] EXCEPT !.at = "post", !.text = t]
      OBVIOUS
    <3>6. r \in JobRecords /\ r.at = "post" /\ r.doc = d /\ r.text = t
      BY <1>2, <3>4, <3>5 DEF JobRecords, JobPlaces
    <3>7. JobOnly(p) /\ job'[p] = r
      BY <3>3, <3>4, <3>5, <3>6 DEF JobOnly
    <3>8. IngestOnly(p) /\ ingest'[p] = NewIngest
      BY <2>2, <3>4, SomeRecords DEF IngestOnly
    <3> QED BY <3>2, <3>6, <3>7, <3>8
  <2> QED BY <1>1, <2>1, <2>2
<1>7. VectorsLine(d, p) => VectorsLine(d, p)'
  BY <1>1, <1>4, <1>5, SomeRecords DEF VectorsLine, Completes
<1>8. p = latest[d] /\ ChunksLine(p, d) => ChunksLine(p, d)'
  BY <1>1, <1>4, <1>5, SomeRecords DEF ChunksLine, WellEnded, Spent, AtWork
<1>9. /\ ingest'[p].at \in AtWork => job'[p].text # None
      /\ job[p].text # None => job'[p].text # None
      /\ ingest'[p].at = "poll" /\ ~ ingest'[p].stored => ingest'[p].left # 0
  BY <1>3, <1>4, SomeRecords DEF DispatchKnown, AtWork
<1> QED BY <1>1, <1>2, <1>3, <1>4, <1>5, <1>7, <1>8, <1>9, Unmoved, JobOnlyStep

LEMMA DropChunksInv ==
  ASSUME DocInv, NEW p \in Dispatches, DropChunks(p)
  PROVE  DocInv'
<1>2. PICK d \in Docs : d = job[p].doc
  BY DispatchPlaces DEF DropChunks
<1>1. /\ job[p].at = "drop"
      /\ \/ chunks' = [chunks EXCEPT ![d] = None] /\ JobAt(p, "save") /\ mishap' = mishap
         \/ chunks' = chunks /\ JobAt(p, "complete") /\ Mishap({d})
      /\ UNCHANGED <<table, vectors, file, ingest, call, stray, users, faults, latest>>
  BY <1>2 DEF DropChunks
<1>3. Typed /\ StagedFileKept /\ DispatchKnown(p) /\ status[d] # None /\ ~ Spent(p)
  BY <1>1, <1>2, DispatchPlaces
<1>4. JobOnly(p) /\ job'[p].at \in {"save", "complete"} /\ job'[p].doc = d /\ job'[p].text = job[p].text
  BY <1>1, <1>2, <1>3, JobAtEffect DEF JobPlaces
<1>5. UNCHANGED <<status, deleted, cleaned, tries, source, origin, vectors, file, faults, latest>>
  BY <1>1 DEF table
<1>6. /\ chunks' \in [Docs -> Texts \cup {None}] /\ \A e \in Docs \ {d} : chunks'[e] = chunks[e]
      /\ \/ chunks'[d] = None /\ job'[p].at = "save" /\ mishap' = mishap
         \/ Mishap({d})
  BY <1>1, <1>3, JobAtEffect DEF Typed, JobPlaces
<1>7. VectorsLine(d, p) => VectorsLine(d, p)'
  BY <1>1, <1>4, <1>5 DEF VectorsLine, Completes
<1>8. d \notin deleted \cup mishap' /\ p = latest[d] /\ ChunksLine(p, d) => ChunksLine(p, d)'
  BY <1>1, <1>4, <1>5, <1>6 DEF ChunksLine, WellEnded, Spent, AtWork, Mishap
<1> QED BY <1>1, <1>2, <1>3, <1>4, <1>5, <1>6, <1>7, <1>8, Unmoved, JobOnlyStep DEF DispatchKnown, AtWork

LEMMA SaveChunksInv ==
  ASSUME DocInv, NEW p \in Dispatches, SaveChunks(p)
  PROVE  DocInv'
<1>2. PICK d \in Docs : d = job[p].doc
  BY DispatchPlaces DEF SaveChunks
<1>1. /\ job[p].at = "save" /\ JobAt(p, "complete")
      /\ chunks' = [chunks EXCEPT ![d] = IF chunks[d] = None THEN job[p].text ELSE chunks[d]]
      /\ UNCHANGED <<table, vectors, file, ingest, call, stray, users, history>>
  BY <1>2 DEF SaveChunks
<1>3. Typed /\ StagedFileKept /\ DispatchKnown(p) /\ status[d] # None /\ ~ Spent(p) /\ job[p] \in JobRecords
  BY <1>1, <1>2, DispatchPlaces
<1>4. JobOnly(p) /\ job'[p].at = "complete" /\ job'[p].doc = d /\ job'[p].text = job[p].text
  BY <1>1, <1>2, <1>3, JobAtEffect DEF JobPlaces
<1>5. UNCHANGED <<status, deleted, cleaned, tries, source, origin, vectors, file, faults, latest, mishap>>
  BY <1>1 DEF table, history
<1>6. /\ chunks' \in [Docs -> Texts \cup {None}] /\ \A e \in Docs \ {d} : chunks'[e] = chunks[e]
      /\ chunks[d] = None => chunks'[d] = job[p].text
  <2>1. job[p].text \in Texts \cup {None} /\ chunks[d] \in Texts \cup {None}
    BY <1>3 DEF Typed, JobRecords
  <2> QED BY <1>1, <1>3, <2>1 DEF Typed
<1>7. VectorsLine(d, p) => VectorsLine(d, p)'
  BY <1>1, <1>4, <1>5 DEF VectorsLine, Completes
<1>8. p = latest[d] /\ ChunksLine(p, d) => ChunksLine(p, d)'
  BY <1>1, <1>4, <1>5, <1>6 DEF ChunksLine, WellEnded, Spent, AtWork
<1> QED BY <1>1, <1>2, <1>3, <1>4, <1>5, <1>6, <1>7, <1>8, Unmoved, JobOnlyStep DEF DispatchKnown, AtWork

LEMMA CompleteInv ==
  ASSUME DocInv, NEW p \in Dispatches, Complete(p)
  PROVE  DocInv'
<1>2. PICK d \in Docs : d = job[p].doc
  BY DispatchPlaces DEF Complete
<1>1. /\ job[p].at = "complete" /\ JobAt(p, "done") /\ WriteStatus(d, "completed")
      /\ UNCHANGED <<deleted, cleaned, tries, source, origin, stores, ingest, call, stray, users, history>>
  BY <1>2 DEF Complete
<1>3. Typed /\ StagedFileKept /\ DispatchKnown(p) /\ status[d] # None /\ ~ Spent(p)
  BY <1>1, <1>2, DispatchPlaces
<1>4. JobOnly(p) /\ job'[p].at = "done" /\ job'[p].doc = d /\ job'[p].text = job[p].text
  BY <1>1, <1>2, <1>3, JobAtEffect DEF JobPlaces
<1>5. UNCHANGED <<deleted, cleaned, tries, source, origin, chunks, vectors, file, faults, latest, mishap>>
  BY <1>1 DEF stores, history
<1>6. StatusOnly(d) /\ status'[d] # None
  BY <1>1, <1>3, StatusEffect, DocumentsAssumption DEF AllStatuses
<1>7. VectorsLine(d, p) => VectorsLine(d, p)'
  BY <1>1, <1>4, <1>5 DEF VectorsLine, Completes
<1>8. p = latest[d] /\ ChunksLine(p, d) => ChunksLine(p, d)'
  BY <1>1, <1>4, <1>5 DEF ChunksLine, WellEnded, Spent, AtWork
<1> QED BY <1>1, <1>2, <1>3, <1>4, <1>5, <1>6, <1>7, <1>8, Unmoved, JobOnlyStep DEF DispatchKnown, AtWork

LEMMA CheckInv ==
  ASSUME DocInv, NEW p \in Dispatches, Check(p)
  PROVE  DocInv'
<1>2. PICK d \in Docs : d = job[p].doc
  BY DispatchPlaces DEF Check
<1>1. /\ job[p].at = "check"
      /\ JobAt(p, "done") \/ JobAt(p, "fail")
      /\ UNCHANGED <<table, stores, ingest, call, stray, users, history>>
  BY <1>2 DEF Check
<1>3. Typed /\ StagedFileKept /\ DispatchKnown(p) /\ status[d] # None /\ ~ Spent(p)
  BY <1>1, <1>2, DispatchPlaces
<1>4. JobOnly(p) /\ job'[p].at \in {"done", "fail"} /\ job'[p].doc = d /\ job'[p].text = job[p].text
  BY <1>1, <1>2, <1>3, JobAtEffect DEF JobPlaces
<1>5. UNCHANGED <<status, deleted, cleaned, tries, source, origin, chunks, vectors, file, faults, latest, mishap>>
  BY <1>1 DEF table, stores, history
<1>7. VectorsLine(d, p) => VectorsLine(d, p)'
  BY <1>1, <1>4, <1>5 DEF VectorsLine, Completes
<1>8. p = latest[d] /\ ChunksLine(p, d) => ChunksLine(p, d)'
  BY <1>1, <1>4, <1>5 DEF ChunksLine, WellEnded, Spent, AtWork
<1> QED BY <1>1, <1>2, <1>3, <1>4, <1>5, <1>7, <1>8, Unmoved, JobOnlyStep DEF DispatchKnown, AtWork

LEMMA FailInv ==
  ASSUME DocInv, NEW p \in Dispatches, Fail(p)
  PROVE  DocInv'
<1>2. PICK d \in Docs : d = job[p].doc
  BY DispatchPlaces DEF Fail
<1>1. /\ job[p].at = "fail" /\ WriteStatus(d, "failed")
      /\ JobAt(p, "done") \/ JobAt(p, "unlink")
      /\ UNCHANGED <<deleted, cleaned, tries, source, origin, stores, ingest, call, stray, users, history>>
  BY <1>2 DEF Fail
<1>3. Typed /\ StagedFileKept /\ DispatchKnown(p) /\ status[d] # None /\ ~ Spent(p)
  BY <1>1, <1>2, DispatchPlaces
<1>4. JobOnly(p) /\ job'[p].at \in {"done", "unlink"} /\ job'[p].doc = d /\ job'[p].text = job[p].text
  BY <1>1, <1>2, <1>3, JobAtEffect DEF JobPlaces
<1>5. UNCHANGED <<deleted, cleaned, tries, source, origin, chunks, vectors, file, faults, latest, mishap>>
  BY <1>1 DEF stores, history
<1>6. StatusOnly(d) /\ status'[d] # None /\ status'[d] # "completed"
  BY <1>1, <1>3, StatusEffect, DocumentsAssumption DEF AllStatuses
<1>7. VectorsLine(d, p) => VectorsLine(d, p)'
  BY <1>1, <1>4, <1>5, <1>6 DEF VectorsLine, Completes
<1>8. p = latest[d] /\ ChunksLine(p, d) => ChunksLine(p, d)'
  BY <1>1, <1>4, <1>5, <1>6 DEF ChunksLine, WellEnded, Spent, AtWork
<1> QED BY <1>1, <1>2, <1>3, <1>4, <1>5, <1>6, <1>7, <1>8, Unmoved, JobOnlyStep DEF DispatchKnown, AtWork

LEMMA UnlinkInv ==
  ASSUME DocInv, NEW p \in Dispatches, Unlink(p)
  PROVE  DocInv'
<1>2. PICK d \in Docs : d = job[p].doc
  BY DispatchPlaces DEF Unlink
<1>1. /\ job[p].at = "unlink" /\ JobAt(p, "done")
      /\ file' = [file EXCEPT ![<<d, "bytes">>] = None]
      /\ UNCHANGED <<table, chunks, vectors, ingest, call, stray, users, history>>
  BY <1>2 DEF Unlink
<1>3. Typed /\ StagedFileKept /\ DispatchKnown(p) /\ status[d] # None /\ ~ Spent(p)
  BY <1>1, <1>2, DispatchPlaces
<1>4. JobOnly(p) /\ job'[p].at = "done" /\ job'[p].doc = d /\ job'[p].text = job[p].text
  BY <1>1, <1>2, <1>3, JobAtEffect DEF JobPlaces
<1>5. UNCHANGED <<status, deleted, cleaned, tries, source, origin, chunks, vectors, faults, latest, mishap>>
  BY <1>1 DEF table, history
<1>6. file' \in [Keys -> Texts \cup {None}] /\ StagedFileKept'
  <2>1. <<d, "bytes">> \notin DraftKeys /\ DraftKeys \subseteq Keys
    BY DocumentsAssumption DEF OwnKeys, Keys
  <2> QED BY <1>1, <1>3, <2>1 DEF Typed, StagedFileKept
<1>7. VectorsLine(d, p) => VectorsLine(d, p)'
  BY <1>1, <1>4, <1>5 DEF VectorsLine, Completes
<1>8. p = latest[d] /\ ChunksLine(p, d) => ChunksLine(p, d)'
  BY <1>1, <1>4, <1>5 DEF ChunksLine, WellEnded, Spent, AtWork
<1> QED BY <1>1, <1>2, <1>3, <1>4, <1>5, <1>6, <1>7, <1>8, Unmoved, JobOnlyStep DEF DispatchKnown, AtWork

\* Whatever the answer is, and if the call is given up, the dispatch goes on to its
\* chunks only when the collector is closing; an answer without chunks for a
\* document that is not a connector's is a mishap, or a cancel.
LEMMA AnswerInv ==
  ASSUME DocInv, NEW p \in Dispatches, Answer(p)
  PROVE  DocInv'
<1>2. PICK d \in Docs : d = job[p].doc
  BY DispatchPlaces DEF Answer
<1>1. /\ job[p].at = "post"
      /\ \/ /\ EndIngest(p, "none") /\ ingest[p].at = "closing" /\ mishap' = mishap
            /\ \/ JobAt(p, "done") /\ origin[d] = "connector"
               \/ JobAt(p, "drop")
         \/ EndIngest(p, "none") /\ ingest[p].at = "cancelled" /\ JobAt(p, "done") /\ mishap' = mishap
         \/ /\ EndIngest(p, "none") /\ ingest[p].at \in {"failing", "lost"} /\ Mishap({d})
            /\ JobAt(p, "fail") \/ JobAt(p, "check")
         \/ /\ ingest' = ingest /\ Mishap({d})
            /\ JobAt(p, "fail") \/ JobAt(p, "check")
      /\ UNCHANGED <<table, stores, call, stray, users, faults, latest>>
  BY <1>2 DEF Answer
<1>3. Typed /\ StagedFileKept /\ DispatchKnown(p) /\ status[d] # None /\ ~ Spent(p)
  BY <1>1, <1>2, DispatchPlaces
<1>4. /\ JobOnly(p) /\ job'[p].doc = d /\ job'[p].text = job[p].text
      /\ job'[p].at \in {"done", "drop", "fail", "check"}
      /\ job'[p].at = "drop" => ingest[p].at = "closing"
      /\ job'[p].at = "done" => (ingest[p].at = "closing" /\ origin[d] = "connector") \/ ingest[p].at = "cancelled"
      /\ mishap' = mishap => ingest[p].at \in {"closing", "cancelled"} \/ d \in deleted \cup mishap
      /\ ingest[p].at \in {"closing", "cancelled"} \/ d \in deleted \cup mishap'
      /\ d \in deleted \cup mishap' \/ job'[p].at \in {"done", "drop"}
  BY <1>1, <1>2, <1>3, JobAtEffect DEF JobPlaces, Mishap
<1>5. UNCHANGED <<status, deleted, cleaned, tries, source, origin, chunks, vectors, file, faults, latest>>
  BY <1>1 DEF table, stores
<1>6. /\ IngestOnly(p)
      /\ \/ ingest'[p].at = "none"
         \/ ingest'[p] = ingest[p] /\ d \in deleted \cup mishap'
  <2>1. CASE EndIngest(p, "none")
    BY <1>3, <2>1, EndIngestEffect DEF IngestPlaces
  <2>2. CASE ingest' = ingest /\ Mishap({d})
    BY <1>3, <2>2, Unmoved DEF Mishap
  <2> QED BY <1>1, <2>1, <2>2
<1>7. VectorsLine(d, p) => VectorsLine(d, p)'
  BY <1>1, <1>4, <1>5, <1>6 DEF VectorsLine, Completes, AtWork
<1>8. d \notin deleted \cup mishap' /\ p = latest[d] /\ ChunksLine(p, d) => ChunksLine(p, d)'
  <2> SUFFICES ASSUME d \notin deleted \cup mishap', ChunksLine(p, d), p = latest[d] PROVE ChunksLine(p, d)'
    OBVIOUS
  <2>1. ingest[p].at \in {"closing", "cancelled"} /\ job'[p].at \in {"done", "drop"} /\ ingest'[p].at = "none"
    BY <1>4, <1>6
  <2>2. CASE job'[p].at = "drop"
    BY <1>4, <1>5, <2>1, <2>2 DEF ChunksLine, WellEnded, AtWork
  <2>3. CASE job'[p].at = "done"
    BY <1>1, <1>4, <1>5, <2>1, <2>3 DEF ChunksLine, WellEnded, AtWork
  <2> QED BY <2>1, <2>2, <2>3
<1>9. mishap' = mishap \/ Mishap({d})
  BY <1>1
<1>10. /\ ingest'[p].at \in AtWork => job'[p].text # None
       /\ ingest'[p].at = "poll" /\ ~ ingest'[p].stored => ingest'[p].left # 0
  BY <1>3, <1>4, <1>6 DEF DispatchKnown, AtWork
<1> QED BY <1>1, <1>2, <1>3, <1>4, <1>5, <1>6, <1>7, <1>8, <1>9, <1>10, Unmoved, JobOnlyStep

-------------------------------------------------------------------------------
(* The collector and the callbacks.                                            *)

CallOnly(p) == call' \in [Dispatches -> Calls] /\ \A q \in Dispatches \ {p} : call'[q] = call[q]
StrayOnly(p) == stray' \in [Dispatches -> Calls] /\ \A q \in Dispatches \ {p} : stray'[q] = stray[q]

\* A step of p in the collector, or of one of its callbacks.
LEMMA IngestOnlyStep ==
  ASSUME DocInv, NEW p \in Dispatches, NEW d \in Docs, job[p].doc = d, job[p].at # "idle",
         ingest[p].at \in AtWork \/ ~ Spent(p),
         IngestOnly(p), CallOnly(p), StrayOnly(p), StatusOnly(d), status'[d] # None,
         UNCHANGED <<deleted, cleaned, tries, source, origin, chunks, job, users, latest, mishap>>,
         vectors' \in [Docs -> SUBSET Texts], \A e \in Docs \ {d} : vectors'[e] = vectors[e],
         file' \in [Keys -> Texts \cup {None}], StagedFileKept', faults' \in 0..MaxFaults,
         ingest'[p].at # "none" => ingest[p].at # "none",
         ingest'[p].at \in AtWork => ingest[p].at \in AtWork,
         ingest'[p].at = "poll" /\ ~ ingest'[p].stored => ingest'[p].left # 0,
         call'[p].at = "clean" => source[d] \notin DraftKeys,
         stray'[p].at = "clean" => source[d] \notin DraftKeys,
         d \notin deleted /\ VectorsLine(d, p) => VectorsLine(d, p)',
         d \notin deleted \cup mishap /\ p = latest[d] /\ ChunksLine(p, d) => ChunksLine(p, d)'
  PROVE  DocInv'
<1>1. Typed /\ DispatchKnown(p)
  BY DEF DocInv, DocShape
<1>2. UNCHANGED <<request, purging>>
  BY DEF users
<1>4. Typed'
  BY <1>1, <1>2 DEF Typed, IngestOnly, CallOnly, StrayOnly, StatusOnly
<1>5. DispatchKnown(p)'
  BY <1>1 DEF DispatchKnown, AtWork
<1>6. Local(p, d)
  BY <1>2 DEF Local, IngestOnly, CallOnly, StrayOnly, StatusOnly
<1> QED BY <1>4, <1>5, <1>6, LocalStep

LEMMA UnmovedCalls ==
  ASSUME Typed, NEW p \in Dispatches
  PROVE  /\ call' = call => CallOnly(p)
         /\ stray' = stray => StrayOnly(p)
         /\ vectors' = vectors => vectors' \in [Docs -> SUBSET Texts]
         /\ faults' = faults => faults' \in 0..MaxFaults
BY DEF Typed, CallOnly, StrayOnly

\* The collector's own steps: p is at work, and its job waits or is past a mishap.
LEMMA WorkInv ==
  ASSUME DocInv, NEW p \in Dispatches, Work(p)
  PROVE  DocInv'
<1>2. PICK d \in Docs : d = job[p].doc
  BY DispatchPlaces DEF Work, AtWork
<1>3. /\ Typed /\ StagedFileKept /\ DispatchKnown(p) /\ status[d] # None /\ job[p].at # "idle"
      /\ ingest[p] \in IngestRecords /\ ingest[p].at \in AtWork
  BY <1>2, DispatchPlaces DEF Work, AtWork
<1>1. /\ ingest[p].at = "poll" /\ ~ ingest[p].stored
      /\ \/ /\ Send(p, "processing")
            /\ ingest' = [ingest EXCEPT ![p].left = ingest[p].left - 1,
                                        ![p].at = IF ingest[p].left = 1 THEN "add" ELSE "poll"]
         \/ Send(p, "failed") /\ EndIngest(p, "failing")
      /\ UNCHANGED <<table, stores, job, stray, users, history>>
  BY <1>3 DEF Work, Typed
<1>4. UNCHANGED <<status, deleted, cleaned, tries, source, origin, chunks, vectors, file, faults, latest, mishap>>
  BY <1>1 DEF table, stores, history
<1>5. CallOnly(p) /\ call'[p].at # "clean" /\ call'[p].says # "completed"
  BY <1>1, <1>3, SendEffect DEF CallOnly
<1>6. /\ IngestOnly(p) /\ ingest'[p].at \in {"poll", "add", "failing"}
      /\ ingest'[p].at \in {"poll", "add"} => ~ ingest'[p].stored
      /\ ingest'[p].at = "poll" => ingest'[p].left # 0
  <2>1. CASE EndIngest(p, "failing")
    BY <1>3, <2>1, EndIngestEffect DEF IngestPlaces
  <2>2. ASSUME ingest' = [ingest EXCEPT ![p].left = ingest[p].left - 1,
                                        ![p].at = IF ingest[p].left = 1 THEN "add" ELSE "poll"]
        PROVE  /\ IngestOnly(p) /\ ingest'[p].at \in {"poll", "add"} /\ ~ ingest'[p].stored
               /\ ingest'[p].at = "poll" => ingest'[p].left # 0
    <3>1. PICK l, at : l = ingest[p].left - 1 /\ at = (IF ingest[p].left = 1 THEN "add" ELSE "poll")
      OBVIOUS
    <3>2. ingest[p].left \in 0..Units /\ ingest[p].left # 0 /\ Units \in Nat
      BY <1>1, <1>3, DocumentsAssumption DEF DispatchKnown, IngestRecords
    <3>3. l \in 0..Units /\ at \in {"poll", "add"} /\ (at = "poll" => l # 0)
      BY <3>1, <3>2
    <3>4. ingest' = [ingest EXCEPT ![p].left = l, ![p].at = at]
      BY <2>2, <3>1
    <3>5. /\ ingest'[p] = [ingest[p] EXCEPT !.left = l, !.at = at]
          /\ \A q \in Dispatches \ {p} : ingest'[q] = ingest[q]
          /\ ingest' = [ingest EXCEPT ![p] = ingest'[p]]
      BY <1>3, <3>4 DEF Typed
    <3>6. ingest'[p] \in IngestRecords /\ ingest'[p].at = at /\ ingest'[p].left = l /\ ingest'[p].stored = ingest[p].stored
      BY <1>3, <3>3, <3>5 DEF IngestRecords, IngestPlaces
    <3>7. IngestOnly(p)
      BY <1>3, <3>5, <3>6 DEF IngestOnly, Typed
    <3> QED BY <1>1, <3>3, <3>6, <3>7
  <2> QED BY <1>1, <2>1, <2>2
<1>7. VectorsLine(d, p) => VectorsLine(d, p)'
  BY <1>1, <1>4, <1>5, <1>6 DEF VectorsLine, Completes, AtWork
<1>8. p = latest[d] /\ ChunksLine(p, d) => ChunksLine(p, d)'
  BY <1>1, <1>3, <1>4, <1>5, <1>6 DEF ChunksLine, WellEnded, Spent, AtWork
<1>9. stray'[p].at = "clean" => source[d] \notin DraftKeys
  BY <1>1, <1>2, <1>3 DEF DispatchKnown
<1> QED BY <1>1, <1>2, <1>3, <1>4, <1>5, <1>6, <1>7, <1>8, <1>9, Unmoved, UnmovedCalls, IngestOnlyStep

LEMMA AddInv ==
  ASSUME DocInv, NEW p \in Dispatches, Add(p)
  PROVE  DocInv'
<1>2. PICK d \in Docs : d = job[p].doc
  BY DispatchPlaces DEF Add, AtWork
<1>3. /\ Typed /\ StagedFileKept /\ DispatchKnown(p) /\ status[d] # None /\ job[p].at # "idle"
      /\ ingest[p] \in IngestRecords /\ ingest[p].at \in AtWork /\ job[p] \in JobRecords
  BY <1>2, DispatchPlaces DEF Add, AtWork
<1>1. /\ ingest[p].at = "add"
      /\ \/ /\ Send(p, "processing")
            /\ vectors' = [vectors EXCEPT ![d] = vectors[d] \cup {job[p].text}]
            /\ ingest' = [ingest EXCEPT ![p].at = "poll", ![p].stored = TRUE]
         \/ Send(p, "failed") /\ EndIngest(p, "failing") /\ vectors' = vectors
      /\ UNCHANGED <<table, chunks, file, job, stray, users, history>>
  BY <1>2 DEF Add
<1>4. UNCHANGED <<status, deleted, cleaned, tries, source, origin, chunks, file, faults, latest, mishap>>
  BY <1>1 DEF table, history
<1>5. CallOnly(p) /\ call'[p].at # "clean" /\ call'[p].says # "completed"
  BY <1>1, <1>3, SendEffect DEF CallOnly
<1>6. /\ IngestOnly(p) /\ ingest'[p].at \in {"poll", "failing"}
      /\ ingest'[p].at = "poll" => ingest'[p].stored = TRUE /\ vectors'[d] # {}
      /\ vectors' \in [Docs -> SUBSET Texts] /\ \A e \in Docs \ {d} : vectors'[e] = vectors[e]
      /\ vectors[d] \subseteq vectors'[d]
  <2>1. CASE EndIngest(p, "failing") /\ vectors' = vectors
    BY <1>3, <2>1, EndIngestEffect DEF IngestPlaces, Typed
  <2>2. ASSUME vectors' = [vectors EXCEPT ![d] = vectors[d] \cup {job[p].text}],
               ingest' = [ingest EXCEPT ![p].at = "poll", ![p].stored = TRUE]
        PROVE  /\ IngestOnly(p) /\ ingest'[p].at = "poll" /\ ingest'[p].stored = TRUE /\ vectors'[d] # {}
               /\ vectors' \in [Docs -> SUBSET Texts] /\ \A e \in Docs \ {d} : vectors'[e] = vectors[e]
               /\ vectors[d] \subseteq vectors'[d]
    <3>1. job[p].text \in Texts
      BY <1>1, <1>3 DEF DispatchKnown, JobRecords
    <3>2. /\ ingest'[p] = [ingest[p] EXCEPT !.at = "poll", !.stored = TRUE]
          /\ \A q \in Dispatches \ {p} : ingest'[q] = ingest[q]
          /\ ingest' = [ingest EXCEPT ![p] = ingest'[p]]
      BY <1>3, <2>2 DEF Typed
    <3>3. ingest'[p] \in IngestRecords /\ ingest'[p].at = "poll" /\ ingest'[p].stored = TRUE
      BY <1>3, <3>2 DEF IngestRecords, IngestPlaces
    <3>4. IngestOnly(p)
      BY <1>3, <3>2, <3>3 DEF IngestOnly, Typed
    <3>5. /\ vectors'[d] = vectors[d] \cup {job[p].text}
          /\ vectors' \in [Docs -> SUBSET Texts] /\ \A e \in Docs \ {d} : vectors'[e] = vectors[e]
      BY <1>3, <2>2, <3>1 DEF Typed
    <3> QED BY <3>3, <3>4, <3>5
  <2> QED BY <1>1, <2>1, <2>2
<1>7. VectorsLine(d, p) => VectorsLine(d, p)'
  BY <1>1, <1>4, <1>5, <1>6 DEF VectorsLine, Completes, AtWork
<1>8. p = latest[d] /\ ChunksLine(p, d) => ChunksLine(p, d)'
  BY <1>1, <1>3, <1>4, <1>5, <1>6 DEF ChunksLine, WellEnded, Spent, AtWork
<1>9. stray'[p].at = "clean" => source[d] \notin DraftKeys
  BY <1>1, <1>2, <1>3 DEF DispatchKnown
<1> QED BY <1>1, <1>2, <1>3, <1>4, <1>5, <1>6, <1>7, <1>8, <1>9, Unmoved, UnmovedCalls, IngestOnlyStep

LEMMA CloseInv ==
  ASSUME DocInv, NEW p \in Dispatches, Close(p)
  PROVE  DocInv'
<1>2. PICK d \in Docs : d = job[p].doc
  BY DispatchPlaces DEF Close, AtWork
<1>3. /\ Typed /\ StagedFileKept /\ DispatchKnown(p) /\ status[d] # None /\ job[p].at # "idle"
      /\ ingest[p].at \in AtWork
  BY <1>2, DispatchPlaces DEF Close, AtWork
<1>1. /\ ingest[p].at = "poll" /\ ingest[p].stored
      /\ Send(p, "completed") /\ EndIngest(p, "closing")
      /\ UNCHANGED <<table, stores, job, stray, users, history>>
  BY DEF Close
<1>4. UNCHANGED <<status, deleted, cleaned, tries, source, origin, chunks, vectors, file, faults, latest, mishap>>
  BY <1>1 DEF table, stores, history
<1>5. CallOnly(p) /\ call'[p].at # "clean"
  BY <1>1, <1>3, SendEffect DEF CallOnly
<1>6. IngestOnly(p) /\ ingest'[p].at = "closing"
  BY <1>1, <1>3, EndIngestEffect DEF IngestPlaces
<1>7. VectorsLine(d, p) => VectorsLine(d, p)'
  <2>1. job[p].at \notin {"put", "claim", "read"}
    BY <1>1, <1>3 DEF DispatchKnown
  <2> QED BY <1>1, <1>4, <1>6, <2>1 DEF VectorsLine, Completes, AtWork
<1>8. p = latest[d] /\ ChunksLine(p, d) => ChunksLine(p, d)'
  BY <1>1, <1>3, <1>4, <1>5, <1>6 DEF ChunksLine, WellEnded, Spent, AtWork
<1>9. stray'[p].at = "clean" => source[d] \notin DraftKeys
  BY <1>1, <1>2, <1>3 DEF DispatchKnown
<1> QED BY <1>1, <1>2, <1>3, <1>4, <1>5, <1>6, <1>7, <1>8, <1>9, Unmoved, UnmovedCalls, IngestOnlyStep

LEMMA SeeCancelInv ==
  ASSUME DocInv, NEW p \in Dispatches, SeeCancel(p)
  PROVE  DocInv'
<1>2. PICK d \in Docs : d = job[p].doc
  BY DispatchPlaces DEF SeeCancel, AtWork
<1>3. /\ Typed /\ StagedFileKept /\ DispatchKnown(p) /\ status[d] # None /\ job[p].at # "idle"
      /\ ingest[p].at \in AtWork
  BY <1>2, DispatchPlaces DEF SeeCancel, AtWork
<1>1. /\ ingest[p].at = "poll"
      /\ IngestAt(p, "undo") \/ EndIngest(p, "cancelled")
      /\ UNCHANGED <<table, stores, job, call, stray, users, history>>
  BY DEF SeeCancel
<1>4. UNCHANGED <<status, deleted, cleaned, tries, source, origin, chunks, vectors, file, faults, latest, mishap>>
  BY <1>1 DEF table, stores, history
<1>6. IngestOnly(p) /\ ingest'[p].at \in {"undo", "cancelled"}
  BY <1>1, <1>3, IngestAtEffect, EndIngestEffect DEF IngestPlaces
<1>7. VectorsLine(d, p) => VectorsLine(d, p)'
  BY <1>1, <1>4, <1>6 DEF VectorsLine, Completes, AtWork
<1>8. p = latest[d] /\ ChunksLine(p, d) => ChunksLine(p, d)'
  BY <1>1, <1>3, <1>4, <1>6 DEF ChunksLine, WellEnded, Spent, AtWork
<1>9. (call'[p].at = "clean" \/ stray'[p].at = "clean") => source[d] \notin DraftKeys
  BY <1>1, <1>2, <1>3 DEF DispatchKnown
<1> QED BY <1>1, <1>2, <1>3, <1>4, <1>6, <1>7, <1>8, <1>9, Unmoved, UnmovedCalls, IngestOnlyStep

LEMMA UndoInv ==
  ASSUME DocInv, NEW p \in Dispatches, Undo(p)
  PROVE  DocInv'
<1>2. PICK d \in Docs : d = job[p].doc
  BY DispatchPlaces DEF Undo, AtWork
<1>3. /\ Typed /\ StagedFileKept /\ DispatchKnown(p) /\ status[d] # None /\ job[p].at # "idle"
      /\ ingest[p].at \in AtWork
  BY <1>2, DispatchPlaces DEF Undo, AtWork
<1>1. /\ ingest[p].at = "undo" /\ EndIngest(p, "cancelled")
      /\ vectors' \in {vectors, [vectors EXCEPT ![d] = {}]}
      /\ UNCHANGED <<table, chunks, file, job, call, stray, users, history>>
  BY <1>2 DEF Undo
<1>4. UNCHANGED <<status, deleted, cleaned, tries, source, origin, chunks, file, faults, latest, mishap>>
  BY <1>1 DEF table, history
<1>5. vectors' \in [Docs -> SUBSET Texts] /\ \A e \in Docs \ {d} : vectors'[e] = vectors[e]
  BY <1>1, <1>3 DEF Typed
<1>6. IngestOnly(p) /\ ingest'[p].at = "cancelled"
  BY <1>1, <1>3, EndIngestEffect DEF IngestPlaces
<1>7. VectorsLine(d, p) => VectorsLine(d, p)'
  BY <1>1, <1>4, <1>6 DEF VectorsLine, Completes, AtWork
<1>8. p = latest[d] /\ ChunksLine(p, d) => ChunksLine(p, d)'
  BY <1>1, <1>3, <1>4, <1>6 DEF ChunksLine, WellEnded, Spent, AtWork
<1>9. (call'[p].at = "clean" \/ stray'[p].at = "clean") => source[d] \notin DraftKeys
  BY <1>1, <1>2, <1>3 DEF DispatchKnown
<1> QED BY <1>1, <1>2, <1>3, <1>4, <1>5, <1>6, <1>7, <1>8, <1>9, Unmoved, UnmovedCalls, IngestOnlyStep

LEMMA GiveUpCallInv ==
  ASSUME DocInv, NEW p \in Dispatches, GiveUpCall(p)
  PROVE  DocInv'
<1>0. call[p] # NoCall
  BY SomeRecords DEF GiveUpCall, Waits
<1>2. PICK d \in Docs : d = job[p].doc
  BY <1>0, DispatchPlaces
<1>3. /\ Typed /\ StagedFileKept /\ DispatchKnown(p) /\ status[d] # None /\ job[p].at # "idle"
      /\ ~ Spent(p)
  BY <1>0, <1>2, DispatchPlaces DEF Spent
<1>1. /\ faults < MaxFaults /\ faults' = faults + 1 /\ stray[p] = NoCall
      /\ stray' = [stray EXCEPT ![p] = call[p]] /\ call' = [call EXCEPT ![p] = NoCall]
      /\ UNCHANGED <<table, stores, job, ingest, users, latest, mishap>>
  BY DEF GiveUpCall
<1>4. UNCHANGED <<status, deleted, cleaned, tries, source, origin, chunks, vectors, file, latest, mishap>>
  BY <1>1 DEF table, stores
<1>5. faults' \in 0..MaxFaults
  BY <1>1, <1>3, DocumentsAssumption DEF Typed
<1>6. /\ CallOnly(p) /\ StrayOnly(p) /\ stray'[p] = call[p] /\ call'[p] = NoCall
  BY <1>1, <1>3, SomeRecords DEF Typed, CallOnly, StrayOnly
<1>7. VectorsLine(d, p) => VectorsLine(d, p)'
  BY <1>1, <1>4, <1>6, SomeRecords DEF VectorsLine, Completes, AtWork
<1>8. p = latest[d] /\ ChunksLine(p, d) => ChunksLine(p, d)'
  <2>1. None # "completed"
    BY DocumentsAssumption
  <2> QED BY <1>1, <1>4, <1>6, <2>1, SomeRecords DEF ChunksLine, WellEnded, AtWork
<1>9. /\ (call'[p].at = "clean" \/ stray'[p].at = "clean") => source[d] \notin DraftKeys
      /\ ingest'[p].at = "poll" /\ ~ ingest'[p].stored => ingest'[p].left # 0
  BY <1>1, <1>2, <1>3, <1>6, SomeRecords DEF DispatchKnown
<1> QED BY <1>1, <1>2, <1>3, <1>4, <1>5, <1>6, <1>7, <1>8, <1>9, Unmoved, UnmovedCalls, IngestOnlyStep

\* What a callback writes it says, and it goes on saying the same.
LEMMA HandleEffect ==
  ASSUME Typed, StagedFileKept, NEW p \in Dispatches, NEW d \in Docs, d = job[p].doc, NEW c \in Calls,
         HandleCall(p, c), c.at = "clean" => source[d] \notin DraftKeys, status[d] # None
  PROVE  /\ StatusOnly(d) /\ status'[d] # None
         /\ status'[d] = "completed" => status[d] = "completed" \/ c.says = "completed"
         /\ file' \in [Keys -> Texts \cup {None}] /\ StagedFileKept'
         /\ NextCall(p, c) \in Calls
         /\ NextCall(p, c).says = "completed" => c.says = "completed"
         /\ NextCall(p, c).at = "clean" => source[d] \notin DraftKeys
<1>1. /\ c # NoCall
      /\ status' = IF Writes(c) THEN [status EXCEPT ![d] = c.says] ELSE status
      /\ file' = IF c.at = "clean" THEN [file EXCEPT ![source[d]] = None] ELSE file
  BY DEF HandleCall
<1>2. c \in [at : {"sent", "write", "clean"}, says : {"processing", "completed", "failed"}]
  BY <1>1 DEF Calls
<1>3. None \notin {"pending", "processing", "completed", "failed", "cancelled"}
  BY DocumentsAssumption
<1>4. /\ StatusOnly(d) /\ status'[d] # None
      /\ status'[d] = "completed" => status[d] = "completed" \/ c.says = "completed"
  BY <1>1, <1>2, <1>3 DEF Typed, StatusOnly, AllStatuses
<1>5. file' \in [Keys -> Texts \cup {None}] /\ StagedFileKept'
  <2>1. CASE c.at = "clean"
    <3>1. file' = [file EXCEPT ![source[d]] = None] /\ source[d] \notin DraftKeys /\ DraftKeys \subseteq Keys
      BY <1>1, <2>1 DEF Keys
    <3> QED BY <3>1 DEF Typed, StagedFileKept
  <2>2. CASE c.at # "clean"
    BY <1>1, <2>2 DEF Typed, StagedFileKept
  <2> QED BY <2>1, <2>2
<1>6. PICK w : w = [c EXCEPT !.at = "write"]
  OBVIOUS
<1>7. PICK l : l = [c EXCEPT !.at = "clean"]
  OBVIOUS
<1>8. /\ w \in Calls /\ w.says = c.says /\ w.at = "write"
      /\ l \in Calls /\ l.says = c.says /\ l.at = "clean"
  BY <1>2, <1>6, <1>7 DEF Calls
<1>9. \/ NextCall(p, c) = w
      \/ NextCall(p, c) = l /\ source[d] \notin DraftKeys
      \/ NextCall(p, c) = NoCall
  BY <1>6, <1>7 DEF NextCall
<1> QED BY <1>3, <1>4, <1>5, <1>8, <1>9, SomeRecords

LEMMA CallbackInv ==
  ASSUME DocInv, NEW p \in Dispatches, Callback(p)
  PROVE  DocInv'
<1>0. call[p] # NoCall \/ stray[p] # NoCall
  BY DEF Callback, HandleCall
<1>2. PICK d \in Docs : d = job[p].doc
  BY <1>0, DispatchPlaces
<1>3. /\ Typed /\ StagedFileKept /\ DispatchKnown(p) /\ status[d] # None /\ job[p].at # "idle"
      /\ ~ Spent(p) /\ call[p] \in Calls /\ stray[p] \in Calls
  BY <1>0, <1>2, DispatchPlaces DEF Spent
<1>9. /\ call[p].at = "clean" => source[d] \notin DraftKeys
      /\ stray[p].at = "clean" => source[d] \notin DraftKeys
  BY <1>2, <1>3 DEF DispatchKnown
<1>1. UNCHANGED <<deleted, cleaned, tries, source, origin, chunks, vectors, job, ingest, users, history>>
  BY DEF Callback, HandleCall
<1>4. UNCHANGED <<faults, latest, mishap>>
  BY <1>1 DEF history
<1>5. PICK c : /\ HandleCall(p, c)
               /\ \/ /\ c = call[p] /\ stray' = stray
                     /\ call' = [call EXCEPT ![p] = NextCall(p, c)]
                  \/ /\ c = stray[p] /\ call' = call
                     /\ stray' = [stray EXCEPT ![p] = NextCall(p, c)]
  BY DEF Callback
<1>10. PICK n : n = NextCall(p, c)
  OBVIOUS
<1>6. /\ StatusOnly(d) /\ status'[d] # None
      /\ status'[d] = "completed" => status[d] = "completed" \/ c.says = "completed"
      /\ file' \in [Keys -> Texts \cup {None}] /\ StagedFileKept'
      /\ n \in Calls
      /\ n.says = "completed" => c.says = "completed"
      /\ n.at = "clean" => source[d] \notin DraftKeys
  BY <1>2, <1>3, <1>5, <1>9, <1>10, HandleEffect
<1>7. /\ CallOnly(p) /\ StrayOnly(p)
      /\ \/ c = call[p] /\ call'[p] = n /\ stray'[p] = stray[p]
         \/ c = stray[p] /\ stray'[p] = n /\ call'[p] = call[p]
  BY <1>3, <1>5, <1>6, <1>10 DEF Typed, CallOnly, StrayOnly
<1>8. VectorsLine(d, p) => VectorsLine(d, p)'
  BY <1>1, <1>6, <1>7 DEF VectorsLine, Completes, AtWork
<1>11. p = latest[d] /\ ChunksLine(p, d) => ChunksLine(p, d)'
  BY <1>1, <1>4, <1>6, <1>7 DEF ChunksLine, WellEnded, AtWork
<1>12. /\ call'[p].at = "clean" => source[d] \notin DraftKeys
       /\ stray'[p].at = "clean" => source[d] \notin DraftKeys
       /\ ingest'[p].at = "poll" /\ ~ ingest'[p].stored => ingest'[p].left # 0
  BY <1>1, <1>3, <1>6, <1>7, <1>9 DEF DispatchKnown
<1> QED BY <1>1, <1>2, <1>3, <1>4, <1>6, <1>7, <1>8, <1>11, <1>12, Unmoved, UnmovedCalls, IngestOnlyStep

-------------------------------------------------------------------------------
(* The start of a dispatch.                                                    *)

\* A dispatch p that starts for d finds either nobody at work on d, or a mishap.
LEMMA Starts ==
  ASSUME DocInv, NEW p \in Dispatches, NEW d \in Docs, NEW at \in {"put", "claim", "post"},
         NEW text \in Texts \cup {None}, NEW keep \in BOOLEAN, Start(p, d, at, text, keep),
         at = "put" => text # None,
         \/ ingest' = ingest /\ at # "post"
         \/ ingest' = [ingest EXCEPT ![p] = NewIngest] /\ at = "post" /\ text # None,
         WriteStatus(d, "pending"),
         UNCHANGED <<deleted, cleaned, tries, stores, call, stray, purging, faults>>,
         request' \in [Users -> RequestRecords],
         \A u \in Users : request'[u] = request[u] \/ request'[u] = IdleRequest,
         source' \in [Docs -> Keys \cup {None}], origin' \in [Docs -> {"upload", "draft", "connector", None}],
         \A e \in Docs \ {d} : source'[e] = source[e] /\ origin'[e] = origin[e],
         source'[d] \in DraftKeys => source[d] \in DraftKeys \/ Of(d) = {},
         at # "post" \/ source[d] # None => source'[d] # None
  PROVE  DocInv'
<1> DEFINE r == [at |-> at, doc |-> d, text |-> text, keep |-> keep]
<1>1. /\ DocShape /\ Typed /\ job[p] = IdleJob /\ ingest[p] = NoIngest /\ call[p] = NoCall /\ stray[p] = NoCall
      /\ \A q \in Dispatches : DispatchKnown(q)
  BY DEF DocInv, DocShape, DispatchKnown, Start
<1>2. /\ job' = [job EXCEPT ![p] = r] /\ latest' = [latest EXCEPT ![d] = p]
      /\ IF Busy(d) = {} THEN mishap' = mishap ELSE Mishap({d})
  BY DEF Start
<1>3. r \in JobRecords /\ r.at = at /\ r.doc = d /\ r.text = text
  BY DEF JobRecords, JobPlaces
<1> HIDE DEF r
<1>4. /\ job' \in [Dispatches -> JobRecords] /\ job'[p] = r /\ \A q \in Dispatches \ {p} : job'[q] = job[q]
      /\ latest' \in [Docs -> Dispatches \cup {None}] /\ latest'[d] = p
      /\ \A e \in Docs \ {d} : latest'[e] = latest[e]
  BY <1>1, <1>2, <1>3 DEF Typed
<1>5. /\ ingest' \in [Dispatches -> IngestRecords] /\ \A q \in Dispatches \ {p} : ingest'[q] = ingest[q]
      /\ \/ ingest'[p] = NoIngest /\ at # "post"
         \/ ingest'[p] = NewIngest /\ at = "post" /\ text # None
  BY <1>1, SomeRecords DEF Typed
<1>6. UNCHANGED <<deleted, cleaned, tries, chunks, vectors, file, call, stray, purging, faults>>
  BY DEF stores
<1>7. /\ status' \in [Docs -> AllStatuses] /\ status'[d] = "pending" /\ "pending" # None /\ None # "completed"
      /\ \A e \in Docs \ {d} : status'[e] = status[e]
  BY <1>1, DocumentsAssumption DEF WriteStatus, Typed, AllStatuses
<1>8. /\ mishap' \subseteq Docs /\ mishap \subseteq mishap'
      /\ Busy(d) = {} \/ d \in deleted \cup mishap'
  BY <1>1, <1>2 DEF Mishap, Typed
<1>9. Typed'
  BY <1>1, <1>4, <1>5, <1>6, <1>7, <1>8 DEF Typed
<1>10. job[p].doc = None /\ \A e \in Docs : e # None
  BY <1>1, SomeRecords, DocumentsAssumption
<1>11. ASSUME NEW q \in Dispatches PROVE DispatchKnown(q)'
  <2>1. CASE q = p
    <3>1. job'[p].at = at /\ job'[p].doc = d /\ job'[p].text = text /\ call'[p] = NoCall /\ stray'[p] = NoCall
      BY <1>1, <1>3, <1>4, <1>6
    <3>2. NoCall.at # "clean" /\ at # "idle"
      BY SomeRecords
    <3>3. /\ job'[p].at # "idle" /\ status'[d] # None
          /\ job'[p].at \in {"put", "claim", "read"} => source'[d] # None /\ ingest'[p].at = "none"
          /\ ingest'[p].at \in {"poll", "add", "undo"} => job'[p].text # None
          /\ ingest'[p].at = "poll" => ingest'[p].left # 0
      BY <1>5, <1>7, <3>1, SomeRecords
    <3> QED BY <2>1, <3>1, <3>2, <3>3 DEF DispatchKnown
  <2>2. CASE q # p
    <3>1. job'[q] = job[q] /\ ingest'[q] = ingest[q] /\ call'[q] = call[q] /\ stray'[q] = stray[q]
      BY <1>4, <1>5, <1>6, <2>2
    <3>2. DispatchKnown(q)
      BY <1>1
    <3>3. ASSUME NEW e \in Docs, job[q].doc = e, status[e] # None
          PROVE  /\ status'[e] # None
                 /\ source[e] # None => source'[e] # None
                 /\ source[e] \notin DraftKeys => source'[e] \notin DraftKeys
      BY <1>7, <3>3 DEF Of
    <3>4. call[q].at = "clean" \/ stray[q].at = "clean" => job[q].at # "idle"
      BY <3>2, SomeRecords DEF DispatchKnown
    <3> QED BY <3>1, <3>2, <3>3, <3>4 DEF DispatchKnown
  <2> QED BY <2>1, <2>2
<1>12. ASSUME NEW u \in Users PROVE RequestKnown(u)'
  <2>1. CASE request'[u] = IdleRequest
    BY <2>1, SomeRecords DEF RequestKnown
  <2>2. CASE request'[u] = request[u]
    <3>1. RequestKnown(u)
      BY <1>1 DEF DocShape
    <3>2. ASSUME NEW e \in Docs
          PROVE  /\ status[e] # None => status'[e] # None
                 /\ EditKey(e) # None => EditKey(e)' # None
      BY <1>7 DEF EditKey
    <3> QED BY <2>2, <3>1, <3>2 DEF RequestKnown, EditKey
  <2> QED BY <2>1, <2>2
<1>13. ASSUME NEW e \in Docs, status'[e] # None
       PROVE  latest'[e] \in Dispatches /\ job'[latest'[e]].doc = e
  <2>1. CASE e = d
    BY <1>3, <1>4, <2>1
  <2>2. CASE e # d
    <3>1. latest[e] \in Dispatches /\ job[latest[e]].doc = e
      BY <1>1, <1>7, <1>13, <2>2 DEF DocShape
    <3> QED BY <1>4, <1>10, <2>2, <3>1
  <2> QED BY <2>1, <2>2
<1>14. DocShape'
  BY <1>1, <1>6, <1>9, <1>11, <1>12, <1>13 DEF DocShape, StagedFileKept
<1>15. ASSUME NEW e \in Docs, NEW q \in Dispatches, job'[q].doc = e, e # d
       PROVE  /\ q # p /\ job'[q] = job[q] /\ ingest'[q] = ingest[q] /\ call'[q] = call[q] /\ stray'[q] = stray[q]
              /\ status'[e] = status[e] /\ latest'[e] = latest[e] /\ origin'[e] = origin[e]
  BY <1>3, <1>4, <1>5, <1>6, <1>7, <1>15
<1>16. VectorsInv'
  <2> SUFFICES ASSUME NEW e \in Docs \ deleted, NEW q \in Dispatches, (Of(e) = {q})'
               PROVE  VectorsLine(e, q)'
    BY <1>6 DEF VectorsInv
  <2>1. job'[q].doc = e
    BY DEF Of
  <2>2. CASE e = d
    <3>1. q = p
      BY <1>3, <1>4, <2>2 DEF Of
    <3>2. job'[p].at = at /\ call'[p] = NoCall /\ stray'[p] = NoCall
      BY <1>1, <1>3, <1>4, <1>6
    <3>3. ~ Completes(p, d)'
      BY <1>5, <1>7, <3>2, SomeRecords DEF Completes
    <3> QED BY <1>5, <2>2, <3>1, <3>3, SomeRecords DEF VectorsLine
  <2>3. CASE e # d
    <3>1. Of(e) = {q}
      BY <1>3, <1>4, <1>10, <2>3 DEF Of
    <3>2. VectorsLine(e, q)
      BY <3>1 DEF DocInv, VectorsInv
    <3> QED BY <1>6, <1>15, <2>1, <2>3, <3>2 DEF VectorsLine, Completes
  <2> QED BY <2>2, <2>3
<1>17. ChunksInv'
  <2> SUFFICES ASSUME NEW e \in Docs \ (deleted \cup mishap'), NEW q \in Dispatches, job'[q].doc = e
               PROVE  ChunksLine(q, e)'
    BY <1>6 DEF ChunksInv
  <2>1. q # p => ChunksLine(q, e) /\ job[q].doc = e
    BY <1>4, <1>8 DEF DocInv, ChunksInv
  <2>2. CASE e # d
    BY <1>6, <1>15, <2>1, <2>2 DEF ChunksLine, Spent, WellEnded
  <2>3. CASE e = d /\ q = p
    <3>1. job'[p].at = at /\ call'[p] = NoCall /\ stray'[p] = NoCall
      BY <1>1, <1>3, <1>4, <1>6
    <3> QED BY <1>4, <1>5, <1>7, <2>3, <3>1, SomeRecords DEF ChunksLine, AtWork
  <2>4. CASE e = d /\ q # p
    <3>1. Spent(q)
      BY <1>8, <2>1, <2>4 DEF Busy, Spent
    <3>2. ingest[q].at \notin AtWork
      BY <2>1, <2>4, <3>1 DEF ChunksLine, Spent
    <3> QED BY <1>4, <1>5, <1>6, <2>4, <3>1, <3>2 DEF ChunksLine, Spent
  <2> QED BY <2>2, <2>3, <2>4
<1> QED BY <1>14, <1>16, <1>17 DEF DocInv

LEMMA CreateInv ==
  ASSUME DocInv, NEW p \in Dispatches, NEW d \in Docs, Create(p, d)
  PROVE  DocInv'
<1>1. Typed /\ \A q \in Dispatches : DispatchKnown(q)
  BY DEF DocInv, DocShape
<1>2. Of(d) = {}
  <2> SUFFICES ASSUME NEW q \in Dispatches, job[q].doc = d PROVE FALSE
    BY DEF Of
  <2>1. DispatchKnown(q) /\ status[d] = None /\ d # None
    BY <1>1, DocumentsAssumption DEF Create
  <2> QED BY <2>1, SomeRecords DEF DispatchKnown
<1>3. /\ UNCHANGED <<deleted, cleaned, tries, stores, call, stray, users, faults>>
      /\ WriteStatus(d, "pending")
  BY DEF Create
<1>4. /\ request' = request /\ request' \in [Users -> RequestRecords] /\ purging' = purging
  BY <1>1, <1>3 DEF Typed, users
<1>5. Original \in Texts /\ Original # None /\ DraftKeys \subseteq Keys /\ None \notin Keys
  BY DocumentsAssumption DEF Keys
<1>6. CASE /\ Start(p, d, "put", Original, FALSE) /\ ingest' = ingest
           /\ origin' = [origin EXCEPT ![d] = "upload"]
           /\ source' = [source EXCEPT ![d] = <<d, "bytes">>]
  <2>1. <<d, "bytes">> \in Keys
    BY DEF Keys, OwnKeys
  <2>2. /\ source' \in [Docs -> Keys \cup {None}] /\ source'[d] # None
        /\ origin' \in [Docs -> {"upload", "draft", "connector", None}]
        /\ \A e \in Docs \ {d} : source'[e] = source[e] /\ origin'[e] = origin[e]
    BY <1>1, <1>5, <1>6, <2>1 DEF Typed
  <2> QED BY <1>2, <1>3, <1>4, <1>5, <1>6, <2>2, Starts
<1>7. CASE /\ Start(p, d, "claim", None, TRUE) /\ ingest' = ingest
           /\ origin' = [origin EXCEPT ![d] = "draft"]
           /\ \E k \in DraftKeys : source' = [source EXCEPT ![d] = k]
  <2>2. /\ source' \in [Docs -> Keys \cup {None}] /\ source'[d] # None
        /\ origin' \in [Docs -> {"upload", "draft", "connector", None}]
        /\ \A e \in Docs \ {d} : source'[e] = source[e] /\ origin'[e] = origin[e]
    BY <1>1, <1>5, <1>7 DEF Typed
  <2> QED BY <1>2, <1>3, <1>4, <1>7, <2>2, Starts
<1>8. CASE /\ Start(p, d, "post", Original, TRUE)
           /\ origin' = [origin EXCEPT ![d] = "connector"]
           /\ ingest' = [ingest EXCEPT ![p] = NewIngest]
           /\ source' = source
  <2>2. /\ source' \in [Docs -> Keys \cup {None}]
        /\ origin' \in [Docs -> {"upload", "draft", "connector", None}]
        /\ \A e \in Docs \ {d} : source'[e] = source[e] /\ origin'[e] = origin[e]
    BY <1>1, <1>8 DEF Typed
  <2> QED BY <1>2, <1>3, <1>4, <1>5, <1>8, <2>2, Starts
<1> QED BY <1>6, <1>7, <1>8 DEF Create

LEMMA ResetEditedInv ==
  ASSUME DocInv, NEW u \in Users, NEW p \in Dispatches, ResetEdited(u, p)
  PROVE  DocInv'
<1>1. Typed /\ RequestKnown(u)
  BY DEF DocInv, DocShape
<1>2. PICK d \in Docs : d = request[u].doc /\ status[d] # None /\ EditKey(d) # None
  BY <1>1 DEF ResetEdited, RequestKnown
<1>3. /\ WriteStatus(d, "pending") /\ source' = [source EXCEPT ![d] = EditKey(d)]
      /\ Start(p, d, "claim", None, TRUE)
      /\ request' = [request EXCEPT ![u] = IdleRequest]
      /\ UNCHANGED <<deleted, cleaned, tries, origin, stores, ingest, call, stray, purging, faults>>
  BY <1>2 DEF ResetEdited, RequestAt, IdleRequest
<1>4. /\ request' \in [Users -> RequestRecords]
      /\ \A v \in Users : request'[v] = request[v] \/ request'[v] = IdleRequest
  BY <1>1, <1>3, SomeRecords DEF Typed
<1>5. EditKey(d) \in Keys /\ (EditKey(d) \in DraftKeys => source[d] \in DraftKeys)
  <2>1. <<d, "text">> \in Keys \ DraftKeys
    BY DocumentsAssumption DEF Keys, OwnKeys
  <2> QED BY <1>1, <1>2, <2>1 DEF EditKey, Typed
<1>6. PICK k : k = EditKey(d)
  OBVIOUS
<1>7. /\ source' \in [Docs -> Keys \cup {None}] /\ source'[d] = k
      /\ origin' \in [Docs -> {"upload", "draft", "connector", None}]
      /\ \A e \in Docs \ {d} : source'[e] = source[e] /\ origin'[e] = origin[e]
  BY <1>1, <1>3, <1>5, <1>6 DEF Typed
<1> QED BY <1>2, <1>3, <1>4, <1>5, <1>6, <1>7, Starts

-------------------------------------------------------------------------------
(* Requests, deletion, cleanup and restarts.                                   *)

\* A step that leaves the dispatches alone, completes nothing, and touches the
\* vectors and chunks of deleted documents only.
LEMMA Elsewhere ==
  ASSUME DocInv, Typed', StagedFileKept',
         UNCHANGED <<job, ingest, call, stray, latest, origin, source>>,
         deleted \subseteq deleted', mishap \subseteq mishap' \cup deleted',
         \A d \in Docs : \/ status'[d] = status[d]
                         \/ status[d] # None /\ status'[d] # None /\ status'[d] # "completed",
         \A d \in Docs \ deleted' : vectors'[d] = vectors[d] /\ chunks'[d] = chunks[d],
         \A u \in Users : \/ request'[u] = request[u]
                          \/ request'[u] = IdleRequest
                          \/ /\ request'[u].at # "idle"
                             /\ request'[u].doc \in Docs /\ status[request'[u].doc] # None
                             /\ request'[u].at \in {"edit", "reset"} => EditKey(request'[u].doc) # None
  PROVE  DocInv'
<1>1. \A d \in Docs : (status[d] = None <=> status'[d] = None) /\ (status'[d] = "completed" => status[d] = "completed")
  BY DocumentsAssumption
<1>2. ASSUME NEW p \in Dispatches PROVE DispatchKnown(p)'
  <2>1. DispatchKnown(p)
    BY DEF DocInv, DocShape
  <2> QED BY <1>1, <2>1 DEF DispatchKnown
<1>3. ASSUME NEW u \in Users PROVE RequestKnown(u)'
  <2>1. RequestKnown(u)
    BY DEF DocInv, DocShape
  <2>2. CASE request'[u] = request[u]
    BY <1>1, <2>1, <2>2 DEF RequestKnown, EditKey
  <2>3. CASE request'[u] = IdleRequest
    BY <2>3, SomeRecords DEF RequestKnown
  <2>4. CASE /\ request'[u].at # "idle"
             /\ request'[u].doc \in Docs /\ status[request'[u].doc] # None
             /\ request'[u].at \in {"edit", "reset"} => EditKey(request'[u].doc) # None
    BY <1>1, <2>4 DEF RequestKnown, EditKey
  <2> QED BY <2>2, <2>3, <2>4
<1>4. DocShape'
  BY <1>1, <1>2, <1>3 DEF DocInv, DocShape
<1>5. VectorsInv'
  <2> SUFFICES ASSUME NEW d \in Docs \ deleted', NEW p \in Dispatches, (Of(d) = {p})'
               PROVE  VectorsLine(d, p)'
    BY DEF VectorsInv
  <2>1. VectorsLine(d, p)
    BY DEF DocInv, VectorsInv, Of
  <2> QED BY <1>1, <2>1 DEF VectorsLine, Completes
<1>6. ChunksInv'
  <2> SUFFICES ASSUME NEW d \in Docs \ (deleted' \cup mishap'), NEW p \in Dispatches, job'[p].doc = d
               PROVE  ChunksLine(p, d)'
    BY DEF ChunksInv
  <2>1. ChunksLine(p, d)
    BY DEF DocInv, ChunksInv
  <2> QED BY <1>1, <2>1 DEF ChunksLine, WellEnded, Spent
<1> QED BY <1>4, <1>5, <1>6 DEF DocInv

LEMMA ReadInv ==
  ASSUME DocInv, NEW u \in Users, NEW d \in Docs, ReadForCancel(u, d) \/ ReadForEdit(u, d)
  PROVE  DocInv'
<1>1. PICK at \in {"cancel", "edit"} :
        /\ RequestAt(u, at, d) /\ status[d] # None
        /\ at = "edit" => EditKey(d) # None
        /\ UNCHANGED <<table, stores, dispatching, purging, history>>
  <2>1. CASE ReadForCancel(u, d)
    BY <2>1, DocumentsAssumption DEF ReadForCancel
  <2>2. CASE ReadForEdit(u, d)
    BY <2>2, DocumentsAssumption DEF ReadForEdit
  <2> QED BY <2>1, <2>2
<1>2. UNCHANGED <<status, deleted, cleaned, tries, source, origin, chunks, vectors, file, job, ingest, call, stray,
                  purging, faults, latest, mishap>>
  BY <1>1 DEF table, stores, dispatching, history
<1>3. Typed /\ StagedFileKept
  BY DEF DocInv, DocShape
<1>4. PICK r : r = [at |-> at, doc |-> d]
  OBVIOUS
<1>5. r \in RequestRecords /\ r.at = at /\ r.doc = d /\ request' = [request EXCEPT ![u] = r]
  BY <1>1, <1>4 DEF RequestRecords, RequestAt
<1>6. /\ request' \in [Users -> RequestRecords] /\ request'[u] = r
      /\ \A v \in Users \ {u} : request'[v] = request[v]
  BY <1>3, <1>5 DEF Typed
<1>7. Typed' /\ StagedFileKept'
  BY <1>2, <1>3, <1>6 DEF Typed, StagedFileKept
<1> QED BY <1>1, <1>2, <1>5, <1>6, <1>7, Elsewhere

LEMMA WriteCancelInv ==
  ASSUME DocInv, NEW u \in Users, WriteCancel(u)
  PROVE  DocInv'
<1>1. Typed /\ StagedFileKept /\ RequestKnown(u)
  BY DEF DocInv, DocShape
<1>2. PICK d \in Docs : d = request[u].doc /\ status[d] # None
  BY <1>1 DEF WriteCancel, RequestKnown
<1>3. /\ WriteStatus(d, "cancelled") /\ request' = [request EXCEPT ![u] = IdleRequest]
      /\ UNCHANGED <<deleted, cleaned, tries, source, origin, stores, dispatching, purging, history>>
  BY <1>2 DEF WriteCancel, RequestAt, IdleRequest
<1>4. UNCHANGED <<deleted, cleaned, tries, source, origin, chunks, vectors, file, job, ingest, call, stray,
                  purging, faults, latest, mishap>>
  BY <1>3 DEF stores, dispatching, history
<1>5. StatusOnly(d) /\ status'[d] = "cancelled" /\ None # "cancelled"
  BY <1>1, <1>3, StatusEffect, DocumentsAssumption DEF AllStatuses
<1>6. /\ request' \in [Users -> RequestRecords]
      /\ \A v \in Users : request'[v] = request[v] \/ request'[v] = IdleRequest
  BY <1>1, <1>3, SomeRecords DEF Typed
<1>7. Typed' /\ StagedFileKept'
  BY <1>1, <1>4, <1>5, <1>6 DEF Typed, StagedFileKept, StatusOnly
<1> QED BY <1>2, <1>4, <1>5, <1>6, <1>7, Elsewhere DEF StatusOnly

LEMMA PutEditInv ==
  ASSUME DocInv, NEW u \in Users, NEW t \in Texts, PutEdit(u, t)
  PROVE  DocInv'
<1>1. Typed /\ StagedFileKept /\ RequestKnown(u)
  BY DEF DocInv, DocShape
<1>2. PICK d \in Docs : d = request[u].doc /\ status[d] # None /\ EditKey(d) # None
  BY <1>1 DEF PutEdit, RequestKnown
<1>3. /\ \/ file' = [file EXCEPT ![EditKey(d)] = t] /\ RequestAt(u, "reset", d)
         \/ file' = file /\ request' = [request EXCEPT ![u] = IdleRequest]
      /\ UNCHANGED <<table, chunks, vectors, dispatching, purging, history>>
  BY <1>2 DEF PutEdit, RequestAt, IdleRequest
<1>4. UNCHANGED <<status, deleted, cleaned, tries, source, origin, chunks, vectors, job, ingest, call, stray,
                  purging, faults, latest, mishap>>
  BY <1>3 DEF table, dispatching, history
<1>5. PICK r : r = [at |-> "reset", doc |-> d]
  OBVIOUS
<1>6. r \in RequestRecords /\ r.at = "reset" /\ r.doc = d
  BY <1>5 DEF RequestRecords
<1>7. /\ request' \in [Users -> RequestRecords]
      /\ request'[u] = IdleRequest \/ request'[u] = r
      /\ \A v \in Users \ {u} : request'[v] = request[v]
  BY <1>1, <1>3, <1>5, <1>6, SomeRecords DEF Typed, RequestAt
<1>8. t # None /\ file' \in [Keys -> Texts \cup {None}] /\ StagedFileKept'
  <2>1. t # None /\ DraftKeys \subseteq Keys
    BY DocumentsAssumption DEF Keys
  <2>2. PICK k : k = EditKey(d)
    OBVIOUS
  <2> QED BY <1>1, <1>3, <2>1, <2>2 DEF Typed, StagedFileKept
<1>9. Typed'
  BY <1>1, <1>4, <1>7, <1>8 DEF Typed
<1> QED BY <1>2, <1>4, <1>6, <1>7, <1>8, <1>9, Elsewhere

LEMMA DeleteInv ==
  ASSUME DocInv, NEW D \in SUBSET Docs, Delete(D)
  PROVE  DocInv'
<1>1. Typed /\ StagedFileKept
  BY DEF DocInv, DocShape
<1>2. /\ deleted' = deleted \cup D /\ chunks' = [d \in Docs |-> IF d \in D THEN None ELSE chunks[d]]
      /\ purging' = purging \cup D /\ mishap' = mishap \ D
      /\ UNCHANGED <<status, cleaned, tries, source, origin, vectors, file, job, ingest, call, stray, request, faults, latest>>
  BY DEF Delete, dispatching
<1>3. Typed' /\ StagedFileKept'
  BY <1>1, <1>2 DEF Typed, StagedFileKept
<1> QED BY <1>2, <1>3, Elsewhere

LEMMA CleanupInv ==
  ASSUME DocInv, NEW d \in Docs, Purge(d) \/ Sweep(d)
  PROVE  DocInv'
<1>1. Typed /\ StagedFileKept
  BY DEF DocInv, DocShape
<1>2. d \in deleted /\ UNCHANGED <<status, deleted, source, origin, chunks, file, job, ingest, call, stray, request,
                                  faults, latest, mishap>>
  BY <1>1 DEF Purge, Sweep, stores, dispatching, users, history, Typed
<1>3. /\ vectors' \in {vectors, [vectors EXCEPT ![d] = {}]}
      /\ cleaned' \in {cleaned, cleaned \cup {d}}
      /\ purging' \subseteq purging
      /\ tries' = tries \/ (tries[d] < MaxTries /\ tries' = [tries EXCEPT ![d] = tries[d] + 1])
  BY <1>1 DEF Purge, Sweep, stores, users, Typed
<1>4. vectors' \in [Docs -> SUBSET Texts] /\ \A e \in Docs \ {d} : vectors'[e] = vectors[e]
  BY <1>1, <1>3 DEF Typed
<1>5. tries' \in [Docs -> 0..MaxTries]
  BY <1>1, <1>3, DocumentsAssumption DEF Typed
<1>6. Typed' /\ StagedFileKept'
  BY <1>1, <1>2, <1>3, <1>4, <1>5 DEF Typed, StagedFileKept
<1> QED BY <1>2, <1>4, <1>6, Elsewhere

\* A live document with a dispatch that is not over has a mishap, and every
\* dispatch is over.
LEMMA ServerCrashInv ==
  ASSUME DocInv, ServerCrash
  PROVE  DocInv'
<1>1. Typed /\ StagedFileKept /\ \A p \in Dispatches : DispatchKnown(p)
  BY DEF DocInv, DocShape
<1>2. /\ faults < MaxFaults /\ faults' = faults + 1 /\ Mishap({d \in Docs : Busy(d) # {}})
      /\ job' = [p \in Dispatches |->
                   IF job[p].doc = None THEN job[p] ELSE [job[p] EXCEPT !.at = "done"]]
      /\ call' = [p \in Dispatches |-> NoCall] /\ stray' = [p \in Dispatches |-> NoCall]
      /\ request' = [u \in Users |-> IdleRequest]
      /\ UNCHANGED <<status, deleted, cleaned, tries, source, origin, chunks, vectors, file, ingest, purging, latest>>
  BY DEF ServerCrash, table, stores
<1>3. ASSUME NEW p \in Dispatches
      PROVE  /\ job'[p] \in JobRecords /\ job'[p].doc = job[p].doc /\ job'[p].text = job[p].text
             /\ job'[p].at = "idle" => job[p].at = "idle"
             /\ job[p].at = "idle" => job'[p] = job[p]
             /\ job[p].at # "idle" => job'[p].at = "done"
             /\ call'[p] = NoCall /\ stray'[p] = NoCall
  <2>1. job[p] \in JobRecords /\ DispatchKnown(p)
    BY <1>1 DEF Typed
  <2>2. job[p].at = "idle" <=> job[p].doc = None
    BY <2>1, SomeRecords, DocumentsAssumption DEF DispatchKnown
  <2>3. [job[p] EXCEPT !.at = "done"] \in JobRecords
    BY <2>1 DEF JobRecords, JobPlaces
  <2>4. job'[p] = IF job[p].doc = None THEN job[p] ELSE [job[p] EXCEPT !.at = "done"]
    BY <1>2
  <2>5. CASE job[p].doc = None
    BY <1>2, <2>1, <2>2, <2>4, <2>5
  <2>6. CASE job[p].doc # None
    <3>1. job'[p] = [job[p] EXCEPT !.at = "done"]
      BY <2>4, <2>6
    <3>2. job'[p].doc = job[p].doc /\ job'[p].text = job[p].text /\ job'[p].at = "done"
      BY <2>1, <3>1 DEF JobRecords
    <3> QED BY <1>2, <2>2, <2>3, <2>6, <3>1, <3>2
  <2> QED BY <2>5, <2>6
<1>4. mishap' \subseteq Docs /\ mishap \subseteq mishap'
      /\ \A d \in Docs : Busy(d) = {} \/ d \in deleted \cup mishap'
  BY <1>1, <1>2 DEF Mishap, Typed
<1>5. job' \in [Dispatches -> JobRecords] /\ call' \in [Dispatches -> Calls] /\ stray' \in [Dispatches -> Calls]
  <2>1. job' = [p \in Dispatches |-> job'[p]]
    BY <1>2
  <2> QED BY <1>2, <1>3, <2>1, SomeRecords
<1>6. request' \in [Users -> RequestRecords] /\ \A u \in Users : request'[u] = IdleRequest
  BY <1>2, SomeRecords
<1>7. Typed'
  BY <1>1, <1>2, <1>4, <1>5, <1>6, DocumentsAssumption DEF Typed
<1>8. ASSUME NEW p \in Dispatches PROVE DispatchKnown(p)'
  <2>1. DispatchKnown(p)
    BY <1>1
  <2> QED BY <1>2, <1>3, <2>1, SomeRecords DEF DispatchKnown
<1>9. \A u \in Users : RequestKnown(u)'
  BY <1>6, SomeRecords DEF RequestKnown
<1>10. \A d \in Docs : status'[d] # None => latest'[d] \in Dispatches /\ job'[latest'[d]].doc = d
  BY <1>2, <1>3 DEF DocInv, DocShape
<1>11. DocShape'
  BY <1>1, <1>2, <1>7, <1>8, <1>9, <1>10 DEF DocShape, StagedFileKept
<1>12. VectorsInv'
  <2> SUFFICES ASSUME NEW d \in Docs \ deleted, NEW p \in Dispatches, (Of(d) = {p})'
               PROVE  VectorsLine(d, p)'
    BY <1>2 DEF VectorsInv
  <2>1. Of(d) = {p}
    BY <1>3 DEF Of
  <2>2. VectorsLine(d, p)
    BY <2>1 DEF DocInv, VectorsInv
  <2>3. job[p].doc = d /\ job[p].at # "idle"
    BY <1>1, <2>1, SomeRecords, DocumentsAssumption DEF Of, DispatchKnown
  <2>4. job'[p].at = "done" /\ call'[p].says = None /\ stray'[p].says = None /\ None # "completed"
    BY <1>3, <2>3, SomeRecords, DocumentsAssumption
  <2> QED BY <1>2, <2>2, <2>4 DEF VectorsLine, Completes
<1>13. ChunksInv'
  <2> SUFFICES ASSUME NEW d \in Docs \ (deleted \cup mishap'), NEW p \in Dispatches, job'[p].doc = d
               PROVE  ChunksLine(p, d)'
    BY <1>2 DEF ChunksInv
  <2>1. Spent(p) /\ ChunksLine(p, d)
    BY <1>3, <1>4 DEF DocInv, ChunksInv, Busy, Spent
  <2>2. job'[p].at = "done" /\ job[p].at = "done" /\ job'[p].text = job[p].text /\ call'[p] = call[p] /\ stray'[p] = stray[p]
    BY <1>3, <2>1 DEF Spent
  <2> QED BY <1>2, <2>1, <2>2 DEF ChunksLine, WellEnded, Spent
<1> QED BY <1>11, <1>12, <1>13 DEF DocInv

\* A handler that is closing and whose last callback is on its way may be lost.
LEMMA CollectorCrashInv ==
  ASSUME DocInv, CollectorCrash
  PROVE  DocInv'
<1>1. Typed /\ StagedFileKept /\ \A p \in Dispatches : DispatchKnown(p)
  BY DEF DocInv, DocShape
<1>2. /\ faults < MaxFaults /\ faults' = faults + 1
      /\ ingest' = [p \in Dispatches |->
           IF ingest[p].at = "none" \/ Answered(p) THEN ingest[p] ELSE [NoIngest EXCEPT !.at = "lost"]]
      /\ UNCHANGED <<status, deleted, cleaned, tries, source, origin, chunks, vectors, file, job, call, stray, request,
                     purging, latest, mishap>>
  BY DEF CollectorCrash, table, stores, users
<1>3. PICK l : l = [NoIngest EXCEPT !.at = "lost"]
  OBVIOUS
<1>4. l \in IngestRecords /\ l.at = "lost"
  BY <1>3, SomeRecords DEF IngestRecords, IngestPlaces
<1>5. ASSUME NEW p \in Dispatches
      PROVE  \/ ingest'[p] = ingest[p] /\ ingest[p].at \notin AtWork
             \/ ingest'[p] = l /\ ingest[p].at # "none"
  BY <1>2, <1>3 DEF Answered, AtWork
<1>6. ingest' \in [Dispatches -> IngestRecords]
  <2>1. ingest' = [p \in Dispatches |-> ingest'[p]]
    BY <1>2
  <2> QED BY <1>1, <1>4, <1>5, <2>1 DEF Typed
<1>7. Typed'
  BY <1>1, <1>2, <1>6, DocumentsAssumption DEF Typed
<1>8. ASSUME NEW p \in Dispatches PROVE DispatchKnown(p)'
  <2>1. DispatchKnown(p)
    BY <1>1
  <2> QED BY <1>2, <1>4, <1>5, <2>1, SomeRecords DEF DispatchKnown
<1>9. DocShape'
  BY <1>1, <1>2, <1>7, <1>8 DEF DocInv, DocShape, StagedFileKept, RequestKnown, EditKey
<1>10. VectorsInv'
  <2> SUFFICES ASSUME NEW d \in Docs \ deleted, NEW p \in Dispatches, (Of(d) = {p})'
               PROVE  VectorsLine(d, p)'
    BY <1>2 DEF VectorsInv
  <2>1. VectorsLine(d, p)
    BY <1>2 DEF DocInv, VectorsInv, Of
  <2> QED BY <1>2, <1>4, <1>5, <2>1 DEF VectorsLine, Completes, AtWork
<1>11. ChunksInv'
  <2> SUFFICES ASSUME NEW d \in Docs \ (deleted \cup mishap), NEW p \in Dispatches, job'[p].doc = d
               PROVE  ChunksLine(p, d)'
    BY <1>2 DEF ChunksInv
  <2>1. ChunksLine(p, d)
    BY <1>2 DEF DocInv, ChunksInv
  <2> QED BY <1>2, <1>4, <1>5, <2>1 DEF ChunksLine, WellEnded, Spent, AtWork
<1> QED BY <1>9, <1>10, <1>11 DEF DocInv

-------------------------------------------------------------------------------
(* The theorems.                                                               *)

LEMMA DocStart ==
  ASSUME Init
  PROVE  DocInv
<1>1. Original \in Texts /\ Original # None /\ DraftKeys \subseteq Keys /\ MaxTries \in Nat /\ MaxFaults \in Nat
  BY DocumentsAssumption DEF Keys
<1>2. Typed
  <2>1. status \in [Docs -> AllStatuses] /\ deleted \subseteq Docs /\ cleaned \subseteq deleted
    BY DEF Init, AllStatuses
  <2>2. tries \in [Docs -> 0..MaxTries] /\ faults \in 0..MaxFaults
    BY <1>1 DEF Init
  <2>3. source \in [Docs -> Keys \cup {None}] /\ origin \in [Docs -> {"upload", "draft", "connector", None}]
    BY DEF Init
  <2>4. chunks \in [Docs -> Texts \cup {None}] /\ vectors \in [Docs -> SUBSET Texts]
    BY DEF Init
  <2>5. file \in [Keys -> Texts \cup {None}]
    BY <1>1 DEF Init
  <2>6. /\ job \in [Dispatches -> JobRecords] /\ ingest \in [Dispatches -> IngestRecords]
        /\ call \in [Dispatches -> Calls] /\ stray \in [Dispatches -> Calls] /\ request \in [Users -> RequestRecords]
    BY SomeRecords DEF Init
  <2>7. purging \subseteq deleted /\ latest \in [Docs -> Dispatches \cup {None}] /\ mishap \subseteq Docs
    BY DEF Init
  <2> QED BY <2>1, <2>2, <2>3, <2>4, <2>5, <2>6, <2>7 DEF Typed
<1>3. \A p \in Dispatches : job[p] = IdleJob /\ ingest[p] = NoIngest /\ call[p] = NoCall /\ stray[p] = NoCall
  BY DEF Init
<1>4. \A p \in Dispatches : DispatchKnown(p)
  BY <1>3, SomeRecords DEF DispatchKnown
<1>5. \A u \in Users : RequestKnown(u)
  BY SomeRecords DEF Init, RequestKnown
<1>6. StagedFileKept /\ \A d \in Docs : status[d] = None
  BY <1>1 DEF Init, StagedFileKept
<1>7. \A p \in Dispatches, d \in Docs : job[p].doc # d
  BY <1>3, SomeRecords, DocumentsAssumption
<1> QED BY <1>2, <1>4, <1>5, <1>6, <1>7 DEF DocInv, DocShape, VectorsInv, ChunksInv, Of

LEMMA DocStep ==
  ASSUME DocInv, [Next]_vars
  PROVE  DocInv'
<1>1. CASE Next
  <2>1. ASSUME NEW p \in Dispatches, NEW d \in Docs, Create(p, d) PROVE DocInv'
    BY <2>1, CreateInv
  <2>2. ASSUME NEW p \in Dispatches, JobStep(p) PROVE DocInv'
    BY <2>2, PutInv, ClaimInv, PostInv, AnswerInv, DropChunksInv, SaveChunksInv, CompleteInv, CheckInv, FailInv,
       UnlinkInv DEF JobStep
  <2>3. ASSUME NEW p \in Dispatches, IngestStep(p) PROVE DocInv'
    BY <2>3, WorkInv, AddInv, CloseInv, SeeCancelInv, UndoInv DEF IngestStep
  <2>4. ASSUME NEW p \in Dispatches, Callback(p) \/ GiveUpCall(p) PROVE DocInv'
    BY <2>4, CallbackInv, GiveUpCallInv
  <2>5. ASSUME NEW u \in Users, RequestStep(u) PROVE DocInv'
    BY <2>5, ReadInv, WriteCancelInv, PutEditInv, ResetEditedInv DEF RequestStep
  <2>6. ASSUME NEW D \in SUBSET Docs, Delete(D) PROVE DocInv'
    BY <2>6, DeleteInv
  <2>7. ASSUME NEW d \in Docs, Purge(d) \/ Sweep(d) PROVE DocInv'
    BY <2>7, CleanupInv
  <2>8. CASE ServerCrash
    BY <2>8, ServerCrashInv
  <2>9. CASE CollectorCrash
    BY <2>9, CollectorCrashInv
  <2> QED BY <1>1, <2>1, <2>2, <2>3, <2>4, <2>5, <2>6, <2>7, <2>8, <2>9 DEF Next
<1>2. CASE UNCHANGED vars
  <2>1. /\ UNCHANGED <<status, deleted, cleaned, tries, source, origin, chunks, vectors, file>>
        /\ UNCHANGED <<job, ingest, call, stray, request, purging, faults, latest, mishap>>
    BY <1>2 DEF vars, table, stores, dispatching, users, history
  <2>2. Typed' /\ StagedFileKept'
    BY <2>1 DEF DocInv, DocShape, Typed, StagedFileKept
  <2> QED BY <2>1, <2>2, Elsewhere
<1> QED BY <1>1, <1>2

\* The inductive invariant.  It relates every dispatch, callback and request of the
\* server and the collector to the row, the vectors and the chunks it works on.
THEOREM DocInvariance == Spec => []DocInv
<1>1. Init => DocInv
  BY DocStart
<1>2. DocInv /\ [Next]_vars => DocInv'
  BY DocStep
<1> QED BY <1>1, <1>2, PTL DEF Spec

\* Type correctness: in every state each row, file, dispatch, callback and request
\* has one of the values the code gives it, and a cleaned row is a deleted one.
THEOREM DocTypes == Spec => []DocTypeOK
<1>1. DocInv => DocTypeOK
  <2> SUFFICES ASSUME DocInv PROVE DocTypeOK
    OBVIOUS
  <2>1. Typed
    BY DEF DocInv, DocShape
  <2>2. /\ status \in [Docs -> Statuses \cup {None}] /\ deleted \subseteq Docs /\ cleaned \subseteq deleted
        /\ tries \in [Docs -> 0..MaxTries] /\ source \in [Docs -> Keys \cup {None}]
        /\ origin \in [Docs -> {"upload", "draft", "connector", None}]
        /\ chunks \in [Docs -> Texts \cup {None}] /\ vectors \in [Docs -> SUBSET Texts]
        /\ file \in [Keys -> Texts \cup {None}]
    BY <2>1 DEF Typed, AllStatuses, Statuses, Terminal
  <2>3. job \in [Dispatches ->
          [at : {"idle", "put", "claim", "read", "post", "drop", "save", "complete",
                 "check", "fail", "unlink", "done"},
           doc : Docs \cup {None}, text : Texts \cup {None}, keep : BOOLEAN]]
    BY <2>1 DEF Typed, JobRecords, JobPlaces
  <2>4. ingest \in [Dispatches -> [at : {"poll", "add", "undo"} \cup Over, stored : BOOLEAN, left : 0..Units]]
    <3>1. IngestPlaces = {"poll", "add", "undo"} \cup Over
      BY DEF IngestPlaces, Over
    <3> QED BY <2>1, <3>1 DEF Typed, IngestRecords
  <2>5. \A c \in {call, stray} : c \in [Dispatches ->
          {NoCall} \cup [at : {"sent", "write", "clean"}, says : {"processing", "completed", "failed"}]]
    BY <2>1 DEF Typed, Calls
  <2>6. /\ request \in [Users -> [at : {"idle", "cancel", "edit", "reset"}, doc : Docs \cup {None}]]
        /\ purging \subseteq Docs /\ faults \in 0..MaxFaults
        /\ latest \in [Docs -> Dispatches \cup {None}] /\ mishap \subseteq Docs
    BY <2>1 DEF Typed, RequestRecords
  <2> QED BY <2>2, <2>3, <2>4, <2>5, <2>6 DEF DocTypeOK
<1> QED BY <1>1, DocInvariance, PTL

\* The staged file of a draft outlives every document made from it: neither a
\* terminal callback nor the cleanup of a failed dispatch removes it, in any order
\* of dispatches, edits, callbacks given up and restarts.
THEOREM StagedFilesStay == Spec => []StagedFileKept
<1>1. DocInv => StagedFileKept
  BY DEF DocInv, DocShape
<1> QED BY <1>1, DocInvariance, PTL

\* A completed document that was dispatched once has vectors, whatever callbacks,
\* cancels, crashes and timeouts came between its dispatch and its completion.
THEOREM CompletedAreSearchable == Spec => []CompletedHasVectors
<1>1. DocInv => CompletedHasVectors
  <2> SUFFICES ASSUME DocInv, NEW d \in Docs \ deleted, status[d] = "completed", Cardinality(Of(d)) = 1
               PROVE  vectors[d] # {}
    BY DEF CompletedHasVectors
  <2>1. IsFiniteSet(Of(d))
    <3>1. IsFiniteSet(Dispatches)
      BY DocumentsAssumption, FS_Interval DEF Dispatches
    <3> QED BY <3>1, FS_Subset DEF Of
  <2>2. PICK p : Of(d) = {p}
    BY <2>1, FS_Singleton
  <2>3. p \in Dispatches
    BY <2>2 DEF Of
  <2> QED BY <2>2, <2>3 DEF DocInv, VectorsInv, VectorsLine, Completes
<1> QED BY <1>1, DocInvariance, PTL

\* The chunks of a completed document are those of the text its last dispatch read,
\* once no dispatch works on it and none overlapped or went wrong.
THEOREM ChunksAreCurrent == Spec => []ChunksShowText
<1>1. DocInv => ChunksShowText
  <2> SUFFICES ASSUME DocInv, NEW d \in Docs \ (deleted \cup mishap), status[d] = "completed",
                      Busy(d) = {}, origin[d] # "connector"
               PROVE  chunks[d] = job[latest[d]].text
    BY DEF ChunksShowText
  <2>1. latest[d] \in Dispatches /\ job[latest[d]].doc = d
    BY DocumentsAssumption DEF DocInv, DocShape
  <2>2. PICK p \in Dispatches : p = latest[d] /\ job[p].doc = d
    BY <2>1
  <2>3. ChunksLine(p, d) /\ Spent(p)
    BY <2>2 DEF DocInv, ChunksInv, Busy, Spent
  <2>4. WellEnded(p, d)
    BY <2>2, <2>3 DEF ChunksLine
  <2> QED BY <2>2, <2>3, <2>4 DEF WellEnded, Spent
<1> QED BY <1>1, DocInvariance, PTL

-------------------------------------------------------------------------------
(* A cancelled row at rest.                                                    *)

QuietAt(p) ==
  /\ ingest[p].at \in Over
  /\ ~ Writes(call[p]) /\ ~ Writes(stray[p])
  /\ job[p].at \notin {"read", "drop", "save", "complete", "fail"}
  /\ job[p].at = "post" => ingest[p].at # "closing"
AtRest(d) == status[d] = "cancelled" /\ Quiet(d) /\ origin[d] # "connector"
Rests(d) == status'[d] = "cancelled" /\ Quiet(d)'

\* A step of one dispatch disturbs a row at rest only if it is a dispatch of that row.
LEMMA DispatchRests ==
  ASSUME NEW d \in Docs, AtRest(d), NEW p \in Dispatches,
         \A q \in Dispatches \ {p} : /\ job'[q] = job[q] /\ ingest'[q] = ingest[q]
                                     /\ call'[q] = call[q] /\ stray'[q] = stray[q],
         job'[p].doc = job[p].doc, request' = request,
         job[p].doc # d => status'[d] = status[d],
         job[p].doc = d /\ QuietAt(p) => status'[d] = "cancelled" /\ QuietAt(p)'
  PROVE  Rests(d)
<1>1. \A q \in Dispatches : job[q].doc = d => QuietAt(q)
  BY DEF AtRest, Quiet, QuietAt, Of
<1>2. \A q \in Dispatches : job'[q].doc = d => QuietAt(q)'
  <2> SUFFICES ASSUME NEW q \in Dispatches, job'[q].doc = d PROVE QuietAt(q)'
    OBVIOUS
  <2>1. CASE q = p
    BY <1>1, <2>1
  <2>2. CASE q # p
    BY <1>1, <2>2 DEF QuietAt, Writes
  <2> QED BY <2>1, <2>2
<1>3. status'[d] = "cancelled"
  BY <1>1 DEF AtRest
<1> QED BY <1>2, <1>3 DEF AtRest, Rests, Quiet, QuietAt, Of

\* A step outside the dispatches of the row leaves it at rest.
LEMMA OthersRest ==
  ASSUME NEW d \in Docs, AtRest(d), status'[d] = "cancelled",
         \A q \in Dispatches : job'[q].doc = d =>
            job'[q] = job[q] /\ ingest'[q] = ingest[q] /\ call'[q] = call[q] /\ stray'[q] = stray[q],
         \A u \in Users : request'[u].doc = d => request'[u] = request[u] \/ request'[u].at = "cancel"
  PROVE  Rests(d)
BY DEF AtRest, Rests, Quiet, Of, Writes

LEMMA JobRests ==
  ASSUME DocInv, NEW d \in Docs, AtRest(d), NEW p \in Dispatches, JobStep(p)
  PROVE  Rests(d)
<1>0. Typed /\ DispatchKnown(p) /\ (job[p].at # "idle" => job[p].doc \in Docs)
  BY DispatchPlaces
<1>1. ASSUME NEW at \in JobPlaces, JobAt(p, at), ingest' = ingest, UNCHANGED <<call, stray, users>>,
             job[p].doc # d => status'[d] = status[d],
             job[p].doc = d /\ QuietAt(p) =>
               status'[d] = "cancelled" /\ at \notin {"read", "drop", "save", "complete", "fail", "post"}
      PROVE  Rests(d)
  <2>1. JobOnly(p) /\ job'[p].at = at /\ job'[p].doc = job[p].doc /\ request' = request
    BY <1>0, <1>1, JobAtEffect DEF users
  <2>2. QuietAt(p) /\ job[p].doc = d => status'[d] = "cancelled" /\ QuietAt(p)'
    BY <1>1, <2>1 DEF QuietAt, Writes
  <2> QED BY <1>1, <2>1, <2>2, DispatchRests DEF JobOnly
<1>2. CASE Put(p)
  BY <1>1, <1>2 DEF Put, table, JobPlaces, AtRest
<1>3. CASE Claim(p)
  <2>1. \/ status' = status /\ JobAt(p, "done")
        \/ job[p].doc # d /\ WriteStatus(job[p].doc, "processing") /\ JobAt(p, "read")
    BY <1>3, DocumentsAssumption DEF Claim, AtRest
  <2>2. ingest' = ingest /\ UNCHANGED <<call, stray, users>>
    BY <1>3 DEF Claim
  <2>3. job[p].doc # d => status'[d] = status[d]
    BY <1>0, <2>1 DEF WriteStatus, Typed
  <2> QED BY <1>1, <2>1, <2>2, <2>3 DEF JobPlaces, AtRest
<1>4. CASE Post(p)
  <2>1. job[p].at = "read" /\ status' = status /\ call' = call /\ stray' = stray /\ request' = request
    BY <1>4 DEF Post, table, users
  <2>2. job[p].doc = d => ~ QuietAt(p)
    BY <2>1 DEF QuietAt
  <2>3. /\ \A q \in Dispatches \ {p} : job'[q] = job[q] /\ ingest'[q] = ingest[q]
        /\ job'[p].doc = job[p].doc
    BY <1>0, <1>4, JobAtEffect DEF Post, JobAt, Typed, JobRecords
  <2> QED BY <2>1, <2>2, <2>3, DispatchRests
<1>5. CASE Answer(p)
  <2>1. /\ status' = status /\ call' = call /\ stray' = stray /\ request' = request /\ job[p].at = "post"
    BY <1>5 DEF Answer, table, users
  <2>2. /\ \/ EndIngest(p, "none")
           \/ ingest' = ingest
        /\ \E at \in {"done", "drop", "fail", "check"} :
             /\ JobAt(p, at)
             /\ job[p].doc = d /\ ingest[p].at # "closing" => at \in {"done", "check"}
    BY <1>5 DEF Answer, AtRest
  <2>3. PICK at \in {"done", "drop", "fail", "check"} :
          /\ JobAt(p, at)
          /\ job[p].doc = d /\ ingest[p].at # "closing" => at \in {"done", "check"}
    BY <2>2
  <2>4. JobOnly(p) /\ job'[p].at = at /\ job'[p].doc = job[p].doc
    BY <1>0, <2>3, JobAtEffect DEF JobPlaces
  <2>5. IngestOnly(p) /\ (ingest'[p].at = "none" \/ ingest'[p] = ingest[p])
    BY <1>0, <2>2, EndIngestEffect, Unmoved DEF IngestPlaces
  <2>6. job[p].doc = d /\ QuietAt(p) => QuietAt(p)'
    BY <2>1, <2>3, <2>4, <2>5 DEF QuietAt, Writes, Over
  <2> QED BY <2>1, <2>4, <2>5, <2>6, DispatchRests DEF JobOnly, IngestOnly, AtRest
<1>6. CASE DropChunks(p) \/ SaveChunks(p)
  <2>1. /\ job[p].at \in {"drop", "save"} /\ status' = status /\ ingest' = ingest /\ UNCHANGED <<call, stray, users>>
        /\ JobAt(p, "save") \/ JobAt(p, "complete")
    BY <1>6 DEF DropChunks, SaveChunks, table
  <2>2. job[p].doc = d => ~ QuietAt(p)
    BY <2>1 DEF QuietAt
  <2> QED BY <1>1, <2>1, <2>2 DEF JobPlaces
<1>7. CASE Complete(p) \/ Fail(p)
  <2>1. /\ job[p].at \in {"complete", "fail"} /\ ingest' = ingest /\ UNCHANGED <<call, stray, users>>
        /\ JobAt(p, "done") \/ JobAt(p, "unlink")
        /\ WriteStatus(job[p].doc, "completed") \/ WriteStatus(job[p].doc, "failed")
    BY <1>7 DEF Complete, Fail
  <2>2. job[p].doc = d => ~ QuietAt(p)
    BY <2>1 DEF QuietAt
  <2>3. job[p].doc # d => status'[d] = status[d]
    BY <1>0, <2>1 DEF WriteStatus, Typed
  <2> QED BY <1>1, <2>1, <2>2, <2>3 DEF JobPlaces
<1>8. CASE Check(p)
  <2>1. /\ status' = status /\ ingest' = ingest /\ UNCHANGED <<call, stray, users>>
        /\ \/ JobAt(p, "done")
           \/ JobAt(p, "fail") /\ job[p].doc # d
    BY <1>8 DEF Check, table, AtRest
  <2> QED BY <1>1, <2>1 DEF JobPlaces, AtRest
<1>9. CASE Unlink(p)
  BY <1>1, <1>9 DEF Unlink, table, JobPlaces, AtRest
<1> QED BY <1>2, <1>3, <1>4, <1>5, <1>6, <1>7, <1>8, <1>9 DEF JobStep

LEMMA IngestRests ==
  ASSUME DocInv, NEW d \in Docs, AtRest(d), NEW p \in Dispatches, IngestStep(p)
  PROVE  Rests(d)
<1>0. Typed
  BY DispatchPlaces
<1>1. /\ ingest[p].at \in AtWork
      /\ UNCHANGED <<status, job, stray, request>>
  BY DEF IngestStep, Work, Add, Close, SeeCancel, Undo, AtWork, table, users
<1>2. job[p].doc = d => ~ QuietAt(p)
  BY <1>1 DEF QuietAt, AtWork, Over
<1>3. \A q \in Dispatches \ {p} : ingest'[q] = ingest[q]
  BY <1>0 DEF IngestStep, Work, Add, Close, SeeCancel, Undo, IngestAt, EndIngest, Typed
<1>4. \A q \in Dispatches \ {p} : call'[q] = call[q]
  BY <1>0 DEF IngestStep, Work, Add, Close, SeeCancel, Undo, Send, Typed
<1> QED BY <1>1, <1>2, <1>3, <1>4, DispatchRests

\* A callback that has not passed its look at a cancelled row gives way.
LEMMA CallbackRests ==
  ASSUME DocInv, NEW d \in Docs, AtRest(d), NEW p \in Dispatches, Callback(p) \/ GiveUpCall(p)
  PROVE  Rests(d)
<1>0. Typed /\ call[p] \in Calls /\ stray[p] \in Calls
  BY DispatchPlaces
<1>1. ~ Writes(NoCall)
  BY DEF Writes, NoCall
<1>2. CASE GiveUpCall(p)
  <2>1. /\ stray' = [stray EXCEPT ![p] = call[p]] /\ call' = [call EXCEPT ![p] = NoCall]
        /\ UNCHANGED <<status, job, ingest, request>>
    BY <1>2 DEF GiveUpCall, table, users
  <2>2. /\ stray'[p] = call[p] /\ call'[p] = NoCall
        /\ \A q \in Dispatches \ {p} : stray'[q] = stray[q] /\ call'[q] = call[q]
    BY <1>0, <2>1 DEF Typed
  <2>3. QuietAt(p) => QuietAt(p)'
    <3>1. Writes(call[p]) = Writes(stray'[p])
      BY <2>2
    <3> QED BY <1>1, <2>1, <2>2, <3>1 DEF QuietAt, Writes
  <2> QED BY <2>1, <2>2, <2>3, DispatchRests DEF AtRest
<1>3. ASSUME NEW c \in Calls, HandleCall(p, c)
      PROVE  /\ UNCHANGED <<job, ingest, request>>
             /\ job[p].doc # d => status'[d] = status[d]
             /\ job[p].doc = d /\ ~ Writes(c) => status'[d] = "cancelled" /\ NextCall(p, c) = NoCall
  <2>1. UNCHANGED <<job, ingest, request>>
    BY <1>3 DEF HandleCall, users
  <2>2. job[p].doc # d => status'[d] = status[d]
    BY <1>0, <1>3 DEF HandleCall, Typed
  <2>3. job[p].doc = d /\ ~ Writes(c) => status'[d] = "cancelled" /\ NextCall(p, c) = NoCall
    BY <1>3 DEF HandleCall, NextCall, Writes, AtRest
  <2> QED BY <2>1, <2>2, <2>3
<1>4. CASE HandleCall(p, call[p]) /\ call' = [call EXCEPT ![p] = NextCall(p, call[p])] /\ stray' = stray
  <2>1. PICK n : n = NextCall(p, call[p])
    OBVIOUS
  <2>2. call'[p] = n /\ \A q \in Dispatches \ {p} : call'[q] = call[q]
    BY <1>0, <1>4, <2>1 DEF Typed
  <2>3. job[p].doc = d /\ QuietAt(p) => n = NoCall /\ status'[d] = "cancelled"
    BY <1>0, <1>3, <1>4, <2>1 DEF QuietAt
  <2>4. job[p].doc = d /\ QuietAt(p) => QuietAt(p)'
    BY <1>0, <1>1, <1>3, <1>4, <2>2, <2>3 DEF QuietAt, Writes
  <2> QED BY <1>0, <1>3, <1>4, <2>2, <2>3, <2>4, DispatchRests
<1>5. CASE HandleCall(p, stray[p]) /\ stray' = [stray EXCEPT ![p] = NextCall(p, stray[p])] /\ call' = call
  <2>1. PICK n : n = NextCall(p, stray[p])
    OBVIOUS
  <2>2. stray'[p] = n /\ \A q \in Dispatches \ {p} : stray'[q] = stray[q]
    BY <1>0, <1>5, <2>1 DEF Typed
  <2>3. job[p].doc = d /\ QuietAt(p) => n = NoCall /\ status'[d] = "cancelled"
    BY <1>0, <1>3, <1>5, <2>1 DEF QuietAt
  <2>4. job[p].doc = d /\ QuietAt(p) => QuietAt(p)'
    BY <1>0, <1>1, <1>3, <1>5, <2>2, <2>3 DEF QuietAt, Writes
  <2> QED BY <1>0, <1>3, <1>5, <2>2, <2>3, <2>4, DispatchRests
<1> QED BY <1>2, <1>4, <1>5 DEF Callback

LEMMA RequestRests ==
  ASSUME DocInv, NEW d \in Docs, AtRest(d), NEW u \in Users, RequestStep(u)
  PROVE  Rests(d)
<1>0. /\ Typed /\ d # None /\ "cancelled" \notin {"completed", "pending", "processing"}
      /\ request[u].doc = d => request[u].at = "cancel"
  BY DocumentsAssumption DEF DocInv, DocShape, AtRest, Quiet
<1>1. ASSUME NEW e \in Docs, ReadForCancel(u, e) \/ ReadForEdit(u, e) PROVE Rests(d)
  <2>1. /\ UNCHANGED <<status, job, ingest, call, stray>>
        /\ \E at \in {"cancel", "edit"} :
             request' = [request EXCEPT ![u] = [at |-> at, doc |-> e]] /\ (at = "edit" => e # d)
    BY <1>0, <1>1 DEF ReadForCancel, ReadForEdit, RequestAt, table, dispatching, AtRest
  <2>2. PICK at \in {"cancel", "edit"} :
          request' = [request EXCEPT ![u] = [at |-> at, doc |-> e]] /\ (at = "edit" => e # d)
    BY <2>1
  <2>3. /\ request'[u].at = at /\ request'[u].doc = e
        /\ \A v \in Users \ {u} : request'[v] = request[v]
    BY <1>0, <2>2 DEF Typed
  <2> QED BY <2>1, <2>2, <2>3, OthersRest DEF AtRest
<1>2. CASE WriteCancel(u)
  <2>1. /\ UNCHANGED <<job, ingest, call, stray>> /\ WriteStatus(request[u].doc, "cancelled")
        /\ request' = [request EXCEPT ![u] = [at |-> "idle", doc |-> None]]
    BY <1>2 DEF WriteCancel, RequestAt, dispatching
  <2>2. status'[d] = "cancelled"
    BY <1>0, <2>1 DEF WriteStatus, Typed, AtRest
  <2>3. request'[u].doc = None /\ \A v \in Users \ {u} : request'[v] = request[v]
    BY <1>0, <2>1 DEF Typed
  <2> QED BY <1>0, <2>1, <2>2, <2>3, OthersRest
<1>3. ASSUME NEW t \in Texts, PutEdit(u, t) PROVE Rests(d)
  <2>1. request[u].at = "edit" /\ request[u].doc # d /\ UNCHANGED <<status, job, ingest, call, stray>>
    BY <1>0, <1>3 DEF PutEdit, table, dispatching
  <2>2. \/ request' = [request EXCEPT ![u] = [at |-> "reset", doc |-> request[u].doc]]
        \/ request' = [request EXCEPT ![u] = [at |-> "idle", doc |-> None]]
    BY <1>3 DEF PutEdit, RequestAt
  <2>3. request'[u].doc # d /\ \A v \in Users \ {u} : request'[v] = request[v]
    BY <1>0, <2>1, <2>2 DEF Typed
  <2> QED BY <2>1, <2>3, OthersRest DEF AtRest
<1>4. ASSUME NEW p \in Dispatches, ResetEdited(u, p) PROVE Rests(d)
  <2>1. PICK e : e = request[u].doc
    OBVIOUS
  <2>2. /\ request[u].at = "reset" /\ e # d /\ WriteStatus(e, "pending") /\ UNCHANGED <<ingest, call, stray>>
        /\ job' = [job EXCEPT ![p] = [at |-> "claim", doc |-> e, text |-> None, keep |-> TRUE]]
        /\ request' = [request EXCEPT ![u] = [at |-> "idle", doc |-> None]]
    BY <1>0, <1>4, <2>1 DEF ResetEdited, Start, RequestAt
  <2>3. status'[d] = "cancelled"
    BY <1>0, <2>2 DEF WriteStatus, Typed, AtRest
  <2>4. request'[u].doc = None /\ \A v \in Users \ {u} : request'[v] = request[v]
    BY <1>0, <2>2 DEF Typed
  <2>5. job'[p].doc = e /\ \A q \in Dispatches \ {p} : job'[q] = job[q]
    BY <1>0, <2>2 DEF Typed
  <2> QED BY <1>0, <2>2, <2>3, <2>4, <2>5, OthersRest
<1> QED BY <1>1, <1>2, <1>3, <1>4 DEF RequestStep

LEMMA CreateRests ==
  ASSUME DocInv, NEW d \in Docs, AtRest(d), NEW p \in Dispatches, NEW e \in Docs, Create(p, e)
  PROVE  Rests(d)
<1>0. Typed /\ d # e /\ WriteStatus(e, "pending") /\ UNCHANGED <<call, stray, request>>
  BY DocumentsAssumption DEF DocInv, DocShape, AtRest, Create, users
<1>1. /\ \E at, text, keep : job' = [job EXCEPT ![p] = [at |-> at, doc |-> e, text |-> text, keep |-> keep]]
      /\ ingest' = ingest \/ ingest' = [ingest EXCEPT ![p] = NewIngest]
  BY DEF Create, Start
<1>2. job'[p].doc = e /\ \A q \in Dispatches \ {p} : job'[q] = job[q] /\ ingest'[q] = ingest[q]
  BY <1>0, <1>1 DEF Typed
<1>3. status'[d] = "cancelled"
  BY <1>0 DEF WriteStatus, Typed, AtRest
<1> QED BY <1>0, <1>2, <1>3, OthersRest

LEMMA CrashRests ==
  ASSUME DocInv, NEW d \in Docs, AtRest(d), ServerCrash \/ CollectorCrash
  PROVE  Rests(d)
<1>0. Typed /\ d # None
  BY DocumentsAssumption DEF DocInv, DocShape
<1>1. \A q \in Dispatches : job[q].doc = d => QuietAt(q)
  BY DEF AtRest, Quiet, QuietAt, Of
<1>2. CASE ServerCrash
  <2>1. /\ UNCHANGED <<status, ingest>>
        /\ job' = [p \in Dispatches |-> IF job[p].doc = None THEN job[p] ELSE [job[p] EXCEPT !.at = "done"]]
        /\ call' = [p \in Dispatches |-> NoCall] /\ stray' = [p \in Dispatches |-> NoCall]
        /\ request' = [u \in Users |-> IdleRequest]
    BY <1>2 DEF ServerCrash, table
  <2>2. ASSUME NEW p \in Dispatches, job'[p].doc = d
        PROVE  job'[p].at = "done" /\ job[p].doc = d /\ call'[p] = NoCall /\ stray'[p] = NoCall
    <3>1. job[p] \in JobRecords
      BY <1>0 DEF Typed
    <3> QED BY <1>0, <2>1, <2>2, <3>1 DEF JobRecords
  <2>3. \A p \in Dispatches : job'[p].doc = d => QuietAt(p)'
    BY <1>1, <2>1, <2>2 DEF QuietAt, Writes, NoCall
  <2>4. \A u \in Users : request'[u].doc # d
    BY <1>0, <2>1, SomeRecords
  <2> QED BY <2>1, <2>3, <2>4 DEF AtRest, Rests, Quiet, QuietAt, Of
<1>3. CASE CollectorCrash
  <2>1. /\ UNCHANGED <<status, job, call, stray, request>>
        /\ ingest' = [p \in Dispatches |->
             IF ingest[p].at = "none" \/ Answered(p) THEN ingest[p] ELSE [NoIngest EXCEPT !.at = "lost"]]
    BY <1>3 DEF CollectorCrash, table, users
  <2>2. \A p \in Dispatches : ingest'[p] = ingest[p] \/ ingest'[p].at = "lost"
    BY <2>1 DEF NoIngest
  <2>3. \A p \in Dispatches : job'[p].doc = d => QuietAt(p)'
    BY <1>1, <2>1, <2>2 DEF QuietAt, Writes, Over
  <2> QED BY <2>1, <2>3 DEF AtRest, Rests, Quiet, QuietAt, Of
<1> QED BY <1>2, <1>3

\* A cancelled row that no collector, callback, dispatch or edit is past its look at
\* stays cancelled, and stays like that: every later look at it gives way, also when
\* callbacks are given up, and when the server or the collector restarts.
THEOREM CancelledStays == Spec => CancelledRests
<1>1. ASSUME DocInv, [Next]_vars, NEW d \in Docs, AtRest(d) PROVE Rests(d)
  <2>1. CASE Next
    <3>1. ASSUME NEW D \in SUBSET Docs, Delete(D) PROVE Rests(d)
      BY <1>1, <3>1, OthersRest DEF Delete, dispatching, AtRest
    <3>2. ASSUME NEW e \in Docs, Purge(e) \/ Sweep(e) PROVE Rests(d)
      <4>1. UNCHANGED <<status, job, ingest, call, stray, request>>
        BY <3>2 DEF Purge, Sweep, dispatching, users
      <4> QED BY <1>1, <4>1, OthersRest DEF AtRest
    <3> QED BY <1>1, <2>1, <3>1, <3>2, CreateRests, JobRests, IngestRests, CallbackRests, RequestRests, CrashRests
         DEF Next
  <2>2. CASE UNCHANGED vars
    <3>1. UNCHANGED <<status, job, ingest, call, stray, request>>
      BY <2>2 DEF vars, table, dispatching, users
    <3> QED BY <1>1, <3>1, OthersRest DEF AtRest
  <2> QED BY <1>1, <2>1, <2>2
<1>2. DocInv /\ [Next]_vars =>
        [\A d \in Docs : status[d] = "cancelled" /\ Quiet(d) /\ origin[d] # "connector"
           => status'[d] = "cancelled" /\ Quiet(d)']_vars
  BY <1>1 DEF AtRest, Rests
<1> QED BY <1>2, DocInvariance, PTL DEF Spec, CancelledRests
===============================================================================
