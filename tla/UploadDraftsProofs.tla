-------------------------- MODULE UploadDraftsProofs --------------------------
\* Theorems of UploadDrafts for any drafts, requests and jobs.  DraftInv says of
\* each request what it knows of its draft between its read and its last write:
\* the copy of the row is old, but what it names was made for the draft and stays
\* so (Known), and no two requests are going to make the same job (Apart).
EXTENDS UploadDrafts, FiniteSetTheorems, TLAPS

Parses == {None, "uploaded", "assigned", "done"}
Ends == {"completed", "failed", "cancelled"}
Legals == {None, "pending", "processing", "completed", "failed", "cancelled"}
Ats == {"idle", "put", "legs", "promote", "check", "drop", "reset", "dispatch", "mark", "unlink"}
DraftOps == {"none", "stage", "assign", "retry", "poll", "delete"}
RowCopies == [parse : Parses, rag : Documents \cup {None}, kb : Imports \cup {None}]
RagLegs == [at : {"off", "create", "post", "await", "over"}, job : Documents \cup {None}]
KbLegs == [at : {"off", "send", "attach", "over"}, job : Imports \cup {None}]
Requests == [op : DraftOps, at : Ats, draft : Drafts \cup {None}, row : RowCopies,
             rag : RagLegs, kb : KbLegs]

Typed ==
  /\ parse \in [Drafts -> Parses]
  /\ rag \in [Drafts -> Documents \cup {None}]
  /\ kb \in [Drafts -> Imports \cup {None}]
  /\ urls \subseteq Drafts /\ deleted \subseteq Drafts
  /\ file \subseteq Drafts \ urls /\ staged \subseteq Drafts
  /\ leg \in [Jobs -> Legals]
  /\ owner \in [Jobs -> Drafts \cup {None}]
  /\ active \subseteq Jobs /\ gone \subseteq Documents
  /\ req \in [Users -> Requests]
  /\ reaper.left \subseteq Drafts /\ reaper.now \in Drafts \cup {None}
  /\ reaper \in [left : SUBSET Drafts, now : Drafts \cup {None}]
  /\ thrown \subseteq Drafts /\ messy \subseteq Drafts

\* A draft that need not have earned its "done", and one that has: its job is over
\* for good, for nobody works on it.
Excused(d) == d \in deleted \cup thrown
Settled(d) == \E j \in Jobs \ active : owner[j] = d /\ leg[j] \in {"completed", "cancelled"}
Made(j, d) == owner[j] = d /\ leg[j] # None

\* How far a request is with either leg.
RagKnown(u) ==
  /\ req[u].rag.at = "off" => req[u].rag = Off
  /\ req[u].rag.at = "create" => req[u].rag.job \in Documents /\ leg[req[u].rag.job] = None
  /\ req[u].rag.at \in {"post", "await"} => req[u].rag.job \in Documents /\ Made(req[u].rag.job, req[u].draft)
  /\ req[u].rag.at = "over" => rag[req[u].draft] # None
KbKnown(u) ==
  /\ req[u].kb.at = "off" => req[u].kb = Off
  /\ req[u].kb.at = "send" => req[u].kb.job \in Imports /\ leg[req[u].kb.job] = None
  /\ req[u].kb.at = "attach" => req[u].kb.job \in Imports /\ Made(req[u].kb.job, req[u].draft)
  /\ req[u].kb.at = "over" => kb[req[u].draft] # None \/ Excused(req[u].draft)

\* The copy of the row is that of a dispatched draft, and names jobs made for it.
RowKnown(u) ==
  /\ req[u].row.rag # None => Made(req[u].row.rag, req[u].draft)
  /\ req[u].row.kb # None => Made(req[u].row.kb, req[u].draft)
  /\ req[u].row.parse = "assigned" =>
       req[u].row.rag # None \/ req[u].row.kb # None \/ req[u].draft \in urls \/ Excused(req[u].draft)

PlaceKnown(u) ==
  /\ req[u].draft \in Drafts /\ parse[req[u].draft] # None
  /\ req[u].at = "put" => req[u].draft \notin urls
  /\ req[u].at = "drop" => req[u].row.rag # None
  /\ req[u].at = "unlink" => req[u].draft \in deleted
  /\ req[u].at = "promote" => Excused(req[u].draft) \/ Settled(req[u].draft)
  /\ req[u].op \in {"assign", "retry"} => req[u].rag # Off \/ req[u].kb # Off
  /\ req[u].at \in {"check", "drop", "reset"} => req[u].op \in {"assign", "retry"}
  /\ req[u].at = "dispatch" => req[u].op \in {"stage", "assign"}

Known(u) == req[u].at # "idle" => PlaceKnown(u) /\ RowKnown(u) /\ RagKnown(u) /\ KbKnown(u)

Apart ==
  \A u, v \in Users : u # v =>
    /\ req[u].rag.at = "create" /\ req[v].rag.at = "create" => req[u].rag.job # req[v].rag.job
    /\ req[u].kb.at = "send" /\ req[v].kb.at = "send" => req[u].kb.job # req[v].kb.job

DraftKnown(d) ==
  /\ d \in urls => parse[d] # None
  /\ rag[d] # None => Made(rag[d], d)
  /\ kb[d] # None => Made(kb[d], d)
  /\ parse[d] = "assigned" => rag[d] # None \/ kb[d] # None \/ d \in urls \/ Excused(d)
  /\ parse[d] = "done" => Excused(d) \/ Settled(d)

FilesKept ==
  /\ staged \subseteq file \ deleted
  /\ reaper.now # None => reaper.now \in deleted
  /\ \A d \in file : parse[d] # None

DraftInv ==
  /\ Typed /\ Apart /\ FilesKept
  /\ \A u \in Users : (req[u].at = "idle" => req[u] = Idle) /\ Known(u)
  /\ \A d \in Drafts : DraftKnown(d)
  /\ \A j \in active : leg[j] \notin {None, "completed"}

-------------------------------------------------------------------------------
(* How an action changes the record of a request.                              *)

Others(u) == \A v \in Users \ {u} : req'[v] = req[v]

LEMMA IdleIsRequest == Idle \in Requests /\ Off \in RagLegs /\ Off \in KbLegs /\ NoRow \in RowCopies
<1>1. Off \in RagLegs /\ Off \in KbLegs /\ NoRow \in RowCopies
  BY DEF Off, RagLegs, KbLegs, NoRow, RowCopies, Parses
<1> QED BY <1>1 DEF Idle, Requests, Ats, DraftOps

LEMMA GotoEffect ==
  ASSUME Typed, NEW u \in Users, NEW at \in Ats, Goto(u, at)
  PROVE  /\ req' \in [Users -> Requests] /\ Others(u)
         /\ req'[u].at = at /\ req'[u].draft = req[u].draft
         /\ req'[u].rag = req[u].rag /\ req'[u].kb = req[u].kb
         /\ req'[u].op = IF at = "dispatch" THEN "assign" ELSE req[u].op
         /\ req'[u].row = IF at = "drop" THEN req[u].row ELSE NoRow
<1>1. req \in [Users -> Requests]
  BY DEF Typed
<1>2. PICK o, w : req' = [req EXCEPT ![u].at = at, ![u].op = o, ![u].row = w]
                  /\ o = (IF at = "dispatch" THEN "assign" ELSE req[u].op)
                  /\ w = (IF at = "drop" THEN req[u].row ELSE NoRow)
  BY DEF Goto
<1>3. req[u] \in Requests
  BY <1>1
<1>4. o \in DraftOps /\ w \in RowCopies
  BY <1>2, <1>3, IdleIsRequest DEF Requests, DraftOps
<1>5. /\ req'[u].at = at /\ req'[u].draft = req[u].draft
      /\ req'[u].rag = req[u].rag /\ req'[u].kb = req[u].kb
      /\ req'[u].op = o /\ req'[u].row = w
      /\ req'[u] \in Requests
      /\ req' = [req EXCEPT ![u] = req'[u]]
  BY <1>1, <1>2, <1>3, <1>4 DEF Requests
<1>6. req' \in [Users -> Requests] /\ Others(u)
  BY <1>1, <1>5 DEF Others
<1> QED BY <1>2, <1>5, <1>6

LEMMA FinishEffect ==
  ASSUME Typed, NEW u \in Users, Finish(u)
  PROVE  req' \in [Users -> Requests] /\ Others(u) /\ req'[u] = Idle
<1>1. req \in [Users -> Requests]
  BY DEF Typed
<1> QED BY <1>1, IdleIsRequest DEF Finish, Others

LEMMA RagAtEffect ==
  ASSUME Typed, NEW u \in Users, NEW at \in {"post", "await", "over"}, RagAt(u, at)
  PROVE  /\ req' \in [Users -> Requests] /\ Others(u)
         /\ req'[u].at = req[u].at /\ req'[u].draft = req[u].draft /\ req'[u].op = req[u].op
         /\ req'[u].kb = req[u].kb /\ req'[u].row = req[u].row
         /\ req'[u].rag.at = at /\ (at # "over" => req'[u].rag.job = req[u].rag.job)
<1>1. req \in [Users -> Requests] /\ req[u] \in Requests
  BY DEF Typed
<1>2. PICK l : /\ l = [at |-> at, job |-> IF at = "over" THEN None ELSE req[u].rag.job]
               /\ req' = [req EXCEPT ![u].rag = l]
  BY DEF RagAt
<1>3. l \in RagLegs
  BY <1>1, <1>2 DEF Requests, RagLegs
<1>4. /\ req'[u].at = req[u].at /\ req'[u].draft = req[u].draft /\ req'[u].op = req[u].op
      /\ req'[u].kb = req[u].kb /\ req'[u].row = req[u].row
      /\ req'[u].rag = l /\ req'[u] \in Requests
      /\ req' = [req EXCEPT ![u] = req'[u]]
  BY <1>1, <1>2, <1>3 DEF Requests
<1>5. req' \in [Users -> Requests] /\ Others(u)
  BY <1>1, <1>4 DEF Others
<1> QED BY <1>2, <1>4, <1>5

LEMMA KbAtEffect ==
  ASSUME Typed, NEW u \in Users, NEW at \in {"attach", "over"}, KbAt(u, at)
  PROVE  /\ req' \in [Users -> Requests] /\ Others(u)
         /\ req'[u].at = req[u].at /\ req'[u].draft = req[u].draft /\ req'[u].op = req[u].op
         /\ req'[u].rag = req[u].rag /\ req'[u].row = req[u].row
         /\ req'[u].kb.at = at /\ (at # "over" => req'[u].kb.job = req[u].kb.job)
<1>1. req \in [Users -> Requests] /\ req[u] \in Requests
  BY DEF Typed
<1>2. PICK l : /\ l = [at |-> at, job |-> IF at = "over" THEN None ELSE req[u].kb.job]
               /\ req' = [req EXCEPT ![u].kb = l]
  BY DEF KbAt
<1>3. l \in KbLegs
  BY <1>1, <1>2 DEF Requests, KbLegs
<1>4. /\ req'[u].at = req[u].at /\ req'[u].draft = req[u].draft /\ req'[u].op = req[u].op
      /\ req'[u].rag = req[u].rag /\ req'[u].row = req[u].row
      /\ req'[u].kb = l /\ req'[u] \in Requests
      /\ req' = [req EXCEPT ![u] = req'[u]]
  BY <1>1, <1>2, <1>3 DEF Requests
<1>5. req' \in [Users -> Requests] /\ Others(u)
  BY <1>1, <1>4 DEF Others
<1> QED BY <1>2, <1>4, <1>5

LEMMA BecomesEffect ==
  ASSUME Typed, NEW u \in Users, NEW r \in Requests, req' = [req EXCEPT ![u] = r]
  PROVE  req' \in [Users -> Requests] /\ Others(u) /\ req'[u] = r
BY DEF Typed, Others

-------------------------------------------------------------------------------
(* What no step takes back, and what other requests know after it.             *)

Grows ==
  /\ \A d \in Drafts : /\ parse[d] # None => parse'[d] # None /\ (d \in urls' <=> d \in urls)
                       /\ Excused(d) => Excused(d)'
                       /\ d \in deleted => d \in deleted'
                       /\ rag[d] # None => rag'[d] # None
                       /\ kb[d] # None => kb'[d] # None
                       /\ Settled(d) => Settled(d)'
  /\ \A j \in Jobs : leg[j] # None => leg'[j] # None /\ owner'[j] = owner[j]

\* A job that u is going to make is not made by others.
Untaken(u) ==
  /\ req[u].rag.at = "create" => leg'[req[u].rag.job] = None
  /\ req[u].kb.at = "send" => leg'[req[u].kb.job] = None

LEMMA JobTypes == Documents \subseteq Jobs /\ Imports \subseteq Jobs /\ None \notin Jobs
BY DraftsAssumption DEF Jobs

LEMMA MadeStays ==
  ASSUME Grows, NEW j \in Jobs, NEW d \in Drafts, Made(j, d)
  PROVE  Made(j, d)'
BY DEF Grows, Made

LEMMA KnownStays ==
  ASSUME Typed, Grows, NEW u \in Users, req'[u] = req[u], Known(u),
         req[u].at # "idle" => Untaken(u)
  PROVE  Known(u)'
<1> SUFFICES ASSUME req[u].at # "idle"
             PROVE  PlaceKnown(u)' /\ RowKnown(u)' /\ RagKnown(u)' /\ KbKnown(u)'
  BY DEF Known
<1>0. PlaceKnown(u) /\ RowKnown(u) /\ RagKnown(u) /\ KbKnown(u)
  BY DEF Known
<1>p. PICK r \in Requests : r = req[u] /\ r = req'[u]
  BY DEF Typed
<1>1. r.draft \in Drafts /\ parse[r.draft] # None
  BY <1>0, <1>p DEF PlaceKnown
<1>2. /\ parse'[r.draft] # None /\ (r.draft \in urls' <=> r.draft \in urls)
      /\ Excused(r.draft) => Excused(r.draft)'
      /\ r.draft \in deleted => r.draft \in deleted'
      /\ rag[r.draft] # None => rag'[r.draft] # None
      /\ kb[r.draft] # None => kb'[r.draft] # None
      /\ Settled(r.draft) => Settled(r.draft)'
  BY <1>1 DEF Grows
<1>m. \A j \in Jobs : Made(j, r.draft) => Made(j, r.draft)'
  BY <1>1, MadeStays
<1>3. PlaceKnown(u)'
  BY <1>0, <1>p, <1>1, <1>2 DEF PlaceKnown, Excused, Settled
<1>4. RowKnown(u)'
  <2>1. r.row.rag \in Documents \cup {None} /\ r.row.kb \in Imports \cup {None}
    BY DEF Requests, RowCopies
  <2>2. r.row.rag # None => Made(r.row.rag, r.draft)'
    BY <1>0, <1>p, <1>m, <2>1, JobTypes DEF RowKnown
  <2>3. r.row.kb # None => Made(r.row.kb, r.draft)'
    BY <1>0, <1>p, <1>m, <2>1, JobTypes DEF RowKnown
  <2> QED BY <1>0, <1>p, <1>2, <2>2, <2>3 DEF RowKnown, Excused, Made
<1>5. RagKnown(u)'
  <2>1. r.rag.at \in {"post", "await"} => Made(r.rag.job, r.draft)'
    BY <1>0, <1>p, <1>m, JobTypes DEF RagKnown
  <2> QED BY <1>0, <1>p, <1>2, <2>1 DEF RagKnown, Untaken, Made
<1>6. KbKnown(u)'
  <2>1. r.kb.at = "attach" => Made(r.kb.job, r.draft)'
    BY <1>0, <1>p, <1>m, JobTypes DEF KbKnown
  <2> QED BY <1>0, <1>p, <1>2, <2>1 DEF KbKnown, Untaken, Made, Excused
<1> QED BY <1>3, <1>4, <1>5, <1>6

\* Steps that change no job.
LEMMA JobsRest ==
  ASSUME UNCHANGED <<leg, owner, active>>
  PROVE  /\ \A d \in Drafts : Settled(d) => Settled(d)'
         /\ \A j \in Jobs : leg[j] # None => leg'[j] # None /\ owner'[j] = owner[j]
         /\ \A u \in Users : Known(u) => (req[u].at = "idle" \/ Untaken(u))
         /\ \A j, d : Made(j, d)' <=> Made(j, d)
BY DEF Settled, Known, RagKnown, KbKnown, Untaken, Made

LEMMA DraftStays ==
  ASSUME Typed, Grows, NEW d \in Drafts, DraftKnown(d), parse'[d] = parse[d],
         rag'[d] = rag[d], kb'[d] = kb[d], d \in urls' <=> d \in urls
  PROVE  DraftKnown(d)'
<1>1. rag[d] \in Documents \cup {None} /\ kb[d] \in Imports \cup {None}
  BY DEF Typed
<1>2. rag[d] # None => Made(rag[d], d)'
  BY <1>1, JobTypes, MadeStays DEF DraftKnown
<1>3. kb[d] # None => Made(kb[d], d)'
  BY <1>1, JobTypes, MadeStays DEF DraftKnown
<1>4. (Excused(d) => Excused(d)') /\ (Settled(d) => Settled(d)')
  BY DEF Grows
<1> QED BY <1>2, <1>3, <1>4 DEF DraftKnown, Made, Excused, Settled

\* A request goes on to another place with its legs as they were.
LEMMA GotoKnown ==
  ASSUME Typed, Grows, NEW u \in Users, NEW at \in Ats, Goto(u, at), Known(u),
         req[u].at # "idle", Untaken(u), at \notin {"put", "idle"},
         at = "drop" => req[u].row.rag # None,
         at = "unlink" => req[u].draft \in deleted',
         at = "promote" => Excused(req[u].draft) \/ Settled(req[u].draft),
         at \in {"check", "drop", "reset", "dispatch"} => req[u].op \in {"assign", "retry"}
  PROVE  Known(u)'
<1>0. PlaceKnown(u) /\ RowKnown(u) /\ RagKnown(u) /\ KbKnown(u)
  BY DEF Known
<1>g. /\ req'[u].at = at /\ req'[u].draft = req[u].draft
      /\ req'[u].rag = req[u].rag /\ req'[u].kb = req[u].kb
      /\ req'[u].op = IF at = "dispatch" THEN "assign" ELSE req[u].op
      /\ req'[u].row = IF at = "drop" THEN req[u].row ELSE NoRow
  BY GotoEffect
<1>p. PICK r \in Requests : r = req[u]
  BY DEF Typed
<1>1. r.draft \in Drafts /\ parse[r.draft] # None
  BY <1>0, <1>p DEF PlaceKnown
<1>2. /\ parse'[r.draft] # None /\ (r.draft \in urls' <=> r.draft \in urls)
      /\ Excused(r.draft) => Excused(r.draft)'
      /\ r.draft \in deleted => r.draft \in deleted'
      /\ rag[r.draft] # None => rag'[r.draft] # None
      /\ kb[r.draft] # None => kb'[r.draft] # None
      /\ Settled(r.draft) => Settled(r.draft)'
  BY <1>1 DEF Grows
<1>m. \A j \in Jobs : Made(j, r.draft) => Made(j, r.draft)'
  BY <1>1, MadeStays
<1>3. PlaceKnown(u)'
  <2>1. at = "promote" => Excused(r.draft)' \/ Settled(r.draft)'
    BY <1>p, <1>2
  <2>2. req'[u].op \in {"assign", "retry"} => req'[u].rag # Off \/ req'[u].kb # Off
    BY <1>0, <1>g, <1>p DEF PlaceKnown
  <2>3. at = "drop" => req'[u].row.rag # None
    BY <1>g
  <2> QED BY <1>g, <1>p, <1>1, <1>2, <2>1, <2>2, <2>3 DEF PlaceKnown, Excused, Settled
<1>4. RowKnown(u)'
  <2>1. r.row.rag \in Documents \cup {None} /\ r.row.kb \in Imports \cup {None}
    BY DEF Requests, RowCopies
  <2>2. r.row.rag # None => Made(r.row.rag, r.draft)'
    BY <1>0, <1>p, <1>m, <2>1, JobTypes DEF RowKnown
  <2>3. r.row.kb # None => Made(r.row.kb, r.draft)'
    BY <1>0, <1>p, <1>m, <2>1, JobTypes DEF RowKnown
  <2>4. CASE at = "drop"
    BY <1>0, <1>g, <1>p, <1>2, <2>2, <2>3, <2>4 DEF RowKnown, Excused, Made
  <2>5. CASE at # "drop"
    <3>1. req'[u].row = NoRow
      BY <1>g, <2>5
    <3>2. NoRow.parse = None /\ NoRow.rag = None /\ NoRow.kb = None
      BY DEF NoRow
    <3> QED BY <3>1, <3>2, DraftsAssumption DEF RowKnown
  <2> QED BY <2>4, <2>5
<1>5. RagKnown(u)'
  <2>1. r.rag.at \in {"post", "await"} => Made(r.rag.job, r.draft)'
    BY <1>0, <1>p, <1>m, JobTypes DEF RagKnown
  <2> QED BY <1>0, <1>g, <1>p, <1>2, <2>1 DEF RagKnown, Untaken, Made
<1>6. KbKnown(u)'
  <2>1. r.kb.at = "attach" => Made(r.kb.job, r.draft)'
    BY <1>0, <1>p, <1>m, JobTypes DEF KbKnown
  <2> QED BY <1>0, <1>g, <1>p, <1>2, <2>1 DEF KbKnown, Untaken, Made, Excused
<1> QED BY <1>3, <1>4, <1>5, <1>6 DEF Known

\* The requests other than u, and the invariant as a whole, after a step of u.
LEMMA Assemble ==
  ASSUME DraftInv, Typed', Grows, NEW u \in Users, Others(u),
         \A v \in Users \ {u} : req[v].at # "idle" => Untaken(v),
         req'[u].at = "idle" => req'[u] = Idle,
         Known(u)',
         \A v \in Users \ {u} :
           /\ req'[u].rag.at = "create" /\ req[v].rag.at = "create" => req'[u].rag.job # req[v].rag.job
           /\ req'[u].kb.at = "send" /\ req[v].kb.at = "send" => req'[u].kb.job # req[v].kb.job,
         FilesKept', \A d \in Drafts : DraftKnown(d)',
         \A j \in active' : leg'[j] \notin {None, "completed"}
  PROVE  DraftInv'
<1>1. \A v \in Users : (req'[v].at = "idle" => req'[v] = Idle) /\ Known(v)'
  <2> SUFFICES ASSUME NEW v \in Users, v # u
               PROVE  (req'[v].at = "idle" => req'[v] = Idle) /\ Known(v)'
    OBVIOUS
  <2>1. req'[v] = req[v]
    BY DEF Others
  <2>2. Typed /\ Known(v) /\ (req[v].at = "idle" => req[v] = Idle)
    BY DEF DraftInv
  <2> QED BY <2>1, <2>2, KnownStays
<1>2. Apart'
  <2> SUFFICES ASSUME NEW v \in Users, NEW w \in Users, v # w
      PROVE /\ req'[v].rag.at = "create" /\ req'[w].rag.at = "create" => req'[v].rag.job # req'[w].rag.job
            /\ req'[v].kb.at = "send" /\ req'[w].kb.at = "send" => req'[v].kb.job # req'[w].kb.job
    BY DEF Apart
  <2>1. CASE v # u /\ w # u
    <3>1. req'[v] = req[v] /\ req'[w] = req[w] /\ Apart
      BY <2>1 DEF Others, DraftInv
    <3> QED BY <3>1 DEF Apart
  <2>2. CASE v = u
    BY <2>2 DEF Others
  <2>3. CASE w = u
    BY <2>3 DEF Others
  <2> QED BY <2>1, <2>2, <2>3
<1> QED BY <1>1, <1>2 DEF DraftInv

\* A step of u that touches no job and no draft's legs, and begins none.
LEMMA CalmStep ==
  ASSUME DraftInv, Typed', NEW u \in Users, Others(u), UNCHANGED <<urls, rag, kb, leg, owner, active>>,
         \A d \in Drafts : (parse[d] # None => parse'[d] # None) /\ (Excused(d) => Excused(d)'),
         deleted \subseteq deleted',
         req'[u].at = "idle" => req'[u] = Idle,
         req[u].at # "idle" /\ Untaken(u) /\ Grows => Known(u)',
         req[u].at # "idle",
         req'[u].rag \in {req[u].rag, Off}, req'[u].kb \in {req[u].kb, Off},
         FilesKept',
         \A d \in Drafts : parse'[d] # parse[d] /\ Grows => DraftKnown(d)'
  PROVE  DraftInv'
<1>1. /\ \A d \in Drafts : Settled(d) => Settled(d)'
      /\ \A j \in Jobs : leg[j] # None => leg'[j] # None /\ owner'[j] = owner[j]
      /\ \A v \in Users : req[v].at # "idle" => Untaken(v)
  BY JobsRest DEF DraftInv
<1>2. Grows
  BY <1>1 DEF Grows
<1>3. \A d \in Drafts : DraftKnown(d)'
  <2> SUFFICES ASSUME NEW d \in Drafts, parse'[d] = parse[d] PROVE DraftKnown(d)'
    BY <1>2
  <2> QED BY <1>2, DraftStays DEF DraftInv
<1>4. \A j \in active' : leg'[j] \notin {None, "completed"}
  BY DEF DraftInv
<1>5. \A v \in Users \ {u} :
        /\ req'[u].rag.at = "create" /\ req[v].rag.at = "create" => req'[u].rag.job # req[v].rag.job
        /\ req'[u].kb.at = "send" /\ req[v].kb.at = "send" => req'[u].kb.job # req[v].kb.job
  <2>1. Off.at = "off"
    BY DEF Off
  <2> QED BY <2>1 DEF DraftInv, Apart
<1>6. Known(u)'
  BY <1>1, <1>2
<1> QED BY <1>1, <1>2, <1>3, <1>4, <1>5, <1>6, Assemble

LEMMA IdleKnown ==
  ASSUME NEW u \in Users, req'[u] = Idle
  PROVE  /\ Known(u)' /\ req'[u].at = "idle" /\ req'[u].rag = Off /\ req'[u].kb = Off
BY DEF Known, Idle

-------------------------------------------------------------------------------
(* One lemma for each action of a request.                                     *)

LEMMA PutFileInv ==
  ASSUME DraftInv, NEW u \in Users, PutFile(u)
  PROVE  DraftInv'
<1> DEFINE d == req[u].draft
<1>1. /\ req[u].at = "put" /\ Finish(u) /\ UNCHANGED <<rows, jobs, reaper, thrown, messy>>
      /\ \/ file' = file \cup {d} /\ staged' = IF d \in deleted THEN staged ELSE staged \cup {d}
         \/ UNCHANGED <<file, staged>>
  BY DEF PutFile
<1>2. Typed /\ FilesKept /\ d \in Drafts /\ d \notin urls /\ parse[d] # None
  BY <1>1 DEF DraftInv, Known, PlaceKnown
<1>3. req' \in [Users -> Requests] /\ Others(u) /\ req'[u] = Idle
  BY <1>1, <1>2, FinishEffect
<1>4. Typed'
  BY <1>1, <1>2, <1>3 DEF Typed, rows, jobs
<1>5. FilesKept'
  BY <1>1, <1>2 DEF FilesKept, rows
<1>6. UNCHANGED <<urls, rag, kb, leg, owner, active, parse, deleted, thrown>>
  BY <1>1 DEF rows, jobs
<1> QED BY <1>1, <1>3, <1>4, <1>5, <1>6, IdleKnown, CalmStep DEF Excused

\* A promotion is decided on jobs that completed, so that nobody works on them, or
\* on a row without jobs that is excused.
LEMMA Promoted ==
  ASSUME DraftInv, NEW u \in Users, req[u].at = "legs", Promotes(u)
  PROVE  Excused(req[u].draft) \/ Settled(req[u].draft)
<1> DEFINE r == req[u]
<1>1. RowKnown(u) /\ r \in Requests
  BY DEF DraftInv, Known, Typed
<1>2. r.row.rag \in Documents \cup {None} /\ r.row.kb \in Imports \cup {None}
  BY <1>1 DEF Requests, RowCopies
<1>3. r.row.parse = "assigned" /\ RagIn(u, {"completed"}) /\ KbIn(u, {"completed"})
  BY DEF Promotes, LegsIn
<1>4. ASSUME NEW j \in Jobs, Made(j, r.draft), leg[j] = "completed" PROVE Settled(r.draft)
  BY <1>4 DEF Made, Settled, DraftInv
<1>5. CASE r.row.rag # None
  BY <1>1, <1>2, <1>3, <1>4, <1>5, JobTypes DEF RagIn, RowKnown
<1>6. CASE r.row.kb # None
  BY <1>1, <1>2, <1>3, <1>4, <1>6, JobTypes DEF KbIn, RowKnown
<1>7. CASE r.row.rag = None /\ r.row.kb = None
  BY <1>1, <1>3, <1>7 DEF KbIn, RowKnown
<1> QED BY <1>5, <1>6, <1>7

LEMMA GotoInv ==
  ASSUME DraftInv, NEW u \in Users, NEW at \in Ats, Goto(u, at), req[u].at # "idle",
         UNCHANGED <<rows, storage, jobs, reaper, thrown, messy>>,
         at \notin {"put", "idle"},
         at = "drop" => req[u].row.rag # None,
         at = "unlink" => req[u].draft \in deleted,
         at = "promote" => Excused(req[u].draft) \/ Settled(req[u].draft),
         at \in {"check", "drop", "reset", "dispatch"} => req[u].op \in {"assign", "retry"}
  PROVE  DraftInv'
<1>1. Typed /\ FilesKept /\ Known(u)
  BY DEF DraftInv
<1>2. /\ req' \in [Users -> Requests] /\ Others(u) /\ req'[u].at = at
      /\ req'[u].rag = req[u].rag /\ req'[u].kb = req[u].kb
  BY <1>1, GotoEffect
<1>3. UNCHANGED <<urls, rag, kb, leg, owner, active, gone, parse, deleted, thrown, messy, file, staged, reaper>>
  BY DEF rows, jobs, storage
<1>4. Typed'
  BY <1>1, <1>2, <1>3 DEF Typed
<1>5. FilesKept'
  BY <1>1, <1>3 DEF FilesKept
<1>6. Untaken(u) /\ Grows => Known(u)'
  BY <1>1, <1>3, GotoKnown
<1> QED BY <1>2, <1>3, <1>4, <1>5, <1>6, CalmStep DEF Excused

LEMMA FinishInv ==
  ASSUME DraftInv, NEW u \in Users, Finish(u), req[u].at # "idle",
         UNCHANGED <<rows, storage, jobs, reaper, thrown, messy>>
  PROVE  DraftInv'
<1>1. Typed /\ FilesKept
  BY DEF DraftInv
<1>2. req' \in [Users -> Requests] /\ Others(u) /\ req'[u] = Idle
  BY <1>1, FinishEffect
<1>3. UNCHANGED <<urls, rag, kb, leg, owner, active, gone, parse, deleted, thrown, messy, file, staged, reaper>>
  BY DEF rows, jobs, storage
<1>4. Typed'
  BY <1>1, <1>2, <1>3 DEF Typed
<1>5. FilesKept'
  BY <1>1, <1>3 DEF FilesKept
<1> QED BY <1>2, <1>3, <1>4, <1>5, IdleKnown, CalmStep DEF Excused

LEMMA ReadLegsInv ==
  ASSUME DraftInv, NEW u \in Users, ReadLegs(u)
  PROVE  DraftInv'
<1>1. /\ req[u].at = "legs" /\ UNCHANGED <<rows, storage, jobs, reaper, thrown, messy>>
      /\ \/ Promotes(u) /\ Goto(u, "promote")
         \/ Finish(u) \/ Goto(u, "mark") \/ (Goto(u, "reset") /\ req[u].op = "assign")
  BY DEF ReadLegs
<1>2. CASE Promotes(u) /\ Goto(u, "promote")
  BY <1>1, <1>2, Promoted, GotoInv DEF Ats
<1>3. CASE Finish(u)
  BY <1>1, <1>3, FinishInv
<1>4. CASE Goto(u, "mark") \/ (Goto(u, "reset") /\ req[u].op = "assign")
  BY <1>1, <1>4, GotoInv DEF Ats
<1> QED BY <1>1, <1>2, <1>3, <1>4

LEMMA CheckInv ==
  ASSUME DraftInv, NEW u \in Users, Check(u)
  PROVE  DraftInv'
<1>1. /\ req[u].at = "check" /\ UNCHANGED <<rows, storage, jobs, reaper, thrown, messy>>
      /\ \/ Finish(u)
         \/ Goto(u, "dispatch")
         \/ req[u].row.rag # None /\ Goto(u, "drop")
         \/ Goto(u, "reset")
  BY DEF Check
<1>5. req[u].op \in {"assign", "retry"}
  BY <1>1 DEF DraftInv, Known, PlaceKnown
<1>2. CASE Finish(u)
  BY <1>1, <1>2, FinishInv
<1>3. CASE Goto(u, "dispatch") \/ Goto(u, "reset")
  BY <1>1, <1>3, <1>5, GotoInv DEF Ats
<1>4. CASE req[u].row.rag # None /\ Goto(u, "drop")
  BY <1>1, <1>4, <1>5, GotoInv DEF Ats
<1> QED BY <1>1, <1>2, <1>3, <1>4

LEMMA PromoteInv ==
  ASSUME DraftInv, NEW u \in Users, Promote(u)
  PROVE  DraftInv'
<1>0. Known(u) /\ PlaceKnown(u) /\ req[u].at = "promote"
  BY DEF DraftInv, Known, PlaceKnown, Promote
<1>d. PICK d \in Drafts : d = req[u].draft
  BY <1>0 DEF PlaceKnown
<1>1. /\ req[u].at = "promote" /\ parse' = [parse EXCEPT ![d] = "done"]
      /\ Goto(u, "mark") \/ Finish(u)
      /\ UNCHANGED <<urls, rag, kb, deleted, storage, jobs, reaper, thrown, messy>>
  BY <1>d DEF Promote
<1>2. Typed /\ FilesKept /\ Known(u) /\ (Excused(d) \/ Settled(d)) /\ DraftKnown(d)
  BY <1>0, <1>1, <1>d DEF DraftInv, Known, PlaceKnown
<1>3. /\ req' \in [Users -> Requests] /\ Others(u)
      /\ req'[u].rag \in {req[u].rag, Off} /\ req'[u].kb \in {req[u].kb, Off}
      /\ req'[u].at = "idle" => req'[u] = Idle
  <2>1. CASE Goto(u, "mark")
    BY <1>2, <2>1, GotoEffect DEF Ats
  <2>2. CASE Finish(u)
    BY <1>2, <2>2, FinishEffect, IdleKnown
  <2> QED BY <1>1, <2>1, <2>2
<1>4. UNCHANGED <<urls, rag, kb, leg, owner, active, gone, deleted, thrown, messy, file, staged, reaper>>
  BY <1>1 DEF jobs, storage
<1>5. Typed'
  BY <1>1, <1>2, <1>3, <1>4 DEF Typed, Parses
<1>6. FilesKept'
  BY <1>1, <1>2, <1>4, DraftsAssumption DEF FilesKept, Typed
<1>7. Untaken(u) /\ Grows => Known(u)'
  <2>1. CASE Goto(u, "mark")
    BY <1>1, <1>2, <2>1, <1>d, GotoKnown DEF Ats
  <2>2. CASE Finish(u)
    BY <1>2, <2>2, FinishEffect, IdleKnown
  <2> QED BY <1>1, <2>1, <2>2
<1>8. \A e \in Drafts : parse[e] # None => parse'[e] # None
  BY <1>1, <1>2, DraftsAssumption DEF Typed
<1>9. \A e \in Drafts : parse'[e] # parse[e] /\ Grows => DraftKnown(e)'
  <2> SUFFICES ASSUME Grows PROVE DraftKnown(d)'
    BY <1>1, <1>2 DEF Typed
  <2>1. parse'[d] = "done" /\ "done" # None /\ (Excused(d)' \/ Settled(d)')
    BY <1>1, <1>2, DraftsAssumption DEF Typed, Grows
  <2>2. rag'[d] = rag[d] /\ kb'[d] = kb[d] /\ owner' = owner /\ leg' = leg
    BY <1>4
  <2> QED BY <1>2, <2>1, <2>2 DEF DraftKnown, Made, Excused, Settled
<1> QED BY <1>1, <1>3, <1>4, <1>5, <1>6, <1>7, <1>8, <1>9, CalmStep DEF Excused

LEMMA DropDocumentInv ==
  ASSUME DraftInv, NEW u \in Users, DropDocument(u)
  PROVE  DraftInv'
<1>1. /\ req[u].at = "drop" /\ gone' = gone \cup {req[u].row.rag} /\ Goto(u, "reset")
      /\ UNCHANGED <<rows, storage, leg, owner, active, reaper, thrown, messy>>
  BY DEF DropDocument
<1>2. Typed /\ FilesKept /\ Known(u) /\ PlaceKnown(u) /\ req[u] \in Requests
  BY <1>1 DEF DraftInv, Known, Typed
<1>3. /\ req' \in [Users -> Requests] /\ Others(u) /\ req'[u].at = "reset"
      /\ req'[u].rag = req[u].rag /\ req'[u].kb = req[u].kb
  BY <1>1, <1>2, GotoEffect DEF Ats
<1>4. UNCHANGED <<urls, rag, kb, leg, owner, active, parse, deleted, thrown, messy, file, staged, reaper>>
  BY <1>1 DEF rows, storage
<1>5. req[u].row.rag \in Documents
  BY <1>1, <1>2 DEF PlaceKnown, Requests, RowCopies
<1>6. Typed'
  BY <1>1, <1>2, <1>3, <1>4, <1>5 DEF Typed
<1>7. FilesKept'
  BY <1>2, <1>4 DEF FilesKept
<1>8. Untaken(u) /\ Grows => Known(u)'
  BY <1>1, <1>2, GotoKnown DEF Ats, PlaceKnown
<1> QED BY <1>1, <1>3, <1>4, <1>6, <1>7, <1>8, CalmStep DEF Excused

\* A reset or the end of a dispatch makes the draft "assigned".
LEMMA Assigned ==
  ASSUME DraftInv, Grows, NEW d \in Drafts, parse'[d] = "assigned",
         UNCHANGED <<urls, rag, kb, leg, owner>>,
         rag[d] # None \/ kb[d] # None \/ d \in urls \/ Excused(d)'
  PROVE  DraftKnown(d)'
<1>1. DraftKnown(d) /\ "assigned" # None /\ "assigned" # "done"
  BY DraftsAssumption DEF DraftInv
<1> QED BY <1>1 DEF DraftKnown, Made, Excused

LEMMA ResetInv ==
  ASSUME DraftInv, NEW u \in Users, Reset(u)
  PROVE  DraftInv'
<1>0. Known(u) /\ PlaceKnown(u) /\ req[u].at = "reset"
  BY DEF DraftInv, Known, PlaceKnown, Reset
<1>d. PICK d \in Drafts : d = req[u].draft
  BY <1>0 DEF PlaceKnown
<1>1. /\ req[u].at = "reset" /\ parse' = [parse EXCEPT ![d] = "assigned"]
      /\ thrown' = IF rag[d] = None /\ kb[d] = None THEN (thrown \cup {d}) \ deleted ELSE thrown
      /\ Goto(u, "check") \/ Goto(u, "dispatch")
      /\ UNCHANGED <<urls, rag, kb, deleted, storage, jobs, reaper, messy>>
  BY <1>d DEF Reset
<1>2. Typed /\ FilesKept /\ Known(u) /\ PlaceKnown(u)
  BY <1>0, <1>1, <1>d DEF DraftInv, Known, PlaceKnown
<1>3. req[u].op \in {"assign", "retry"}
  BY <1>1, <1>2 DEF PlaceKnown
<1>4. /\ req' \in [Users -> Requests] /\ Others(u) /\ req'[u].at # "idle"
      /\ req'[u].rag = req[u].rag /\ req'[u].kb = req[u].kb
  BY <1>1, <1>2, GotoEffect DEF Ats
<1>5. UNCHANGED <<urls, rag, kb, leg, owner, active, gone, deleted, messy, file, staged, reaper>>
  BY <1>1 DEF jobs, storage
<1>6. Typed'
  BY <1>1, <1>2, <1>4, <1>5 DEF Typed, Parses
<1>7. FilesKept'
  BY <1>1, <1>2, <1>5, DraftsAssumption DEF FilesKept, Typed
<1>8. Untaken(u) /\ Grows => Known(u)'
  BY <1>1, <1>2, <1>3, <1>d, GotoKnown DEF Ats
<1>9. \A e \in Drafts : (parse[e] # None => parse'[e] # None) /\ (Excused(e) => Excused(e)')
  BY <1>1, <1>2, DraftsAssumption DEF Typed, Excused
<1>10. \A e \in Drafts : parse'[e] # parse[e] /\ Grows => DraftKnown(e)'
  <2> SUFFICES ASSUME Grows PROVE DraftKnown(d)'
    BY <1>1, <1>2 DEF Typed
  <2>1. parse'[d] = "assigned"
    BY <1>1, <1>2 DEF Typed
  <2>2. rag[d] # None \/ kb[d] # None \/ d \in deleted' \cup thrown'
    BY <1>1
  <2> QED BY <1>2, <1>5, <2>1, <2>2, Assigned DEF Excused
<1> QED BY <1>1, <1>4, <1>5, <1>6, <1>7, <1>8, <1>9, <1>10, CalmStep

LEMMA SettleInv ==
  ASSUME DraftInv, NEW u \in Users, Settle(u)
  PROVE  DraftInv'
<1>0. Known(u) /\ PlaceKnown(u) /\ req[u].at = "dispatch"
  BY DEF DraftInv, Known, PlaceKnown, Settle
<1>d. PICK d \in Drafts : d = req[u].draft
  BY <1>0 DEF PlaceKnown
<1>1. /\ req[u].at = "dispatch"
      /\ req[u].rag.at \in {"off", "over"} /\ req[u].kb.at \in {"off", "over"}
      /\ parse' = IF req[u].op = "stage" THEN parse ELSE [parse EXCEPT ![d] = "assigned"]
      /\ Finish(u)
      /\ UNCHANGED <<urls, rag, kb, deleted, storage, jobs, reaper, thrown, messy>>
  BY <1>d DEF Settle, Legs
<1>2. /\ Typed /\ FilesKept /\ Known(u)
      /\ PlaceKnown(u) /\ RagKnown(u) /\ KbKnown(u)
  BY <1>0, <1>1, <1>d DEF DraftInv, Known, PlaceKnown
<1>3. req' \in [Users -> Requests] /\ Others(u) /\ req'[u] = Idle
  BY <1>1, <1>2, FinishEffect
<1>4. UNCHANGED <<urls, rag, kb, leg, owner, active, gone, deleted, thrown, messy, file, staged, reaper>>
  BY <1>1 DEF jobs, storage
<1>5. Typed'
  BY <1>1, <1>2, <1>3, <1>4 DEF Typed, Parses
<1>6. FilesKept'
  BY <1>1, <1>2, <1>4, DraftsAssumption DEF FilesKept, Typed
<1>7. \A e \in Drafts : (parse[e] # None => parse'[e] # None) /\ (Excused(e) => Excused(e)')
  BY <1>1, <1>2, <1>4, DraftsAssumption DEF Typed, Excused
<1>8. \A e \in Drafts : parse'[e] # parse[e] /\ Grows => DraftKnown(e)'
  <2> SUFFICES ASSUME Grows, req[u].op # "stage" PROVE DraftKnown(d)'
    BY <1>1, <1>2 DEF Typed
  <2>1. parse'[d] = "assigned"
    BY <1>1, <1>2 DEF Typed
  <2>2. req[u].op \in {"assign", "retry"}
    BY <1>1, <1>2 DEF PlaceKnown
  <2>3. rag[d] # None \/ kb[d] # None \/ d \in deleted \cup thrown
    BY <1>1, <1>2, <1>d, <2>2 DEF PlaceKnown, RagKnown, KbKnown, Excused
  <2> QED BY <1>2, <1>4, <2>1, <2>3, Assigned DEF Excused
<1> QED BY <1>1, <1>3, <1>4, <1>5, <1>6, <1>7, <1>8, IdleKnown, CalmStep

-------------------------------------------------------------------------------
(* The steps of a dispatch that make, start or attach a job.                   *)

\* Only the job of a leg that is about to be made comes into being.
LEMMA MakesOwn ==
  ASSUME DraftInv, NEW u \in Users, NEW j \in Jobs,
         \A i \in Jobs : leg[i] = None /\ leg'[i] # None => i = j,
         \/ req[u].rag.at = "create" /\ req[u].rag.job = j
         \/ req[u].kb.at = "send" /\ req[u].kb.job = j
  PROVE  \A v \in Users \ {u} : req[v].at # "idle" => Untaken(v)
<1> SUFFICES ASSUME NEW v \in Users \ {u}, req[v].at # "idle" PROVE Untaken(v)
  OBVIOUS
<1>1. RagKnown(v) /\ KbKnown(v) /\ req[u].at # "idle" /\ RagKnown(u) /\ KbKnown(u)
  <2>1. Idle.rag.at = "off" /\ Idle.kb.at = "off"
    BY DEF Idle, Off
  <2> QED BY <2>1 DEF DraftInv, Known
<1>2. req[v].rag.at = "create" => req[v].rag.job # j
  BY <1>1, DraftsAssumption DEF DraftInv, Apart, RagKnown, KbKnown
<1>3. req[v].kb.at = "send" => req[v].kb.job # j
  BY <1>1, DraftsAssumption DEF DraftInv, Apart, RagKnown, KbKnown
<1> QED BY <1>1, <1>2, <1>3, JobTypes DEF Untaken, RagKnown, KbKnown

\* What is left of Assemble for a step of a dispatch: the row keeps its parse
\* status, and the request stays where it is.
LEMMA LegStep ==
  ASSUME DraftInv, Typed', Grows, NEW u \in Users, Others(u), req[u].at = "dispatch",
         req'[u].at = "dispatch", req'[u].op = req[u].op, req'[u].draft = req[u].draft,
         req'[u].row = req[u].row,
         req'[u].rag # Off \/ req'[u].kb # Off,
         RagKnown(u)', KbKnown(u)',
         req'[u].rag = req[u].rag \/ req'[u].rag.at # "create",
         req'[u].kb = req[u].kb \/ req'[u].kb.at # "send",
         \A v \in Users \ {u} : req[v].at # "idle" => Untaken(v),
         UNCHANGED <<urls, parse, deleted, file, staged, reaper>>,
         \A d \in Drafts : rag'[d] # rag[d] => rag'[d] # None /\ Made(rag[d], d)',
         \A d \in Drafts : kb'[d] # kb[d] => kb'[d] # None /\ Made(kb[d], d)',
         \A j \in active' : leg'[j] \notin {None, "completed"}
  PROVE  DraftInv'
<1>1. Typed /\ FilesKept /\ PlaceKnown(u) /\ RowKnown(u)
  BY DEF DraftInv, Known
<1>p. PICK r \in Requests : r = req[u]
  BY <1>1 DEF Typed
<1>2. /\ r.draft \in Drafts
      /\ Excused(r.draft) => Excused(r.draft)'
      /\ \A j \in Jobs : Made(j, r.draft) => Made(j, r.draft)'
      /\ r.row.rag \in Documents \cup {None} /\ r.row.kb \in Imports \cup {None}
  BY <1>1, <1>p, MadeStays DEF PlaceKnown, Grows, Requests, RowCopies
<1>3. PlaceKnown(u)'
  BY <1>1, <1>p DEF PlaceKnown
<1>4. RowKnown(u)'
  <2>1. r.row.rag # None => Made(r.row.rag, r.draft)'
    BY <1>1, <1>2, <1>p, JobTypes DEF RowKnown
  <2>2. r.row.kb # None => Made(r.row.kb, r.draft)'
    BY <1>1, <1>2, <1>p, JobTypes DEF RowKnown
  <2> QED BY <1>1, <1>2, <1>p, <2>1, <2>2 DEF RowKnown, Excused, Made
<1>5. Known(u)'
  BY <1>3, <1>4 DEF Known
<1>6. FilesKept'
  BY <1>1 DEF FilesKept
<1>7. \A d \in Drafts : DraftKnown(d)'
  <2> SUFFICES ASSUME NEW d \in Drafts PROVE DraftKnown(d)'
    OBVIOUS
  <2>1. /\ DraftKnown(d) /\ (Excused(d) => Excused(d)') /\ (Settled(d) => Settled(d)')
        /\ rag[d] # None => rag'[d] # None
        /\ kb[d] # None => kb'[d] # None
        /\ rag[d] \in Documents \cup {None} /\ kb[d] \in Imports \cup {None}
    BY <1>1 DEF DraftInv, Grows, Typed
  <2>2. PICK a \in Documents \cup {None}, b \in Imports \cup {None} : a = rag[d] /\ b = kb[d]
    BY <2>1
  <2>3. (a # None => Made(a, d)') /\ (b # None => Made(b, d)')
    BY <2>1, <2>2, JobTypes, MadeStays DEF DraftKnown
  <2>4. rag'[d] # None => Made(rag[d], d)'
    BY <2>2, <2>3 DEF Made
  <2>5. kb'[d] # None => Made(kb[d], d)'
    BY <2>2, <2>3 DEF Made
  <2> QED BY <2>1, <2>4, <2>5 DEF DraftKnown, Excused, Settled
<1>8. req'[u].at # "idle"
  OBVIOUS
<1>9. \A v \in Users \ {u} :
        /\ req'[u].rag.at = "create" /\ req[v].rag.at = "create" => req'[u].rag.job # req[v].rag.job
        /\ req'[u].kb.at = "send" /\ req[v].kb.at = "send" => req'[u].kb.job # req[v].kb.job
  BY DEF DraftInv, Apart
<1> QED BY <1>5, <1>6, <1>7, <1>8, <1>9, Assemble

\* A job that is made, starts or ends without success takes nothing back.
LEMMA JobWrites ==
  ASSUME DraftInv, NEW j \in Jobs,
         \A i \in Jobs \ {j} : leg'[i] = leg[i] /\ owner'[i] = owner[i],
         leg[j] \notin {"completed", "cancelled"}, leg'[j] # None,
         leg[j] # None => owner'[j] = owner[j],
         active' \subseteq active \cup {j},
         \A d \in Drafts : /\ parse'[d] = parse[d] /\ (d \in urls' <=> d \in urls)
                           /\ Excused(d) => Excused(d)'
                           /\ d \in deleted => d \in deleted'
                           /\ rag[d] # None => rag'[d] # None
                           /\ kb[d] # None => kb'[d] # None
  PROVE  Grows
<1>1. \A d \in Drafts : Settled(d) => Settled(d)'
  BY DEF Settled
<1>2. \A i \in Jobs : leg[i] # None => leg'[i] # None /\ owner'[i] = owner[i]
  OBVIOUS
<1> QED BY <1>1, <1>2 DEF Grows

\* The KB leg of a request is as it was when a step of its RAG leg makes no job,
\* and the other way round.
LEMMA KbStays ==
  ASSUME Typed, Grows, NEW u \in Users, req'[u].kb = req[u].kb, req'[u].draft = req[u].draft,
         PlaceKnown(u), KbKnown(u),
         req[u].kb.at = "send" => leg'[req[u].kb.job] = None
  PROVE  KbKnown(u)'
<1>1. PICK k \in KbLegs, d \in Drafts : k = req[u].kb /\ d = req[u].draft
  BY DEF Typed, Requests, PlaceKnown
<1>2. k.at = "attach" => k.job \in Imports /\ Made(k.job, d)'
  BY <1>1, JobTypes, MadeStays DEF KbKnown
<1>3. (Excused(d) => Excused(d)') /\ (kb[d] # None => kb'[d] # None)
  BY DEF Grows
<1> QED BY <1>1, <1>2, <1>3 DEF KbKnown, Made, Excused

LEMMA RagStays ==
  ASSUME Typed, Grows, NEW u \in Users, req'[u].rag = req[u].rag, req'[u].draft = req[u].draft,
         PlaceKnown(u), RagKnown(u),
         req[u].rag.at = "create" => leg'[req[u].rag.job] = None
  PROVE  RagKnown(u)'
<1>1. PICK k \in RagLegs, d \in Drafts : k = req[u].rag /\ d = req[u].draft
  BY DEF Typed, Requests, PlaceKnown
<1>2. k.at \in {"post", "await"} => k.job \in Documents /\ Made(k.job, d)'
  BY <1>1, JobTypes, MadeStays DEF RagKnown
<1>3. rag[d] # None => rag'[d] # None
  BY DEF Grows
<1> QED BY <1>1, <1>2, <1>3 DEF RagKnown, Made

LEMMA RagCreateInv ==
  ASSUME DraftInv, NEW u \in Users, RagCreate(u)
  PROVE  DraftInv'
<1>0. /\ req[u].at = "dispatch" /\ req[u].rag.at = "create"
      /\ Typed /\ FilesKept /\ PlaceKnown(u) /\ RagKnown(u) /\ KbKnown(u)
  BY DEF DraftInv, Known, RagCreate, AtLeg
<1>d. PICK d \in Drafts, j \in Documents : d = req[u].draft /\ j = req[u].rag.job
  BY <1>0 DEF PlaceKnown, RagKnown
<1>1. /\ leg' = [leg EXCEPT ![j] = "pending"] /\ owner' = [owner EXCEPT ![j] = d]
      /\ RagAt(u, "post")
      /\ UNCHANGED <<rows, storage, active, gone, reaper, thrown, messy>>
  BY <1>d DEF RagCreate
<1>2. UNCHANGED <<urls, parse, rag, kb, deleted, file, staged, active, gone, reaper, thrown, messy>>
  BY <1>1 DEF rows, storage
<1>3. leg[j] = None /\ j \in Jobs /\ "pending" # None
  BY <1>0, <1>d, JobTypes, DraftsAssumption DEF RagKnown
<1>4. /\ req' \in [Users -> Requests] /\ Others(u)
      /\ req'[u].at = req[u].at /\ req'[u].draft = req[u].draft /\ req'[u].op = req[u].op
      /\ req'[u].kb = req[u].kb /\ req'[u].row = req[u].row
      /\ req'[u].rag.at = "post" /\ req'[u].rag.job = req[u].rag.job
  BY <1>0, <1>1, RagAtEffect
<1>5. Typed'
  BY <1>0, <1>1, <1>2, <1>3, <1>4 DEF Typed, Legals
<1>6. /\ leg'[j] = "pending" /\ owner'[j] = d
      /\ \A i \in Jobs \ {j} : leg'[i] = leg[i] /\ owner'[i] = owner[i]
  BY <1>0, <1>1, <1>3 DEF Typed
<1>7. Grows
  BY <1>2, <1>3, <1>6, JobWrites, DraftsAssumption DEF Excused
<1>8. \A v \in Users \ {u} : req[v].at # "idle" => Untaken(v)
  BY <1>0, <1>3, <1>6, <1>d, MakesOwn
<1>9. req'[u].rag # Off
  BY <1>4 DEF Off
<1>10. RagKnown(u)'
  BY <1>3, <1>4, <1>6, <1>d DEF RagKnown, Made
<1>11. KbKnown(u)'
  <2>1. req[u].kb.at = "send" => leg'[req[u].kb.job] = None
    BY <1>0, <1>6, <1>d, JobTypes, DraftsAssumption DEF KbKnown
  <2> QED BY <1>0, <1>4, <1>7, <2>1, KbStays
<1>12. \A i \in active' : leg'[i] \notin {None, "completed"}
  BY <1>0, <1>2, <1>3, <1>6, DraftsAssumption DEF DraftInv, Typed
<1> QED BY <1>0, <1>2, <1>4, <1>5, <1>7, <1>8, <1>9, <1>10, <1>11, <1>12, LegStep

LEMMA RagPostInv ==
  ASSUME DraftInv, NEW u \in Users, RagPost(u)
  PROVE  DraftInv'
<1>0. /\ req[u].at = "dispatch" /\ req[u].rag.at = "post"
      /\ Typed /\ FilesKept /\ PlaceKnown(u) /\ RagKnown(u) /\ KbKnown(u)
  BY DEF DraftInv, Known, RagPost, AtLeg
<1>d. PICK d \in Drafts, j \in Documents : d = req[u].draft /\ j = req[u].rag.job
  BY <1>0 DEF PlaceKnown, RagKnown
<1>1. /\ \/ leg[j] = "pending" /\ leg' = [leg EXCEPT ![j] = "processing"] /\ active' = active \cup {j}
         \/ leg[j] = "pending" /\ leg' = [leg EXCEPT ![j] = "failed"] /\ active' = active
         \/ leg[j] # "pending" /\ leg' = leg /\ active' = active
      /\ RagAt(u, "await")
      /\ UNCHANGED <<rows, storage, owner, gone, reaper, thrown, messy>>
  BY <1>d DEF RagPost
<1>2. UNCHANGED <<urls, parse, rag, kb, deleted, file, staged, owner, gone, reaper, thrown, messy>>
  BY <1>1 DEF rows, storage
<1>3. j \in Jobs /\ Made(j, d)
  BY <1>0, <1>d, JobTypes DEF RagKnown
<1>4. /\ req' \in [Users -> Requests] /\ Others(u)
      /\ req'[u].at = req[u].at /\ req'[u].draft = req[u].draft /\ req'[u].op = req[u].op
      /\ req'[u].kb = req[u].kb /\ req'[u].row = req[u].row
      /\ req'[u].rag.at = "await" /\ req'[u].rag.job = req[u].rag.job
  BY <1>0, <1>1, RagAtEffect
<1>5. Typed'
  BY <1>0, <1>1, <1>2, <1>3, <1>4 DEF Typed, Legals
<1>6. /\ \A i \in Jobs \ {j} : leg'[i] = leg[i]
      /\ leg'[j] # None /\ active' \subseteq active \cup {j}
      /\ leg[j] \in {"completed", "cancelled"} => leg' = leg /\ active' = active
  BY <1>0, <1>1, <1>3, DraftsAssumption DEF Typed, Made
<1>7. Grows
  <2>1. CASE leg' = leg /\ active' = active
    BY <1>2, <2>1, JobsRest DEF Grows, Excused
  <2>2. CASE leg[j] \notin {"completed", "cancelled"}
    BY <1>2, <1>3, <1>6, <2>2, JobWrites DEF Excused
  <2> QED BY <1>6, <2>1, <2>2
<1>8. \A v \in Users \ {u} : req[v].at # "idle" => Untaken(v)
  BY <1>3, <1>6, JobTypes DEF DraftInv, Known, RagKnown, KbKnown, Untaken, Made
<1>9. req'[u].rag # Off
  BY <1>4 DEF Off
<1>10. RagKnown(u)'
  BY <1>2, <1>3, <1>4, <1>6, <1>d DEF RagKnown, Made
<1>11. KbKnown(u)'
  <2>1. req[u].kb.at = "send" => leg'[req[u].kb.job] = None
    BY <1>0, <1>3, <1>6, <1>d, JobTypes DEF KbKnown, Made
  <2> QED BY <1>0, <1>4, <1>7, <2>1, KbStays
<1>12. \A i \in active' : leg'[i] \notin {None, "completed"}
  <2>1. \A i \in active : leg[i] \notin {None, "completed"}
    BY DEF DraftInv
  <2> QED BY <1>0, <1>1, <1>3, <2>1, DraftsAssumption DEF Typed
<1> QED BY <1>0, <1>2, <1>4, <1>5, <1>7, <1>8, <1>9, <1>10, <1>11, <1>12, LegStep

LEMMA RagAttachInv ==
  ASSUME DraftInv, NEW u \in Users, RagAttach(u)
  PROVE  DraftInv'
<1>0. /\ req[u].at = "dispatch" /\ req[u].rag.at = "await"
      /\ Typed /\ FilesKept /\ PlaceKnown(u) /\ RagKnown(u) /\ KbKnown(u)
  BY DEF DraftInv, Known, RagAttach, AtLeg
<1>d. PICK d \in Drafts, j \in Documents : d = req[u].draft /\ j = req[u].rag.job
  BY <1>0 DEF PlaceKnown, RagKnown
<1>1. /\ rag' = [rag EXCEPT ![d] = j] /\ RagAt(u, "over")
      /\ UNCHANGED <<urls, parse, kb, deleted, storage, jobs, reaper, thrown, messy>>
  BY <1>d DEF RagAttach
<1>2. UNCHANGED <<urls, parse, kb, deleted, file, staged, leg, owner, active, gone, reaper, thrown, messy>>
  BY <1>1 DEF jobs, storage
<1>3. j \in Jobs /\ Made(j, d) /\ j # None
  BY <1>0, <1>d, JobTypes DEF RagKnown
<1>4. /\ req' \in [Users -> Requests] /\ Others(u)
      /\ req'[u].at = req[u].at /\ req'[u].draft = req[u].draft /\ req'[u].op = req[u].op
      /\ req'[u].kb = req[u].kb /\ req'[u].row = req[u].row /\ req'[u].rag.at = "over"
  BY <1>0, <1>1, RagAtEffect
<1>5. Typed'
  BY <1>0, <1>1, <1>2, <1>4 DEF Typed
<1>6. rag'[d] = j /\ \A e \in Drafts \ {d} : rag'[e] = rag[e]
  BY <1>0, <1>1 DEF Typed
<1>7. Grows
  BY <1>2, <1>3, <1>6, JobsRest DEF Grows, Excused
<1>8. \A v \in Users \ {u} : req[v].at # "idle" => Untaken(v)
  BY <1>2, JobsRest DEF DraftInv
<1>9. req'[u].rag # Off
  BY <1>4 DEF Off
<1>10. RagKnown(u)'
  BY <1>3, <1>4, <1>6, <1>d DEF RagKnown
<1>11. KbKnown(u)'
  BY <1>0, <1>2, <1>4, <1>7, KbStays DEF KbKnown
<1>12. \A e \in Drafts : rag'[e] # rag[e] => rag'[e] # None /\ Made(rag[e], e)'
  BY <1>2, <1>3, <1>6 DEF Made
<1>13. \A i \in active' : leg'[i] \notin {None, "completed"}
  BY <1>2 DEF DraftInv
<1> QED BY <1>0, <1>2, <1>4, <1>5, <1>7, <1>8, <1>9, <1>10, <1>11, <1>12, <1>13, LegStep

LEMMA KbAttachInv ==
  ASSUME DraftInv, NEW u \in Users, KbAttach(u)
  PROVE  DraftInv'
<1>0. /\ req[u].at = "dispatch" /\ req[u].kb.at = "attach"
      /\ Typed /\ FilesKept /\ PlaceKnown(u) /\ RagKnown(u) /\ KbKnown(u)
  BY DEF DraftInv, Known, KbAttach, AtLeg
<1>d. PICK d \in Drafts, j \in Imports : d = req[u].draft /\ j = req[u].kb.job
  BY <1>0 DEF PlaceKnown, KbKnown
<1>1. /\ kb' = [kb EXCEPT ![d] = j] /\ KbAt(u, "over")
      /\ UNCHANGED <<urls, parse, rag, deleted, storage, jobs, reaper, thrown, messy>>
  BY <1>d DEF KbAttach
<1>2. UNCHANGED <<urls, parse, rag, deleted, file, staged, leg, owner, active, gone, reaper, thrown, messy>>
  BY <1>1 DEF jobs, storage
<1>3. j \in Jobs /\ Made(j, d) /\ j # None
  BY <1>0, <1>d, JobTypes DEF KbKnown
<1>4. /\ req' \in [Users -> Requests] /\ Others(u)
      /\ req'[u].at = req[u].at /\ req'[u].draft = req[u].draft /\ req'[u].op = req[u].op
      /\ req'[u].rag = req[u].rag /\ req'[u].row = req[u].row /\ req'[u].kb.at = "over"
  BY <1>0, <1>1, KbAtEffect
<1>5. Typed'
  BY <1>0, <1>1, <1>2, <1>4 DEF Typed
<1>6. kb'[d] = j /\ \A e \in Drafts \ {d} : kb'[e] = kb[e]
  BY <1>0, <1>1 DEF Typed
<1>7. Grows
  BY <1>2, <1>3, <1>6, JobsRest DEF Grows, Excused
<1>8. \A v \in Users \ {u} : req[v].at # "idle" => Untaken(v)
  BY <1>2, JobsRest DEF DraftInv
<1>9. req'[u].kb # Off
  BY <1>4 DEF Off
<1>10. KbKnown(u)'
  BY <1>3, <1>4, <1>6, <1>d DEF KbKnown
<1>11. RagKnown(u)'
  BY <1>0, <1>2, <1>4, <1>7, RagStays DEF RagKnown
<1>12. \A e \in Drafts : kb'[e] # kb[e] => kb'[e] # None /\ Made(kb[e], e)'
  BY <1>2, <1>3, <1>6 DEF Made
<1>13. \A i \in active' : leg'[i] \notin {None, "completed"}
  BY <1>2 DEF DraftInv
<1> QED BY <1>0, <1>2, <1>4, <1>5, <1>7, <1>8, <1>9, <1>10, <1>11, <1>12, <1>13, LegStep

LEMMA KbSendInv ==
  ASSUME DraftInv, NEW u \in Users, KbSend(u)
  PROVE  DraftInv'
<1>0. /\ req[u].at = "dispatch" /\ req[u].kb.at = "send"
      /\ Typed /\ FilesKept /\ PlaceKnown(u) /\ RagKnown(u) /\ KbKnown(u)
  BY DEF DraftInv, Known, KbSend, AtLeg
<1>d. PICK d \in Drafts, j \in Imports : d = req[u].draft /\ j = req[u].kb.job
  BY <1>0 DEF PlaceKnown, KbKnown
<1>1. /\ owner' = [owner EXCEPT ![j] = d]
      /\ \/ /\ leg' = [leg EXCEPT ![j] = "processing"] /\ active' = active \cup {j}
            /\ KbAt(u, "attach") /\ thrown' = thrown
         \/ /\ leg' \in {[leg EXCEPT ![j] = "processing"], [leg EXCEPT ![j] = "failed"]}
            /\ thrown' = (thrown \cup {d}) \ deleted
            /\ KbAt(u, "over") /\ active' = active
      /\ UNCHANGED <<rows, storage, gone, reaper, messy>>
  BY <1>d DEF KbSend
<1>2. UNCHANGED <<urls, parse, rag, kb, deleted, file, staged, gone, reaper, messy>>
  BY <1>1 DEF rows, storage
<1>3. leg[j] = None /\ j \in Jobs
  BY <1>0, <1>d, JobTypes DEF KbKnown
<1>4. /\ req' \in [Users -> Requests] /\ Others(u)
      /\ req'[u].at = req[u].at /\ req'[u].draft = req[u].draft /\ req'[u].op = req[u].op
      /\ req'[u].rag = req[u].rag /\ req'[u].row = req[u].row
      /\ \/ req'[u].kb.at = "attach" /\ req'[u].kb.job = req[u].kb.job
         \/ req'[u].kb.at = "over" /\ Excused(d)'
  <2>1. CASE KbAt(u, "attach")
    BY <1>0, <2>1, KbAtEffect
  <2>2. CASE KbAt(u, "over") /\ thrown' = (thrown \cup {d}) \ deleted
    BY <1>0, <1>2, <2>2, KbAtEffect DEF Excused
  <2> QED BY <1>1, <2>1, <2>2
<1>6. /\ leg'[j] \in {"processing", "failed"} /\ owner'[j] = d
      /\ \A i \in Jobs \ {j} : leg'[i] = leg[i] /\ owner'[i] = owner[i]
      /\ active' \subseteq active \cup {j}
      /\ thrown' \subseteq Drafts
      /\ \A e \in Drafts : Excused(e) => Excused(e)'
  BY <1>0, <1>1, <1>2, <1>3 DEF Typed, Excused
<1>5. Typed'
  <2>1. leg' \in [Jobs -> Legals] /\ owner' \in [Jobs -> Drafts \cup {None}]
    BY <1>0, <1>1, <1>3 DEF Typed, Legals
  <2> QED BY <1>0, <1>2, <1>3, <1>4, <1>6, <2>1 DEF Typed
<1>7. Grows
  BY <1>2, <1>3, <1>6, JobWrites, DraftsAssumption
<1>8. \A v \in Users \ {u} : req[v].at # "idle" => Untaken(v)
  BY <1>0, <1>3, <1>6, <1>d, MakesOwn
<1>9. req'[u].kb # Off
  BY <1>4 DEF Off
<1>10. KbKnown(u)'
  BY <1>3, <1>4, <1>6, <1>d, DraftsAssumption DEF KbKnown, Made, Excused
<1>11. RagKnown(u)'
  <2>1. req[u].rag.at = "create" => leg'[req[u].rag.job] = None
    BY <1>0, <1>6, <1>d, JobTypes, DraftsAssumption DEF RagKnown
  <2> QED BY <1>0, <1>4, <1>7, <2>1, RagStays
<1>12. \A i \in active' : leg'[i] \notin {None, "completed"}
  BY <1>0, <1>6, DraftsAssumption DEF DraftInv, Typed
<1> QED BY <1>0, <1>2, <1>4, <1>5, <1>7, <1>8, <1>9, <1>10, <1>11, <1>12, LegStep

LEMMA DeleteInv ==
  ASSUME DraftInv, NEW u \in Users, Delete(u)
  PROVE  DraftInv'
<1>1. CASE req[u].at = "mark"
  <2>0. Typed /\ FilesKept /\ Known(u) /\ PlaceKnown(u)
    BY <1>1 DEF DraftInv, Known
  <2>d. PICK d \in Drafts : d = req[u].draft
    BY <2>0 DEF PlaceKnown
  <2>1. /\ deleted' = deleted \cup {d}
        /\ staged' = staged \ {d} /\ thrown' = thrown \ {d} /\ messy' = messy \ {d}
        /\ Finish(u) \/ Goto(u, "unlink")
        /\ UNCHANGED <<urls, parse, rag, kb, file, jobs, reaper>>
    BY <1>1, <2>d DEF Delete, Forget
  <2>2. UNCHANGED <<urls, parse, rag, kb, file, leg, owner, active, gone, reaper>>
    BY <2>1 DEF jobs
  <2>3. /\ req' \in [Users -> Requests] /\ Others(u)
        /\ req'[u].rag \in {req[u].rag, Off} /\ req'[u].kb \in {req[u].kb, Off}
        /\ req'[u].at = "idle" => req'[u] = Idle
    <3>1. CASE Goto(u, "unlink")
      BY <2>0, <3>1, GotoEffect DEF Ats
    <3>2. CASE Finish(u)
      BY <2>0, <3>2, FinishEffect, IdleKnown
    <3> QED BY <2>1, <3>1, <3>2
  <2>4. Typed'
    BY <2>0, <2>1, <2>2, <2>3 DEF Typed
  <2>5. FilesKept'
    BY <2>0, <2>1, <2>2 DEF FilesKept
  <2>6. \A e \in Drafts : Excused(e) => Excused(e)'
    BY <2>1 DEF Excused
  <2>7. Untaken(u) /\ Grows => Known(u)'
    <3>1. CASE Goto(u, "unlink")
      BY <1>1, <2>0, <2>1, <2>d, <3>1, GotoKnown DEF Ats
    <3>2. CASE Finish(u)
      BY <2>0, <3>2, FinishEffect, IdleKnown
    <3> QED BY <2>1, <3>1, <3>2
  <2> QED BY <1>1, <2>1, <2>2, <2>3, <2>4, <2>5, <2>6, <2>7, CalmStep
<1>2. CASE req[u].at = "unlink"
  <2>0. Typed /\ FilesKept /\ Known(u) /\ PlaceKnown(u)
    BY <1>2 DEF DraftInv, Known
  <2>1. /\ file' \in {file, file \ {req[u].draft}} /\ Finish(u)
        /\ UNCHANGED <<rows, staged, jobs, reaper, thrown, messy>>
    BY <1>2 DEF Delete
  <2>2. UNCHANGED <<urls, parse, rag, kb, deleted, staged, leg, owner, active, gone, reaper, thrown, messy>>
    BY <2>1 DEF jobs, rows
  <2>3. req' \in [Users -> Requests] /\ Others(u) /\ req'[u] = Idle
    BY <2>0, <2>1, FinishEffect
  <2>4. Typed'
    BY <2>0, <2>1, <2>2, <2>3 DEF Typed
  <2>5. FilesKept'
    BY <1>2, <2>0, <2>1, <2>2 DEF FilesKept, PlaceKnown
  <2> QED BY <1>2, <2>2, <2>3, <2>4, <2>5, IdleKnown, CalmStep DEF Excused
<1> QED BY <1>1, <1>2 DEF Delete

LEMMA RequestInv ==
  ASSUME DraftInv, NEW u \in Users, RequestStep(u)
  PROVE  DraftInv'
<1>1. CASE DispatchStep(u)
  BY <1>1, CheckInv, DropDocumentInv, ResetInv, RagCreateInv, RagPostInv, RagAttachInv, KbSendInv,
     KbAttachInv, SettleInv DEF DispatchStep
<1> QED BY <1>1, PutFileInv, ReadLegsInv, PromoteInv, DeleteInv DEF RequestStep

-------------------------------------------------------------------------------
(* The beginning of a request.                                                 *)

LEMMA Begins ==
  ASSUME DraftInv, Typed', NEW u \in Users, NEW r \in Requests, req[u] = Idle, r.at # "idle",
         req' = [req EXCEPT ![u] = r],
         r.rag.at = "create" => r.rag.job \in Free,
         r.kb.at = "send" => r.kb.job \in Free,
         UNCHANGED <<rag, kb, leg, owner, active, deleted, file, staged, reaper, thrown>>,
         \A d \in Drafts : parse[d] # None => parse'[d] = parse[d] /\ (d \in urls' <=> d \in urls),
         \A d \in Drafts : parse[d] = None => DraftKnown(d)',
         Grows => Known(u)'
  PROVE  DraftInv'
<1>1. Typed /\ FilesKept
  BY DEF DraftInv
<1>2. Others(u) /\ req'[u] = r
  BY <1>1, BecomesEffect
<1>3. /\ \A d \in Drafts : Settled(d) => Settled(d)'
      /\ \A j \in Jobs : leg[j] # None => leg'[j] # None /\ owner'[j] = owner[j]
      /\ \A v \in Users : req[v].at # "idle" => Untaken(v)
  BY JobsRest DEF DraftInv
<1>4. Grows
  BY <1>3 DEF Grows, Excused
<1>5. FilesKept'
  BY <1>1 DEF FilesKept, Typed
<1>6. \A d \in Drafts : DraftKnown(d)'
  <2> SUFFICES ASSUME NEW d \in Drafts, parse[d] # None PROVE DraftKnown(d)'
    OBVIOUS
  <2> QED BY <1>1, <1>4, DraftStays DEF DraftInv
<1>7. \A v \in Users \ {u} :
        /\ r.rag.at = "create" => r.rag.job # req[v].rag.job
        /\ r.kb.at = "send" => r.kb.job # req[v].kb.job
  BY DEF Free
<1>8. \A j \in active' : leg'[j] \notin {None, "completed"}
  BY DEF DraftInv
<1>9. Known(u)'
  BY <1>4
<1> QED BY <1>2, <1>3, <1>4, <1>5, <1>6, <1>7, <1>8, <1>9, Assemble

LEMMA NewLegs ==
  /\ \A r \in New(Documents, "create") :
       /\ r \in RagLegs /\ (r = Off \/ r.at = "create")
       /\ r.at = "create" => r.job \in Free /\ r.job \in Documents
  /\ \A k \in New(Imports, "send") :
       /\ k \in KbLegs /\ (k = Off \/ k.at = "send")
       /\ k.at = "send" => k.job \in Free /\ k.job \in Imports
BY IdleIsRequest DEF New, RagLegs, KbLegs, Off

\* The first step of a request on a draft that it reads.
LEMMA ReadsInv ==
  ASSUME DraftInv, NEW u \in Users, NEW d \in Drafts, NEW op \in DraftOps, NEW at \in {"legs", "check", "mark"},
         NEW row \in RowCopies, NEW r \in New(Documents, "create"), NEW k \in New(Imports, "send"),
         Reads(u, d, op, at, row, r, k),
         op \in {"assign", "retry"} => r # Off \/ k # Off,
         at = "check" => op \in {"assign", "retry"},
         row.rag \in {None, rag[d]}, row.kb \in {None, kb[d]},
         row.parse = "assigned" => row = Row(d),
         messy' \subseteq Drafts
  PROVE  DraftInv'
<1>1. PICK q : q = [op |-> op, at |-> at, draft |-> d, row |-> row, rag |-> r, kb |-> k]
               /\ req' = [req EXCEPT ![u] = q]
  BY DEF Reads
<1>2. /\ req[u] = Idle /\ Live(d)
      /\ UNCHANGED <<urls, parse, rag, kb, deleted, file, staged, leg, owner, active, gone, reaper, thrown>>
  BY DEF Reads, rows, storage, jobs
<1>3. q \in Requests
  BY <1>1, NewLegs DEF Requests, Ats
<1>4. /\ Typed /\ DraftKnown(d)
      /\ \A e \in Drafts : DraftKnown(e) /\ (parse[e] = None => DraftKnown(e)')
  <2>1. \A e \in Drafts : DraftKnown(e)' <=> DraftKnown(e)
    BY <1>2 DEF DraftKnown, Made, Excused, Settled
  <2> QED BY <2>1 DEF DraftInv
<1>5. Typed'
  BY <1>1, <1>2, <1>3, <1>4 DEF Typed
<1>6. /\ q.at = at /\ q.draft = d /\ q.op = op /\ q.row = row /\ q.rag = r /\ q.kb = k /\ req'[u] = q
  BY <1>1, <1>4 DEF Typed
<1>7. Known(u)'
  <2>1. PlaceKnown(u)'
    BY <1>2, <1>6 DEF PlaceKnown, Live
  <2>2. RagKnown(u)' /\ KbKnown(u)'
    <3>1. Off.at = "off"
      BY DEF Off
    <3>2. /\ r.at = "off" => r = Off
          /\ r.at \in {"off", "create"} /\ (r.at = "create" => r.job \in Documents /\ leg[r.job] = None)
          /\ k.at = "off" => k = Off
          /\ k.at \in {"off", "send"} /\ (k.at = "send" => k.job \in Imports /\ leg[k.job] = None)
      BY <3>1, NewLegs DEF Free
    <3> QED BY <1>2, <1>6, <3>2 DEF RagKnown, KbKnown
  <2>3. RowKnown(u)'
    <3>1. row.rag # None => Made(row.rag, d)'
      BY <1>2, <1>4 DEF DraftKnown, Made
    <3>2. row.kb # None => Made(row.kb, d)'
      BY <1>2, <1>4 DEF DraftKnown, Made
    <3>3. row.parse = "assigned" => row.rag # None \/ row.kb # None \/ d \in urls' \/ d \in deleted' \cup thrown'
      BY <1>2, <1>4 DEF DraftKnown, Row, Excused
    <3> QED BY <1>6, <3>1, <3>2, <3>3 DEF RowKnown, Made, Excused
  <2> QED BY <2>1, <2>2, <2>3 DEF Known
<1>8. /\ q.rag.at = "create" => q.rag.job \in Free
      /\ q.kb.at = "send" => q.kb.job \in Free
  BY <1>6, NewLegs
<1>9. q.at # "idle"
  BY <1>6
<1> QED BY <1>1, <1>2, <1>3, <1>4, <1>5, <1>7, <1>8, <1>9, Begins

LEMMA StartInv ==
  ASSUME DraftInv, NEW u \in Users, NEW d \in Drafts,
         \/ \E j \in Imports : StageUrl(u, d, j)
         \/ Stage(u, d) \/ Ask(u, d)
         \/ \E r \in New(Documents, "create"), k \in New(Imports, "send") :
              Assign(u, d, r, k) \/ Retry(u, d, r, k)
  PROVE  DraftInv'
<1>0. Typed /\ DraftKnown(d)
  BY DEF DraftInv
<1>r. /\ Row(d) \in RowCopies /\ NoRow \in RowCopies
      /\ NoRow.parse = None /\ NoRow.rag = None /\ NoRow.kb = None /\ None # "assigned"
      /\ Row(d).rag = rag[d] /\ Row(d).kb = kb[d]
      /\ Off \in New(Documents, "create") /\ Off \in New(Imports, "send")
  BY <1>0, IdleIsRequest, DraftsAssumption DEF Row, RowCopies, NoRow, Typed, New
<1>m. messy \subseteq Drafts /\ messy \cup {d} \subseteq Drafts
  BY <1>0 DEF Typed
<1>1. CASE Ask(u, d)
  <2>1. PICK op \in {"poll", "delete"}, at \in {"legs", "mark"}, row \in {Row(d), NoRow} :
             Reads(u, d, op, at, row, Off, Off)
    BY <1>1 DEF Ask
  <2>2. messy' = messy /\ op \in DraftOps
    BY <1>1 DEF Ask, DraftOps
  <2> QED BY <1>r, <1>m, <2>1, <2>2, ReadsInv
<1>2. ASSUME NEW r \in New(Documents, "create"), NEW k \in New(Imports, "send"), Assign(u, d, r, k)
      PROVE  DraftInv'
  <2>1. PICK at \in {"legs", "check"}, row \in {Row(d), NoRow} : Reads(u, d, "assign", at, row, r, k)
    BY <1>2 DEF Assign
  <2>2. messy' \subseteq Drafts /\ (r # Off \/ k # Off) /\ "assign" \in DraftOps
    BY <1>2, <1>m DEF Assign, DraftOps
  <2> QED BY <1>r, <2>1, <2>2, ReadsInv
<1>3. ASSUME NEW r \in New(Documents, "create"), NEW k \in New(Imports, "send"), Retry(u, d, r, k)
      PROVE  DraftInv'
  <2>1. PICK x \in {None, rag[d]} : Reads(u, d, "retry", "check", [NoRow EXCEPT !.rag = x], r, k)
    BY <1>3 DEF Retry
  <2>2. PICK row : row = [NoRow EXCEPT !.rag = x]
    OBVIOUS
  <2>3. row.rag = x /\ row.kb = None /\ row.parse = None /\ row \in RowCopies
    BY <1>0, <1>r, <2>2 DEF NoRow, RowCopies, Typed
  <2>4. messy' \subseteq Drafts /\ (r # Off \/ k # Off) /\ "retry" \in DraftOps
    BY <1>3, <1>m DEF Retry, DraftOps
  <2> QED BY <1>r, <2>1, <2>2, <2>3, <2>4, ReadsInv
<1>4. CASE Stage(u, d)
  <2>1. PICK q : /\ q = [Idle EXCEPT !.op = "stage", !.at = "put", !.draft = d]
                 /\ req' = [req EXCEPT ![u] = q]
    BY <1>4 DEF Stage
  <2>2. /\ req[u] = Idle /\ parse[d] = None /\ parse' = [parse EXCEPT ![d] = "uploaded"]
        /\ UNCHANGED <<urls, rag, kb, deleted, file, staged, leg, owner, active, gone, reaper, thrown, messy>>
    BY <1>4 DEF Stage, storage, jobs
  <2>3. /\ q \in Requests /\ q.op = "stage" /\ q.at = "put" /\ q.draft = d
        /\ q.row = NoRow /\ q.rag = Off /\ q.kb = Off
    BY <2>1, IdleIsRequest DEF Requests, Idle, DraftOps, Ats
  <2>4. Typed'
    BY <1>0, <2>1, <2>2, <2>3 DEF Typed, Parses
  <2>5. req'[u] = q /\ parse'[d] = "uploaded" /\ d \notin urls
    BY <1>0, <2>1, <2>2 DEF Typed, DraftKnown
  <2>6. Known(u)'
    <3>1. Off.at = "off" /\ "uploaded" # None /\ None # "assigned"
      BY DraftsAssumption DEF Off
    <3> QED BY <1>r, <2>2, <2>3, <2>5, <3>1 DEF Known, PlaceKnown, RowKnown, RagKnown, KbKnown
  <2>7. \A e \in Drafts : parse[e] = None => DraftKnown(e)'
    <3> SUFFICES ASSUME NEW e \in Drafts, parse[e] = None PROVE DraftKnown(e)'
      OBVIOUS
    <3>1. DraftKnown(e) /\ parse'[e] \in {None, "uploaded"} /\ (parse'[e] = None => parse[e] = None)
      BY <1>0, <2>2, DraftsAssumption DEF DraftInv, Typed
    <3>2. (e \in urls => parse[e] # None) /\ parse'[e] \notin {"assigned", "done"}
      BY <3>1, DraftsAssumption DEF DraftKnown
    <3> QED BY <2>2, <3>1, <3>2 DEF DraftKnown, Made
  <2>8. \A e \in Drafts : parse[e] # None => parse'[e] = parse[e] /\ (e \in urls' <=> e \in urls)
    BY <1>0, <2>2 DEF Typed
  <2>9. Off.at = "off"
    BY DEF Off
  <2> QED BY <2>1, <2>2, <2>3, <2>4, <2>6, <2>7, <2>8, <2>9, Begins
<1>5. ASSUME NEW j \in Imports, StageUrl(u, d, j) PROVE DraftInv'
  <2>0. PICK k : k = [at |-> "send", job |-> j]
    OBVIOUS
  <2>1. PICK q : /\ q = [Idle EXCEPT !.op = "stage", !.at = "dispatch", !.draft = d, !.kb = k]
                 /\ req' = [req EXCEPT ![u] = q]
    BY <1>5, <2>0 DEF StageUrl
  <2>2. /\ req[u] = Idle /\ parse[d] = None /\ parse' = [parse EXCEPT ![d] = "assigned"]
        /\ urls' = urls \cup {d} /\ j \in Free
        /\ UNCHANGED <<rag, kb, deleted, file, staged, leg, owner, active, gone, reaper, thrown, messy>>
    BY <1>5 DEF StageUrl, storage, jobs
  <2>3. /\ q \in Requests /\ q.op = "stage" /\ q.at = "dispatch" /\ q.draft = d
        /\ q.row = NoRow /\ q.rag = Off /\ q.kb = k
    <3>1. k \in KbLegs
      BY <2>0 DEF KbLegs
    <3> QED BY <2>1, <3>1, IdleIsRequest DEF Requests, Idle, DraftOps, Ats
  <2>4. Typed'
    <3>1. d \notin file
      BY <2>2 DEF DraftInv, FilesKept
    <3> QED BY <1>0, <2>1, <2>2, <2>3, <3>1 DEF Typed, Parses
  <2>5. req'[u] = q /\ parse'[d] = "assigned"
    BY <1>0, <2>1, <2>2 DEF Typed
  <2>6. Known(u)'
    <3>1. Off.at = "off" /\ "assigned" # None
      BY DraftsAssumption DEF Off
    <3>2. leg[j] = None
      BY <2>2 DEF Free
    <3> QED BY <1>5, <1>r, <2>0, <2>2, <2>3, <2>5, <3>1, <3>2 DEF Known, PlaceKnown, RowKnown, RagKnown, KbKnown
  <2>7. \A e \in Drafts : parse[e] = None => DraftKnown(e)'
    <3> SUFFICES ASSUME NEW e \in Drafts, parse[e] = None PROVE DraftKnown(e)'
      OBVIOUS
    <3>1. DraftKnown(e) /\ (e # d => parse'[e] = None) /\ "assigned" \notin {None, "done"}
      BY <1>0, <2>2, DraftsAssumption DEF DraftInv, Typed
    <3> QED BY <2>2, <2>5, <3>1, DraftsAssumption DEF DraftKnown, Made
  <2>8. \A e \in Drafts : parse[e] # None => parse'[e] = parse[e] /\ (e \in urls' <=> e \in urls)
    BY <1>0, <2>2 DEF Typed
  <2>9. Off.at = "off" /\ k.job = j
    BY <2>0 DEF Off
  <2> QED BY <2>1, <2>2, <2>3, <2>4, <2>6, <2>7, <2>8, <2>9, Begins
<1> QED BY <1>1, <1>2, <1>3, <1>4, <1>5

-------------------------------------------------------------------------------
(* The reaper, the jobs and a crash.                                           *)

\* A step outside every request.
LEMMA Outside ==
  ASSUME DraftInv, Typed', Grows, req' = req,
         UNCHANGED <<urls, parse, rag, kb>>,
         \A v \in Users : req[v].at # "idle" => Untaken(v),
         FilesKept', \A j \in active' : leg'[j] \notin {None, "completed"}
  PROVE  DraftInv'
<1>1. Typed
  BY DEF DraftInv
<1>2. \A v \in Users : (req'[v].at = "idle" => req'[v] = Idle) /\ Known(v)'
  BY <1>1, KnownStays DEF DraftInv
<1>3. Apart'
  BY DEF DraftInv, Apart
<1>4. \A d \in Drafts : DraftKnown(d)'
  BY <1>1, DraftStays DEF DraftInv
<1> QED BY <1>2, <1>3, <1>4 DEF DraftInv

LEMMA ReapInv ==
  ASSUME DraftInv, ReapList \/ \E d \in Drafts : Reap(d)
  PROVE  DraftInv'
<1>1. Typed /\ FilesKept
  BY DEF DraftInv
<1>2. UNCHANGED <<urls, parse, rag, kb, leg, owner, active, gone, req>>
  BY DEF ReapList, Reap, rows, jobs
<1>3. /\ \A d \in Drafts : Settled(d) => Settled(d)'
      /\ \A j \in Jobs : leg[j] # None => leg'[j] # None /\ owner'[j] = owner[j]
      /\ \A v \in Users : req[v].at # "idle" => Untaken(v)
  BY <1>2, JobsRest DEF DraftInv
<1>4. \A j \in active' : leg'[j] \notin {None, "completed"}
  BY <1>2 DEF DraftInv
<1>5. /\ Typed' /\ FilesKept' /\ deleted \subseteq deleted'
      /\ \A d \in Drafts : Excused(d) => Excused(d)'
  <2>1. CASE ReapList
    <3>1. PICK S \in SUBSET Drafts : reaper' = [left |-> S, now |-> None]
      BY <2>1 DEF ReapList
    <3>2. UNCHANGED <<deleted, file, staged, thrown, messy>>
      BY <2>1 DEF ReapList, rows, storage
    <3> QED BY <1>1, <1>2, <3>1, <3>2 DEF Typed, FilesKept, Excused
  <2>2. ASSUME NEW d \in Drafts, Reap(d)
        PROVE  /\ Typed' /\ FilesKept' /\ deleted \subseteq deleted'
               /\ \A e \in Drafts : Excused(e) => Excused(e)'
    <3>1. CASE reaper.now = None /\ d \in reaper.left
      <4>1. /\ deleted' = deleted \cup {d} /\ file' = file
            /\ staged' = staged \ {d} /\ thrown' = thrown \ {d} /\ messy' = messy \ {d}
            /\ reaper' = [left |-> reaper.left \ {d}, now |-> d]
        BY <2>2, <3>1, DraftsAssumption DEF Reap, Forget
      <4> QED BY <1>1, <1>2, <4>1 DEF Typed, FilesKept, Excused
    <3>2. CASE reaper.now = d
      <4>1. d # None
        BY DraftsAssumption
      <4>2. /\ file' \in {file, file \ {d}} /\ reaper' = [reaper EXCEPT !.now = None]
            /\ UNCHANGED <<deleted, staged, thrown, messy>>
        BY <2>2, <3>2, <4>1 DEF Reap, rows
      <4>3. d \notin staged
        BY <1>1, <3>2, <4>1 DEF FilesKept
      <4>4. reaper'.now = None /\ reaper'.left = reaper.left /\ reaper' \in [left : SUBSET Drafts, now : Drafts \cup {None}]
        BY <1>1, <4>2 DEF Typed
      <4> QED BY <1>1, <1>2, <4>2, <4>3, <4>4 DEF Typed, FilesKept, Excused
    <3> QED BY <2>2, <3>1, <3>2 DEF Reap
  <2> QED BY <2>1, <2>2
<1>6. Grows
  BY <1>2, <1>3, <1>5 DEF Grows
<1> QED BY <1>2, <1>3, <1>4, <1>5, <1>6, Outside

\* A job that is over stays over for good, and its end, or a cancel that comes
\* late, leaves what settled a draft.
LEMMA JobInv ==
  ASSUME DraftInv, NEW j \in Jobs, LegEnds(j) \/ CancelJob(j)
  PROVE  DraftInv'
<1>1. Typed /\ FilesKept
  BY DEF DraftInv
<1>2. UNCHANGED <<urls, parse, rag, kb, deleted, file, staged, owner, gone, req, reaper, thrown, messy>>
  BY DEF LegEnds, CancelJob, rows, storage
<1>3. /\ leg[j] # None /\ leg'[j] \in Ends
      /\ leg' \in [Jobs -> Legals]
      /\ \A i \in Jobs \ {j} : leg'[i] = leg[i]
      /\ active' \subseteq active
  <2>1. CASE LegEnds(j)
    BY <1>1, <2>1 DEF LegEnds, DraftInv, Typed, Ends, Legals, Terminal
  <2>2. CASE CancelJob(j)
    BY <1>1, <2>2 DEF CancelJob, Typed, Ends, Legals
  <2> QED BY <2>1, <2>2
<1>4. /\ j \in active' => leg'[j] = "cancelled"
      /\ j \in active \/ leg'[j] = "cancelled"
  BY <1>1 DEF LegEnds, CancelJob, Typed
<1>5. Typed'
  BY <1>1, <1>2, <1>3 DEF Typed
<1>6. FilesKept'
  BY <1>1, <1>2 DEF FilesKept
<1>7. \A i \in active' : leg'[i] \notin {None, "completed"}
  BY <1>1, <1>3, <1>4, DraftsAssumption DEF DraftInv, Typed
<1>8. \A d \in Drafts : Settled(d) => Settled(d)'
  <2> SUFFICES ASSUME NEW d \in Drafts, NEW i \in Jobs \ active, owner[i] = d, leg[i] \in {"completed", "cancelled"}
               PROVE  Settled(d)'
    BY DEF Settled
  <2>1. i \in Jobs \ active' /\ owner'[i] = d /\ leg'[i] \in {"completed", "cancelled"}
    BY <1>2, <1>3, <1>4
  <2> QED BY <2>1 DEF Settled
<1>9. Grows
  BY <1>2, <1>3, <1>8, DraftsAssumption DEF Grows, Excused, Ends
<1>10. \A v \in Users : req[v].at # "idle" => Untaken(v)
  BY <1>3, JobTypes DEF DraftInv, Known, RagKnown, KbKnown, Untaken
<1> QED BY <1>2, <1>5, <1>6, <1>7, <1>9, <1>10, Outside

LEMMA CrashInv ==
  ASSUME DraftInv, Crash
  PROVE  DraftInv'
<1>1. Typed /\ FilesKept
  BY DEF DraftInv
<1>2. /\ req' = [u \in Users |-> Idle] /\ reaper' = NotReaping
      /\ messy' = messy \cup {d \in Drafts \ deleted : Ragging(d) # {}}
      /\ UNCHANGED <<urls, parse, rag, kb, deleted, file, staged, leg, owner, active, gone, thrown>>
  BY DEF Crash, rows, storage, jobs
<1>3. Typed'
  BY <1>1, <1>2, IdleIsRequest DEF Typed, NotReaping
<1>4. FilesKept'
  BY <1>1, <1>2 DEF FilesKept, NotReaping
<1>5. \A u \in Users : req'[u] = Idle
  BY <1>2
<1>6. Apart'
  BY <1>5 DEF Apart, Idle, Off
<1>7. \A d \in Drafts : DraftKnown(d)'
  BY <1>2 DEF DraftInv, DraftKnown, Made, Excused, Settled
<1>8. \A u \in Users : Known(u)'
  BY <1>5, IdleKnown
<1> QED BY <1>2, <1>3, <1>4, <1>5, <1>6, <1>7, <1>8 DEF DraftInv

-------------------------------------------------------------------------------
(* The invariant and what it shows.                                            *)

LEMMA DraftStep == DraftInv /\ [Next]_vars => DraftInv'
<1> SUFFICES ASSUME DraftInv, [Next]_vars PROVE DraftInv'
  OBVIOUS
<1>1. CASE \E u \in Users, d \in Drafts :
       \/ \E j \in Imports : StageUrl(u, d, j)
       \/ Stage(u, d) \/ Ask(u, d)
       \/ \E r \in New(Documents, "create"), k \in New(Imports, "send") : Assign(u, d, r, k) \/ Retry(u, d, r, k)
  BY <1>1, StartInv
<1>2. CASE \E u \in Users : RequestStep(u)
  BY <1>2, RequestInv
<1>3. CASE ReapList \/ \E d \in Drafts : Reap(d)
  BY <1>3, ReapInv
<1>4. CASE \E j \in Jobs : LegEnds(j) \/ CancelJob(j)
  BY <1>4, JobInv
<1>5. CASE Crash
  BY <1>5, CrashInv
<1>6. CASE UNCHANGED vars
  BY <1>6 DEF vars, rows, storage, jobs, DraftInv, Typed, Apart, FilesKept, DraftKnown, Made, Excused, Settled,
              Known, PlaceKnown, RowKnown, RagKnown, KbKnown
<1> QED BY <1>1, <1>2, <1>3, <1>4, <1>5, <1>6 DEF Next

LEMMA DraftStart == Init => DraftInv
<1> SUFFICES ASSUME Init PROVE DraftInv
  OBVIOUS
<1>1. Typed
  BY IdleIsRequest DEF Init, Typed, Parses, Legals, NotReaping
<1>2. Apart /\ FilesKept
  BY DEF Init, Apart, FilesKept, Idle, Off, NotReaping
<1>3. \A u \in Users : (req[u].at = "idle" => req[u] = Idle) /\ Known(u)
  BY DEF Init, Known, Idle
<1>4. \A d \in Drafts : DraftKnown(d)
  BY DraftsAssumption DEF Init, DraftKnown
<1> QED BY <1>1, <1>2, <1>3, <1>4 DEF Init, DraftInv

\* What a request knows of its draft, with types and files, holds of every
\* behaviour.
THEOREM DraftInvariance == Spec => []DraftInv
BY DraftStart, DraftStep, PTL DEF Spec

\* Every variable of UploadDrafts keeps to its type: a request copies, makes and
\* attaches only rows of the right kind, and the draft of a URL never has a file.
THEOREM DraftTypes == Spec => []DraftTypeOK
<1>1. DraftInv => DraftTypeOK
  BY DEF DraftInv, Typed, DraftTypeOK, Terminal, Parses, Legals, Requests, DraftOps, Ats, RowCopies, RagLegs, KbLegs
<1> QED BY <1>1, DraftInvariance, PTL

\* The staged file of a live draft is never removed, by whatever deletes, reaper
\* cycles, puts and crashes interleave.
THEOREM LiveFilesStay == Spec => []LiveFileKept
<1>1. DraftInv => LiveFileKept
  BY DEF DraftInv, FilesKept, LiveFileKept
<1> QED BY <1>1, DraftInvariance, PTL

\* No draft is done, that is not excused, without a job of its own that completed:
\* the copies of rows that polls, deletes and assigns promote from are old, but the
\* jobs they name were made for the draft, and a job that completed is over.
THEOREM DoneWasEarned == Spec => []DoneIsEarned
<1>1. DraftInv => DoneIsEarned
  BY DEF DraftInv, DraftKnown, DoneIsEarned, Earned, Excused, Settled
<1> QED BY <1>1, DraftInvariance, PTL

-------------------------------------------------------------------------------
(* One document for a draft.                                                   *)

\* The documents of d that are not deleted, and how many there may be while the
\* RAG leg of u is where it is: a retry first drops the one that its copy of the
\* row names, which is still the one attached.
Kept(d) == {j \in Documents \ gone : owner[j] = d}
Replaces(u) == req[u].op = "retry" /\ req[u].at \in {"check", "drop"}
RagLine(u, d) ==
  /\ req[u].rag.at = "create" /\ Replaces(u) => req[u].row.rag = rag[d] /\ Kept(d) \subseteq {rag[d]}
  /\ req[u].rag.at = "create" /\ ~ Replaces(u) => Kept(d) = {}
  /\ req[u].rag.at \in {"post", "await"} => req[u].at = "dispatch" /\ Kept(d) \subseteq {req[u].rag.job}
  /\ req[u].rag.at = "over" => Kept(d) \subseteq {rag[d]}
Clean(d) ==
  /\ \A u, v \in Ragging(d) : u = v
  /\ \A u \in Ragging(d) : RagLine(u, d)
  /\ Ragging(d) = {} => Kept(d) \subseteq {rag[d]}
CleanInv == \A d \in Drafts \ (deleted \cup messy) : Clean(d)

LEMMA RaggingPlaces ==
  ASSUME DraftInv, NEW u \in Users, NEW d \in Drafts, u \in Ragging(d)
  PROVE  req[u].at # "idle" /\ req[u].draft = d /\ RagKnown(u) /\ PlaceKnown(u)
         /\ req[u].rag.at \in {"create", "post", "await", "over"}
<1>1. req[u].rag # Off /\ req[u].draft = d /\ Idle.rag = Off
  BY DEF Ragging, Idle
<1>2. req[u].at # "idle" /\ RagKnown(u) /\ PlaceKnown(u)
  BY <1>1 DEF DraftInv, Known
<1>3. req[u].rag.at \in {"off", "create", "post", "await", "over"}
  BY DEF DraftInv, Typed, Requests, RagLegs
<1> QED BY <1>1, <1>2, <1>3 DEF RagKnown

\* Only the request that has the leg of a draft moves its documents.
LEMMA CleanMove ==
  ASSUME NEW u \in Users, NEW d \in Drafts, Clean(d), Others(u),
         u \notin Ragging(d) => rag'[d] = rag[d] /\ Kept(d)' \subseteq Kept(d) /\ u \notin Ragging(d)',
         u \in Ragging(d) /\ u \in Ragging(d)' => RagLine(u, d)',
         u \in Ragging(d) /\ u \notin Ragging(d)' => Kept(d)' \subseteq {rag'[d]}
  PROVE  Clean(d)'
<1>1. \A v \in Users \ {u} : v \in Ragging(d)' <=> v \in Ragging(d)
  BY DEF Others, Ragging
<1>2. Ragging(d) \subseteq Users /\ Ragging(d)' \subseteq Users
  BY DEF Ragging
<1>3. CASE u \in Ragging(d)
  <2>1. Ragging(d)' \subseteq {u}
    BY <1>1, <1>2, <1>3 DEF Clean
  <2> QED BY <1>3, <2>1 DEF Clean
<1>4. CASE u \notin Ragging(d)
  <2>1. Ragging(d)' = Ragging(d)
    BY <1>1, <1>2, <1>4
  <2>2. ASSUME NEW v \in Ragging(d) PROVE RagLine(v, d)'
    <3>1. RagLine(v, d) /\ req'[v] = req[v]
      BY <1>4, <2>2 DEF Clean, Others, Ragging
    <3> QED BY <1>4, <3>1 DEF RagLine, Replaces
  <2> QED BY <1>4, <2>1, <2>2 DEF Clean
<1> QED BY <1>3, <1>4

\* A request that ends, or that goes from one place to another before it dispatches.
LEMMA CleanFinish ==
  ASSUME DraftInv, CleanInv, NEW u \in Users, Finish(u), UNCHANGED <<rag, owner, gone>>,
         deleted \subseteq deleted', messy \subseteq messy' \cup deleted',
         req[u].rag.at \in {"post", "await"} => req[u].at # "dispatch"
  PROVE  CleanInv'
<1> SUFFICES ASSUME NEW d \in Drafts \ (deleted \cup messy) PROVE Clean(d)'
  BY DEF CleanInv
<1>1. Others(u) /\ req'[u] = Idle /\ Clean(d)
  BY FinishEffect DEF DraftInv, CleanInv
<1>2. u \notin Ragging(d)'
  <2>1. req'[u].rag = Off
    BY <1>1 DEF Idle
  <2> QED BY <2>1 DEF Ragging
<1>3. rag'[d] = rag[d] /\ Kept(d)' = Kept(d)
  BY DEF Kept
<1>4. u \in Ragging(d) => Kept(d) \subseteq {rag[d]}
  <2>1. u \in Ragging(d) => RagLine(u, d)
    BY <1>1 DEF Clean
  <2> QED BY <2>1, RaggingPlaces DEF RagLine
<1> QED BY <1>1, <1>2, <1>3, <1>4, CleanMove

LEMMA CleanGoto ==
  ASSUME DraftInv, CleanInv, NEW u \in Users, NEW at \in Ats, Goto(u, at), UNCHANGED <<rag, owner>>,
         gone \subseteq gone', deleted \subseteq deleted', messy \subseteq messy' \cup deleted',
         req[u].at # "dispatch",
         at = "drop" => req[u].at = "check",
         at = "check" => req[u].op = "assign",
         Replaces(u) /\ at # "drop" => req[u].row.rag = None \/ req[u].row.rag \in gone'
  PROVE  CleanInv'
<1> SUFFICES ASSUME NEW d \in Drafts \ (deleted \cup messy) PROVE Clean(d)'
  BY DEF CleanInv
<1>1. /\ Others(u) /\ Clean(d) /\ req'[u].at = at /\ req'[u].draft = req[u].draft
      /\ req'[u].rag = req[u].rag
      /\ req'[u].op = IF at = "dispatch" THEN "assign" ELSE req[u].op
      /\ req'[u].row = IF at = "drop" THEN req[u].row ELSE NoRow
  BY GotoEffect DEF DraftInv, CleanInv
<1>2. rag'[d] = rag[d] /\ Kept(d)' \subseteq Kept(d)
  BY DEF Kept
<1>3. u \in Ragging(d)' <=> u \in Ragging(d)
  BY <1>1 DEF Ragging
<1>4. ASSUME u \in Ragging(d) PROVE RagLine(u, d)'
  <2>1. RagLine(u, d) /\ req[u].rag.at \in {"create", "post", "await", "over"}
    BY <1>1, <1>4, RaggingPlaces DEF Clean
  <2>2. CASE req[u].rag.at # "create"
    BY <1>1, <1>2, <2>1, <2>2 DEF RagLine
  <2>3. CASE req[u].rag.at = "create" /\ ~ Replaces(u)
    <3>1. ~ Replaces(u)'
      BY <1>1, <2>3 DEF Replaces
    <3> QED BY <1>1, <1>2, <2>1, <2>3, <3>1 DEF RagLine
  <2>4. CASE req[u].rag.at = "create" /\ Replaces(u) /\ at = "drop"
    BY <1>1, <1>2, <2>1, <2>4 DEF RagLine, Replaces
  <2>5. CASE req[u].rag.at = "create" /\ Replaces(u) /\ at # "drop"
    <3>1. Kept(d) \subseteq {req[u].row.rag} /\ None \notin Documents
      BY <2>1, <2>5, JobTypes DEF RagLine
    <3>2. Kept(d)' = {}
      BY <2>5, <3>1 DEF Kept
    <3>3. ~ Replaces(u)'
      BY <1>1, <2>5 DEF Replaces
    <3> QED BY <1>1, <2>5, <3>2, <3>3 DEF RagLine
  <2> QED BY <2>2, <2>3, <2>4, <2>5
<1> QED BY <1>1, <1>2, <1>3, <1>4, CleanMove

LEMMA CleanDispatch ==
  ASSUME DraftInv, CleanInv, NEW u \in Users,
         RagCreate(u) \/ RagPost(u) \/ RagAttach(u) \/ KbSend(u) \/ KbAttach(u)
  PROVE  CleanInv'
<1> SUFFICES ASSUME NEW d \in Drafts \ (deleted \cup messy) PROVE Clean(d)'
  BY DEF CleanInv, RagCreate, RagPost, RagAttach, KbSend, KbAttach, rows
<1>0. /\ Typed /\ Clean(d) /\ req[u].at = "dispatch" /\ RagKnown(u) /\ KbKnown(u)
  BY DEF DraftInv, CleanInv, Known, RagCreate, RagPost, RagAttach, KbSend, KbAttach, AtLeg
<1>k. u \in Ragging(d) => RagLine(u, d)
  BY <1>0 DEF Clean
<1>n. ~ Replaces(u) /\ Documents \cap Imports = {}
  BY <1>0, DraftsAssumption DEF Replaces
<1>1. CASE RagCreate(u)
  <2>1. PICK j \in Documents : j = req[u].rag.job
    BY <1>0, <1>1 DEF RagCreate, AtLeg, RagKnown
  <2>2. /\ req[u].rag.at = "create" /\ owner' = [owner EXCEPT ![j] = req[u].draft] /\ RagAt(u, "post")
        /\ UNCHANGED <<rag, gone>>
    BY <1>1, <2>1 DEF RagCreate, AtLeg, rows
  <2>3. /\ Others(u) /\ req'[u].at = "dispatch" /\ req'[u].draft = req[u].draft
        /\ req'[u].rag.at = "post" /\ req'[u].rag.job = j
    BY <1>0, <2>1, <2>2, RagAtEffect
  <2>4. (u \in Ragging(d) <=> req[u].draft = d) /\ (u \in Ragging(d)' <=> req[u].draft = d)
    BY <2>2, <2>3 DEF Ragging, Off
  <2>5. CASE req[u].draft # d
    <3>1. Kept(d)' \subseteq Kept(d)
      BY <1>0, <2>2, <2>5 DEF Kept, Typed
    <3> QED BY <1>0, <2>2, <2>3, <2>4, <2>5, <3>1, CleanMove
  <2>6. CASE req[u].draft = d
    <3>1. Kept(d)' \subseteq {j}
      <4>1. Kept(d) = {}
        BY <1>k, <1>n, <2>2, <2>4, <2>6 DEF RagLine
      <4> QED BY <1>0, <2>2, <4>1 DEF Kept, Typed
    <3>2. RagLine(u, d)'
      BY <2>3, <3>1 DEF RagLine
    <3> QED BY <1>0, <2>3, <2>4, <2>6, <3>2, CleanMove
  <2> QED BY <2>5, <2>6
<1>2. CASE RagPost(u)
  <2>1. req[u].rag.at = "post" /\ RagAt(u, "await") /\ UNCHANGED <<rag, gone, owner>>
    BY <1>2 DEF RagPost, AtLeg, rows
  <2>2. /\ Others(u) /\ req'[u].at = "dispatch" /\ req'[u].draft = req[u].draft
        /\ req'[u].rag.at = "await" /\ req'[u].rag.job = req[u].rag.job
    BY <1>0, <2>1, RagAtEffect
  <2>3. (u \in Ragging(d) <=> req[u].draft = d) /\ (u \in Ragging(d)' <=> req[u].draft = d)
    BY <2>1, <2>2 DEF Ragging, Off
  <2>4. Kept(d)' = Kept(d)
    BY <2>1 DEF Kept
  <2>5. u \in Ragging(d) => RagLine(u, d)'
    BY <1>k, <2>1, <2>2, <2>4 DEF RagLine
  <2> QED BY <1>0, <2>1, <2>2, <2>3, <2>4, <2>5, CleanMove
<1>3. CASE RagAttach(u)
  <2>1. PICK j \in Documents : j = req[u].rag.job
    BY <1>0, <1>3 DEF RagAttach, AtLeg, RagKnown
  <2>2. /\ req[u].rag.at = "await" /\ rag' = [rag EXCEPT ![req[u].draft] = j] /\ RagAt(u, "over")
        /\ UNCHANGED <<gone, owner>>
    BY <1>3, <2>1 DEF RagAttach, AtLeg, jobs
  <2>3. Others(u) /\ req'[u].at = "dispatch" /\ req'[u].draft = req[u].draft /\ req'[u].rag.at = "over"
    BY <1>0, <2>2, RagAtEffect
  <2>4. (u \in Ragging(d) <=> req[u].draft = d) /\ (u \in Ragging(d)' <=> req[u].draft = d)
    BY <2>2, <2>3 DEF Ragging, Off
  <2>5. Kept(d)' = Kept(d)
    BY <2>2 DEF Kept
  <2>6. CASE req[u].draft # d
    <3>1. rag'[d] = rag[d]
      BY <1>0, <2>2, <2>6 DEF Typed
    <3> QED BY <1>0, <2>3, <2>4, <2>5, <2>6, <3>1, CleanMove
  <2>7. CASE req[u].draft = d
    <3>1. rag'[d] = j
      BY <1>0, <2>2, <2>7 DEF Typed
    <3>2. Kept(d) \subseteq {j}
      BY <1>k, <2>1, <2>2, <2>4, <2>7 DEF RagLine
    <3>3. RagLine(u, d)'
      BY <2>3, <2>5, <3>1, <3>2 DEF RagLine
    <3> QED BY <1>0, <2>3, <2>4, <2>7, <3>3, CleanMove
  <2> QED BY <2>6, <2>7
<1>4. CASE KbSend(u) \/ KbAttach(u)
  <2>1. /\ UNCHANGED <<rag, gone>>
        /\ KbAt(u, "attach") \/ KbAt(u, "over")
        /\ \A j \in Documents : owner'[j] = owner[j]
    <3>1. CASE KbSend(u)
      <4>1. PICK j \in Imports : j = req[u].kb.job
        BY <1>0, <3>1 DEF KbSend, AtLeg, KbKnown
      <4>2. owner' = [owner EXCEPT ![j] = req[u].draft]
        BY <3>1, <4>1 DEF KbSend
      <4> QED BY <1>0, <1>n, <3>1, <4>2, JobTypes DEF KbSend, rows, Typed
    <3>2. CASE KbAttach(u)
      BY <3>2 DEF KbAttach, jobs
    <3> QED BY <1>4, <3>1, <3>2
  <2>2. /\ Others(u) /\ req'[u].at = req[u].at /\ req'[u].draft = req[u].draft
        /\ req'[u].rag = req[u].rag
    BY <1>0, <2>1, KbAtEffect
  <2>3. u \in Ragging(d)' <=> u \in Ragging(d)
    BY <2>2 DEF Ragging
  <2>4. Kept(d)' \subseteq Kept(d) /\ rag'[d] = rag[d]
    BY <2>1 DEF Kept
  <2>5. u \in Ragging(d) => RagLine(u, d)'
    <3>1. ~ Replaces(u)'
      BY <1>0, <2>2 DEF Replaces
    <3> QED BY <1>k, <1>n, <2>2, <2>4, <3>1 DEF RagLine
  <2> QED BY <1>0, <2>2, <2>3, <2>4, <2>5, CleanMove
<1> QED BY <1>1, <1>2, <1>3, <1>4

LEMMA CleanRequest ==
  ASSUME DraftInv, CleanInv, NEW u \in Users, RequestStep(u)
  PROVE  CleanInv'
<1>p. req[u].at # "idle" => PlaceKnown(u)
  BY DEF DraftInv, Known
<1>n. NoRow.rag = None
  BY DEF NoRow
<1>1. CASE PutFile(u)
  BY <1>1, CleanFinish DEF PutFile, rows, jobs
<1>2. CASE ReadLegs(u)
  <2>1. /\ req[u].at = "legs" /\ UNCHANGED <<rag, owner, gone, deleted, messy>>
        /\ Goto(u, "promote") \/ Finish(u) \/ Goto(u, "mark") \/ Goto(u, "reset")
    BY <1>2 DEF ReadLegs, rows, jobs
  <2>2. ~ Replaces(u)
    BY <2>1 DEF Replaces
  <2>3. CASE Finish(u)
    BY <2>1, <2>3, CleanFinish
  <2> QED BY <2>1, <2>2, <2>3, CleanGoto DEF Ats
<1>3. CASE Promote(u)
  <2>1. /\ req[u].at = "promote" /\ UNCHANGED <<rag, owner, gone, deleted, messy>>
        /\ Goto(u, "mark") \/ Finish(u)
    BY <1>3 DEF Promote, jobs
  <2>2. ~ Replaces(u)
    BY <2>1 DEF Replaces
  <2> QED BY <2>1, <2>2, CleanFinish, CleanGoto DEF Ats
<1>4. CASE Delete(u)
  <2>1. /\ req[u].at \in {"mark", "unlink"} /\ UNCHANGED <<rag, owner, gone>>
        /\ deleted \subseteq deleted' /\ messy \subseteq messy' \cup deleted'
        /\ Goto(u, "unlink") \/ Finish(u)
    BY <1>4 DEF Delete, jobs, rows, Forget
  <2>2. ~ Replaces(u)
    BY <2>1 DEF Replaces
  <2> QED BY <2>1, <2>2, CleanFinish, CleanGoto DEF Ats
<1>5. CASE Check(u)
  <2>1. /\ req[u].at = "check" /\ UNCHANGED <<rag, owner, gone, deleted, messy>>
        /\ \/ Finish(u)
           \/ req[u].op = "assign" /\ Goto(u, "dispatch")
           \/ Goto(u, "drop")
           \/ req[u].row.rag = None /\ Goto(u, "reset")
    BY <1>5 DEF Check, rows, jobs
  <2>2. req[u].op = "assign" => ~ Replaces(u)
    BY DEF Replaces
  <2>3. CASE Finish(u)
    BY <2>1, <2>3, CleanFinish
  <2>4. CASE req[u].op = "assign" /\ Goto(u, "dispatch")
    BY <2>1, <2>2, <2>4, CleanGoto DEF Ats
  <2>5. CASE Goto(u, "drop")
    BY <2>1, <2>5, CleanGoto DEF Ats
  <2>6. CASE req[u].row.rag = None /\ Goto(u, "reset")
    BY <2>1, <2>6, CleanGoto DEF Ats
  <2> QED BY <2>1, <2>3, <2>4, <2>5, <2>6
<1>6. CASE DropDocument(u)
  <2>1. /\ req[u].at = "drop" /\ UNCHANGED <<rag, owner, deleted, messy>>
        /\ gone' = gone \cup {req[u].row.rag} /\ Goto(u, "reset")
    BY <1>6 DEF DropDocument, rows
  <2> QED BY <2>1, CleanGoto DEF Ats
<1>7. CASE Reset(u)
  <2>1. /\ req[u].at = "reset" /\ UNCHANGED <<rag, owner, gone, deleted, messy>>
        /\ (req[u].op = "assign" /\ Goto(u, "check")) \/ Goto(u, "dispatch")
    BY <1>7 DEF Reset, jobs
  <2>2. ~ Replaces(u)
    BY <2>1 DEF Replaces
  <2> QED BY <2>1, <2>2, CleanGoto DEF Ats
<1>8. CASE Settle(u)
  <2>1. req[u].rag.at \in {"off", "over"} /\ Finish(u) /\ UNCHANGED <<rag, owner, gone, deleted, messy>>
    BY <1>8 DEF Settle, jobs, Legs
  <2> QED BY <2>1, CleanFinish
<1> QED BY <1>1, <1>2, <1>3, <1>4, <1>5, <1>6, <1>7, <1>8, CleanDispatch DEF RequestStep, DispatchStep

\* A request that begins without overlap: the draft has no leg under way, and a
\* retry knows the document that is attached.
LEMMA CleanStart ==
  ASSUME DraftInv, CleanInv, NEW u \in Users, NEW e \in Drafts,
         \/ \E j \in Imports : StageUrl(u, e, j)
         \/ Stage(u, e) \/ Ask(u, e)
         \/ \E r \in New(Documents, "create"), k \in New(Imports, "send") :
              Assign(u, e, r, k) \/ Retry(u, e, r, k)
  PROVE  CleanInv'
<1>0. Typed
  BY DEF DraftInv
<1>1. PICK q : req' = [req EXCEPT ![u] = q]
  BY DEF StageUrl, Stage, Ask, Assign, Retry, Reads
<1>2. req'[u] = q /\ Others(u)
  BY <1>0, <1>1 DEF Typed, Others
<1>3. req[u] = Idle /\ Idle.rag = Off /\ UNCHANGED <<rag, owner, gone, deleted>> /\ messy \subseteq messy'
  BY DEF StageUrl, Stage, Ask, Assign, Retry, Reads, Idle, rows, jobs
<1> SUFFICES ASSUME NEW d \in Drafts \ (deleted \cup messy') PROVE Clean(d)'
  BY <1>3 DEF CleanInv
<1>4. Clean(d) /\ u \notin Ragging(d)
  BY <1>3 DEF CleanInv, Ragging
<1>5. rag'[d] = rag[d] /\ Kept(d)' = Kept(d)
  BY <1>3 DEF Kept
<1>6. CASE q.rag = Off \/ q.draft # d
  <2>1. u \notin Ragging(d)'
    BY <1>2, <1>6 DEF Ragging
  <2> QED BY <1>2, <1>4, <1>5, <2>1, CleanMove
<1>7. ASSUME NEW r \in New(Documents, "create"), NEW k \in New(Imports, "send"),
             Assign(u, e, r, k) \/ Retry(u, e, r, k), q.rag # Off, q.draft = d
      PROVE  Clean(d)'
  <2>0. PICK op \in {"assign", "retry"}, at \in {"legs", "check"} : \E row :
             /\ req' = [req EXCEPT ![u] = [op |-> op, at |-> at, draft |-> e, row |-> row, rag |-> r, kb |-> k]]
             /\ op = "retry" => Retry(u, e, r, k) /\ at = "check" /\ (r # Off => row = [NoRow EXCEPT !.rag = rag[e]])
             /\ op = "assign" => Assign(u, e, r, k)
    BY <1>7 DEF Assign, Retry, Reads
  <2>1. PICK row :
             /\ req' = [req EXCEPT ![u] = [op |-> op, at |-> at, draft |-> e, row |-> row, rag |-> r, kb |-> k]]
             /\ op = "retry" => Retry(u, e, r, k) /\ at = "check" /\ (r # Off => row = [NoRow EXCEPT !.rag = rag[e]])
             /\ op = "assign" => Assign(u, e, r, k)
    BY <2>0
  <2>2. /\ q.op = op /\ q.at = at /\ q.draft = e /\ q.row = row /\ q.rag = r /\ e = d /\ r # Off
    BY <1>0, <1>2, <1>7, <2>1 DEF Typed
  <2>3. r.at = "create"
    BY <2>2, NewLegs
  <2>4. Ragging(d) = {} /\ (op = "assign" => rag[d] = None)
    BY <2>1, <2>2 DEF Assign, Retry
  <2>5. Kept(d) \subseteq {rag[d]} /\ (op = "assign" => Kept(d) = {})
    <3>1. Kept(d) \subseteq {rag[d]}
      BY <1>4, <2>4 DEF Clean
    <3>2. None \notin Kept(d)
      BY JobTypes DEF Kept
    <3> QED BY <2>4, <3>1, <3>2
  <2>6. op = "retry" => row.rag = rag[d]
    BY <2>1, <2>2 DEF NoRow
  <2>7. RagLine(u, d)'
    <3>1. Replaces(u)' <=> op = "retry" /\ at = "check"
      BY <1>2, <2>2 DEF Replaces
    <3> QED BY <1>2, <1>5, <2>1, <2>2, <2>3, <2>5, <2>6, <3>1 DEF RagLine
  <2>8. Ragging(d)' = {u}
    <3>1. \A v \in Users \ {u} : v \in Ragging(d)' <=> v \in Ragging(d)
      BY <1>2 DEF Others, Ragging
    <3>2. u \in Ragging(d)' /\ Ragging(d)' \subseteq Users
      BY <1>2, <1>7 DEF Ragging
    <3> QED BY <2>4, <3>1, <3>2
  <2> QED BY <2>7, <2>8 DEF Clean
<1>8. (\E j \in Imports : StageUrl(u, e, j)) \/ Stage(u, e) \/ Ask(u, e) => q.rag = Off
  <2>1. req'[u].rag = Off => q.rag = Off
    BY <1>2
  <2>2. ASSUME NEW j \in Imports, StageUrl(u, e, j) PROVE q.rag = Off
    <3>1. PICK k : req' = [req EXCEPT ![u] = [Idle EXCEPT !.op = "stage", !.at = "dispatch", !.draft = e, !.kb = k]]
      BY <2>2 DEF StageUrl
    <3> QED BY <1>0, <2>1, <3>1 DEF Typed, Idle
  <2>3. CASE Stage(u, e)
    BY <1>0, <2>1, <2>3 DEF Typed, Idle, Stage
  <2>4. CASE Ask(u, e)
    BY <1>0, <2>1, <2>4 DEF Typed, Ask, Reads
  <2> QED BY <2>2, <2>3, <2>4
<1> QED BY <1>6, <1>7, <1>8

LEMMA CleanOutside ==
  ASSUME DraftInv, CleanInv, ReapList \/ (\E d \in Drafts : Reap(d)) \/ \E j \in Jobs : LegEnds(j) \/ CancelJob(j)
  PROVE  CleanInv'
<1>1. /\ UNCHANGED <<rag, owner, gone, req>>
      /\ deleted \subseteq deleted' /\ messy \subseteq messy' \cup deleted'
  BY DEF ReapList, Reap, LegEnds, CancelJob, rows, jobs, Forget
<1> QED BY <1>1 DEF CleanInv, Clean, Ragging, RagLine, Replaces, Kept

LEMMA CleanCrash ==
  ASSUME DraftInv, CleanInv, Crash
  PROVE  CleanInv'
<1>1. /\ req' = [u \in Users |-> Idle]
      /\ messy' = messy \cup {d \in Drafts \ deleted : Ragging(d) # {}}
      /\ UNCHANGED <<rag, owner, gone, deleted>>
  BY DEF Crash, rows, jobs
<1> SUFFICES ASSUME NEW d \in Drafts \ (deleted \cup messy), Ragging(d) = {} PROVE Clean(d)'
  BY <1>1 DEF CleanInv
<1>2. Ragging(d)' = {}
  BY <1>1 DEF Ragging, Idle
<1>3. Kept(d)' \subseteq {rag'[d]}
  BY <1>1 DEF CleanInv, Clean, Kept
<1> QED BY <1>2, <1>3 DEF Clean

\* Without overlapping, repeated or crashed RAG legs a draft has at most one
\* document that is not deleted, however its retries interleave with the rest.
THEOREM OneDocumentEach == Spec => []OneLiveDocument
<1>1. Init => CleanInv
  <2> SUFFICES ASSUME Init, NEW d \in Drafts PROVE Clean(d)
    BY DEF CleanInv
  <2>1. Ragging(d) = {}
    BY DEF Init, Ragging, Idle
  <2>2. Kept(d) = {}
    BY JobTypes, DraftsAssumption DEF Init, Kept
  <2> QED BY <2>1, <2>2 DEF Clean
<1>2. DraftInv /\ CleanInv /\ [Next]_vars => CleanInv'
  <2> SUFFICES ASSUME DraftInv, CleanInv, [Next]_vars PROVE CleanInv'
    OBVIOUS
  <2>1. CASE UNCHANGED vars
    BY <2>1 DEF vars, rows, jobs, CleanInv, Clean, Ragging, RagLine, Replaces, Kept
  <2>2. CASE Next
    BY <2>2, CleanStart, CleanRequest, CleanOutside, CleanCrash DEF Next
  <2> QED BY <2>1, <2>2
<1>3. CleanInv /\ DraftInv => OneLiveDocument
  <2> SUFFICES ASSUME CleanInv, DraftInv, NEW d \in Drafts \ (deleted \cup messy)
               PROVE  Cardinality(Kept(d)) <= 1
    BY DEF OneLiveDocument, Kept
  <2>1. \E x : Kept(d) \subseteq {x}
    <3>1. Clean(d)
      BY DEF CleanInv
    <3>2. CASE Ragging(d) = {}
      BY <3>1, <3>2 DEF Clean
    <3>3. ASSUME NEW u \in Ragging(d) PROVE \E x : Kept(d) \subseteq {x}
      BY <3>1, RaggingPlaces DEF Clean, RagLine, Ragging
    <3> QED BY <3>2, <3>3
  <2>2. PICK x : Kept(d) \subseteq {x}
    BY <2>1
  <2>3. Kept(d) = {} \/ Kept(d) = {x}
    BY <2>2
  <2> QED BY <2>3, FS_EmptySet, FS_Singleton
<1> QED BY <1>1, <1>2, <1>3, DraftInvariance, PTL DEF Spec
===============================================================================
