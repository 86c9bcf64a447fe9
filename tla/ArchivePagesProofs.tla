-------------------------- MODULE ArchivePagesProofs --------------------------
\* Theorems of ArchivePages for any pages, requests, runs and numbers of retries and
\* restarts.  First, every step of the requests is a step of the page lock or leaves
\* it alone, so that PageLockProofs carries over (ArchiveInv).  Second, WriteInv says
\* of each request under a lock what it knows of its page: as long as nobody wrote
\* the page without the lock, row and file are as this request has read or left them.
EXTENDS ArchivePages, PageLockProofs

Content == Texts \cup {None, Marked}

\* Where a request writes one page, and where it undoes a run.
Writing == {"open", "write", "save", "commit", "probe", "make", "insert", "unmake"}
Undoing == {"revert", "find", "read", "seal", "reword", "mark"}

Places == Over \cup Writing \cup Undoing
          \cup {"drop", "unlink", "rm", "asked", "queued", "hash", "apply", "link", "reject"}
Kinds == {"none", "put", "create", "delete", "approve", "link", "reject", "undo"}

Requests == [at : Places, op : Kinds, run : Runs \cup {None}, slug : Slugs \cup {0},
             text : Content, seen : Nat, tries : Nat, todo : SUBSET Slugs]

Rows == [state : {"none", "live", "deleted"}, text : Texts \cup {None}, rev : Nat]
Trees == [Slugs -> Content]

RowsOK ==
  /\ row \in [Slugs -> Rows]
  /\ \A s \in Slugs : (row[s].state = "none") <=> (row[s].text = None)

GitOK ==
  /\ index \in Trees
  /\ log \in Seq(Trees) /\ Len(log) > 1
  /\ unmerged \subseteq Slugs

ArchiveTypeOK ==
  /\ RowsOK
  /\ file \in Trees
  /\ GitOK
  /\ status \in [Runs -> {"PENDING", "APPLIED", "REJECTED", "REVERTED"}]
  /\ hash \in [Runs -> Nat]
  /\ call \in [Calls -> Requests]

\* What a request is about, by where it is.
Sound(k) ==
  /\ k.at \in Writing \cup {"drop", "unlink", "rm", "seal", "reword"} => k.slug \in Slugs
  /\ k.at \in Writing \cup {"seal", "reword"} => k.text \in Texts
  /\ k.at \in Writing => k.op \in {"put", "create", "approve", "link"}
  /\ k.at \in {"drop", "unlink", "rm"} => k.op = "delete"
  /\ k.at \in Undoing => k.op = "undo"
  /\ k.at = "reject" => k.op = "reject"
  /\ k.at \in {"asked", "queued", "hash", "apply"} => k.op = "approve"
  /\ k.at = "link" => k.op = "link"
  /\ k.at \notin Over /\ k.op \in {"approve", "link", "undo", "reject"} => k.run \in Runs

\* A run that is applied or undone has a commit in the history, which is not the
\* first, and so has an approval that is about to store it.
HashKnown ==
  /\ \A r \in Runs : /\ hash[r] <= Len(log)
                     /\ status[r] \in {"APPLIED", "REVERTED"} => hash[r] > 1
  /\ \A c \in Calls :
       /\ call[c].at = "apply" => 1 < call[c].seen /\ call[c].seen <= Len(log)
       /\ call[c].at \in Undoing => hash[call[c].run] > 1

\* A row that a request is about to write over was inserted.
RowKnown ==
  \A c \in Calls :
    /\ call[c].at \in {"write", "save", "drop", "seal", "reword"} => row[call[c].slug].state # "none"
    /\ call[c].at = "read" => row[Target[call[c].run]].state # "none"

\* A call of the lock is behind a request that is approved, from the queue to the end.
TurnFollows ==
  \A c \in Calls :
    /\ turn[c] = "waiting" => call[c].at = "queued"
    /\ turn[c] = "running" => /\ call[c].op \in {"approve", "link"}
                              /\ call[c].at \notin Over \cup {"asked", "queued"}

ArchiveInv ==
  /\ ArchiveTypeOK
  /\ \A c \in Calls : Sound(call[c])
  /\ HashKnown
  /\ RowKnown
  /\ TurnFollows

LEMMA ArchiveInit == Init => ArchiveInv
<1> SUFFICES ASSUME Init PROVE ArchiveInv
  OBVIOUS
<1> USE ContentAssumption, RunAssumption DEF Init, Content, Texts, TextBy
<1>1. RowsOK
  BY DEF RowsOK, Rows
<1>2. file \in Trees
  BY <1>1 DEF RowsOK, Rows, Trees
<1>3. GitOK /\ Len(log) = 2
  <2>1. index \in Trees /\ [s \in Slugs |-> None] \in Trees
    BY <1>2 DEF Trees
  <2> QED BY <1>2, <2>1 DEF GitOK
<1>4. call \in [Calls -> Requests] /\ \A c \in Calls : Sound(call[c]) /\ call[c].at = "idle"
  <2>1. Idle \in Requests
    BY DEF Idle, Requests, Places, Kinds, Over, Content
  <2>2. Sound(Idle) /\ Idle.at = "idle"
    BY DEF Idle, Sound, Writing, Undoing, Over
  <2> QED BY <2>1, <2>2
<1>5. ArchiveTypeOK
  BY <1>1, <1>2, <1>3, <1>4 DEF ArchiveTypeOK
<1>6. HashKnown
  BY <1>3, <1>4 DEF HashKnown, Undoing
<1>7. TurnFollows /\ RowKnown
  BY <1>4 DEF LockInit, TurnFollows, RowKnown
<1> QED BY <1>4, <1>5, <1>6, <1>7 DEF ArchiveInv

\* Every step of the archive is a step of the lock, or leaves it alone.
LEMMA StepLocks == [Next]_vars /\ ArchiveInv => [LockNext]_lockVars
<1> SUFFICES ASSUME [Next]_vars, ArchiveInv PROVE [LockNext]_lockVars
  OBVIOUS
<1>1. CASE Restart
  BY <1>1 DEF Restart, LockNext
<1>2. CASE Rest \/ UNCHANGED vars
  BY <1>2 DEF Rest, vars
<1>3. ASSUME NEW c \in Calls, Ask(c) PROVE UNCHANGED lockVars
  BY <1>3 DEF Ask, Put, Create, Delete, Approve, Reject, Undo
<1>4. ASSUME NEW c \in Calls, Throws(c) PROVE [LockNext]_lockVars
  BY <1>4 DEF Throws, LockNext
<1>5. ASSUME NEW c \in Calls, Step(c) PROVE [LockNext]_lockVars
  <2>1. ASSUME Lock(c) PROVE LockNext
    <3>1. Target[call[c].run] \in Pages
      BY <2>1, RunAssumption, SlugAssumption DEF Lock, At, ArchiveInv, Sound, Over
    <3> QED BY <2>1, <3>1 DEF Lock, LockNext
  <2>2. ASSUME Locked(c) \/ Skipped(c) \/ Finish(c) PROVE LockNext
    BY <2>2 DEF Locked, Skipped, Finish, LockNext
  <2>3. ASSUME Open(c) \/ Save(c) \/ Insert(c) \/ Revert(c) \/ FindPage(c) \/ ReadFile(c) \/ Seal(c)
        PROVE  Throws(c) \/ UNCHANGED lockVars
    BY <2>3 DEF Open, Save, Insert, Revert, FindPage, ReadFile, Seal
  <2>4. ASSUME Write(c) \/ Commit(c) \/ Probe(c) \/ Make(c) \/ Unmake(c) \/ Drop(c) \/ Unlink(c) \/ GitRm(c)
               \/ ReadHash(c) \/ Apply(c) \/ Link(c) \/ WriteReject(c) \/ Reword(c) \/ Mark(c)
        PROVE  UNCHANGED lockVars
    BY <2>4 DEF Write, Commit, Probe, Make, Unmake, Drop, Unlink, GitRm, ReadHash, Apply, Link,
                WriteReject, Reword, Mark
  <2> QED BY <1>4, <1>5, <2>1, <2>2, <2>3, <2>4 DEF Step
<1> QED BY <1>1, <1>2, <1>3, <1>5 DEF Next
\* A step of one request is its own: it leaves the others where they are.
Own(c) ==
  /\ call' \in [Calls -> Requests]
  /\ Sound(call'[c])
  /\ \A d \in Calls \ {c} : call'[d] = call[d]

\* The others stay where they are, and the request is about the same run.
Keeps(c) ==
  /\ call' \in [Calls -> Requests]
  /\ \A d \in Calls \ {c} : call'[d] = call[d]
  /\ call'[c].run = call[c].run

\* Where the request goes: on, with its page and its text, or to its end, which for
\* a failed backlink is the next backlink.
Same(c) == call'[c].slug = call[c].slug /\ call'[c].text = call[c].text /\ call'[c].op = call[c].op
To(c, where) == call'[c].at = where /\ Same(c) /\ call'[c].seen = call[c].seen
Stops(c) == /\ call'[c].op = call[c].op
            /\ call'[c].at \in {"done", "failed"} \/ (call'[c].at = "link" /\ Linking(c))

Route(c) ==
  /\ Open(c) => Stops(c) \/ (/\ call'[c].at = "write" /\ Same(c)
                              /\ call'[c].seen = row[call[c].slug].rev)
  /\ Write(c) => To(c, "save")
  /\ Save(c) => To(c, "commit") \/ Stops(c)
  /\ Commit(c) => (To(c, "hash") /\ call[c].op = "approve") \/ Stops(c)
  /\ Probe(c) => /\ call'[c].at = "make" /\ call'[c].text = call[c].text /\ call'[c].op = call[c].op
                 /\ call'[c].slug \in Slugs /\ row[call'[c].slug].state = "none"
  /\ Make(c) => To(c, "insert")
  /\ Insert(c) => To(c, "commit") \/ To(c, "unmake") \/ Stops(c)
  /\ Unmake(c) => To(c, "probe")
  /\ Drop(c) => To(c, "unlink")
  /\ Unlink(c) => To(c, "rm") \/ Stops(c)
  /\ Lock(c) => To(c, "queued")
  /\ Locked(c) => /\ call'[c].at \in {"probe", "open"} /\ call'[c].op = call[c].op
                  /\ call'[c].slug = Target[call[c].run] /\ call'[c].text = TextBy(call[c].run)
  /\ ReadHash(c) => call'[c].at = "apply" /\ Same(c) /\ call'[c].seen = Len(log)
  /\ Apply(c) => call'[c].at = "link" /\ call'[c].op = "link"
  /\ Link(c) => /\ call'[c].op = call[c].op /\ call'[c].slug \in Slugs
                /\ call'[c].at = "link" \/ (call'[c].at = "open" /\ call'[c].text \in Texts)
  /\ Revert(c) => To(c, "find") \/ Stops(c)
  /\ FindPage(c) => Stops(c) \/ (To(c, "read") /\ row[Target[call[c].run]].state = "live")
  /\ ReadFile(c) => Stops(c) \/ (/\ call'[c].at = "seal" /\ call'[c].slug = Target[call[c].run]
                                  /\ call'[c].text \in Texts /\ call'[c].op = call[c].op)
  /\ Seal(c) => To(c, "reword") \/ Stops(c)
  /\ Reword(c) => To(c, "mark")
  /\ GitRm(c) \/ Skipped(c) \/ Finish(c) \/ WriteReject(c) \/ Mark(c) => Stops(c)

LEMMA GoesKeeps ==
  ASSUME call \in [Calls -> Requests], NEW c \in Calls, NEW where \in Places, Goes(c, where)
  PROVE  Keeps(c) /\ To(c, where)
BY DEF Goes, Keeps, To, Same, Requests

LEMMA EndedKeeps ==
  ASSUME call \in [Calls -> Requests], NEW c \in Calls, NEW how \in {"done", "failed"},
         call' = [call EXCEPT ![c] = Ended(c, how)]
  PROVE  Keeps(c) /\ Stops(c)
<1>1. Ended(c, how) \in Requests
  BY DEF Ended, Idle, Requests, Places, Over, Content
<1>2. Ended(c, how).at = how /\ Ended(c, how).run = call[c].run /\ Ended(c, how).op = call[c].op
  BY DEF Ended, Idle
<1> QED BY <1>1, <1>2 DEF Keeps, Stops

LEMMA ThrowsKeeps ==
  ASSUME call \in [Calls -> Requests], NEW c \in Calls, Throws(c)
  PROVE  Keeps(c) /\ Stops(c)
<1>1. CASE Linking(c)
  BY <1>1, GoesKeeps DEF Throws, Stops, To, Same, Places
<1>2. CASE ~Linking(c)
  BY <1>2, EndedKeeps DEF Throws
<1> QED BY <1>1, <1>2

\* A request that is made: an undo is of an applied run, a deletion of a live page,
\* and nobody asks anything about a run that was rejected or undone.
Fresh(k) ==
  /\ k \in Requests /\ Sound(k)
  /\ k.at \in {"open", "probe", "drop", "asked", "reject", "revert"}
  /\ k.run # None => k.run \in Runs /\ status[k.run] \in {"PENDING", "APPLIED"}
  /\ k.at = "drop" => row[k.slug].state = "live"
  /\ k.at = "revert" => status[k.run] = "APPLIED"

LEMMA AskOwn ==
  ASSUME ArchiveTypeOK, NEW c \in Calls, Ask(c)
  PROVE  /\ Own(c)
         /\ call[c].at = "idle" /\ Fresh(call'[c])
         /\ UNCHANGED <<lockVars, pageVars>>
<1> DEFINE New(k) == call' = [call EXCEPT ![c] = k] /\ Fresh(k)
<1>1. ASSUME NEW k, New(k)
      PROVE  Own(c) /\ Fresh(call'[c])
  BY <1>1 DEF Own, ArchiveTypeOK, Fresh
<1>2. ASSUME NEW s \in Named, Put(c, s) \/ Create(c, s)
      PROVE  \E k : New(k)
  <2> DEFINE k(where, op) == [Idle EXCEPT !.at = where, !.op = op, !.slug = s, !.text = TextBy(c)]
  <2>1. TextBy(c) \in Texts /\ s \in Slugs
    BY RunAssumption DEF TextBy, Texts
  <2>2. k("open", "put") \in Requests /\ k("probe", "create") \in Requests
    BY <2>1 DEF Idle, Requests, Places, Kinds, Writing, Content
  <2>3. Sound(k("open", "put")) /\ Sound(k("probe", "create"))
    BY <2>1 DEF Idle, Sound, Writing, Undoing, Over
  <2>4. CASE Put(c, s)
    <3>1. New(k("open", "put"))
      BY <2>2, <2>3, <2>4 DEF Put, Idle, Fresh
    <3> QED BY <3>1
  <2>5. CASE Create(c, s)
    <3>1. New(k("probe", "create"))
      BY <2>2, <2>3, <2>5 DEF Create, Idle, Fresh
    <3> QED BY <3>1
  <2> QED BY <1>2, <2>4, <2>5
<1>3. ASSUME NEW s \in Named, Delete(c, s)
      PROVE  \E k : New(k)
  <2> DEFINE k == [Idle EXCEPT !.at = "drop", !.op = "delete", !.slug = s]
  <2>1. k \in Requests /\ Sound(k)
    BY RunAssumption DEF Idle, Requests, Places, Kinds, Sound, Writing, Undoing, Over, Content
  <2>2. New(k)
    BY <1>3, <2>1 DEF Delete, Idle, Fresh
  <2> QED BY <2>2
<1>4. ASSUME NEW r \in Runs, Approve(c, r) \/ Reject(c, r) \/ Undo(c, r)
      PROVE  \E k : New(k)
  <2> DEFINE k(where, op) == [Idle EXCEPT !.at = where, !.op = op, !.run = r]
  <2>1. k("asked", "approve") \in Requests /\ k("reject", "reject") \in Requests /\ k("revert", "undo") \in Requests
    BY DEF Idle, Requests, Places, Kinds, Undoing, Content
  <2>2. Sound(k("asked", "approve")) /\ Sound(k("reject", "reject")) /\ Sound(k("revert", "undo"))
    BY DEF Idle, Sound, Writing, Undoing, Over
  <2>3. CASE Approve(c, r)
    <3>1. New(k("asked", "approve"))
      BY <2>1, <2>2, <2>3 DEF Approve, Idle, Fresh
    <3> QED BY <3>1
  <2>4. CASE Reject(c, r)
    <3>1. New(k("reject", "reject"))
      BY <2>1, <2>2, <2>4 DEF Reject, Idle, Fresh
    <3> QED BY <3>1
  <2>5. CASE Undo(c, r)
    <3>1. New(k("revert", "undo"))
      BY <2>1, <2>2, <2>5 DEF Undo, Idle, Fresh
    <3> QED BY <3>1
  <2> QED BY <1>4, <2>3, <2>4, <2>5
<1>5. call[c].at = "idle" /\ UNCHANGED <<lockVars, pageVars>>
  BY DEF Ask, Put, Create, Delete, Approve, Reject, Undo, At
<1> QED BY <1>1, <1>2, <1>3, <1>4, <1>5 DEF Ask

\* Each step starts at one place.
LEMMA From ==
  ASSUME NEW c \in Calls
  PROVE  /\ Open(c) => call[c].at = "open"
         /\ Write(c) => call[c].at = "write"
         /\ Save(c) => call[c].at = "save"
         /\ Commit(c) => call[c].at = "commit"
         /\ Probe(c) => call[c].at = "probe"
         /\ Make(c) => call[c].at = "make"
         /\ Insert(c) => call[c].at = "insert"
         /\ Unmake(c) => call[c].at = "unmake"
         /\ Drop(c) => call[c].at = "drop"
         /\ Unlink(c) => call[c].at = "unlink"
         /\ GitRm(c) => call[c].at = "rm"
         /\ Lock(c) => call[c].at = "asked"
         /\ Locked(c) => call[c].at = "queued"
         /\ Skipped(c) => call[c].at = "queued"
         /\ ReadHash(c) => call[c].at = "hash"
         /\ Apply(c) => call[c].at = "apply"
         /\ Link(c) => call[c].at = "link"
         /\ Finish(c) => call[c].at = "link"
         /\ WriteReject(c) => call[c].at = "reject"
         /\ Revert(c) => call[c].at = "revert"
         /\ FindPage(c) => call[c].at = "find"
         /\ ReadFile(c) => call[c].at = "read"
         /\ Seal(c) => call[c].at = "seal"
         /\ Reword(c) => call[c].at = "reword"
         /\ Mark(c) => call[c].at = "mark"
BY DEF At, Open, Write, Save, Commit, Probe, Make, Insert, Unmake, Drop, Unlink, GitRm, Lock, Locked, Skipped, ReadHash, Apply, Link, Finish, WriteReject, Revert, FindPage, ReadFile, Seal, Reword, Mark

LEMMA Routes ==
  ASSUME ArchiveTypeOK, NEW c \in Calls, Step(c), Sound(call[c])
  PROVE  Keeps(c) /\ Route(c) /\ call[c].at \notin Over
<1>0. call \in [Calls -> Requests] /\ call[c] \in Requests
  BY DEF ArchiveTypeOK
<1> DEFINE Ends == call' = [call EXCEPT ![c] = Ended(c, "done")]
                   \/ call' = [call EXCEPT ![c] = Ended(c, "failed")]
<1>1. Ends => Keeps(c) /\ Stops(c)
  BY <1>0, EndedKeeps
<1>2. \A where \in Places : Goes(c, where) => Keeps(c) /\ To(c, where)
  BY <1>0, GoesKeeps
<1>3. Throws(c) => Keeps(c) /\ Stops(c)
  BY <1>0, ThrowsKeeps
<1> HIDE DEF Ends
<1>4. ASSUME Open(c) PROVE Keeps(c) /\ (Stops(c) \/ (/\ call'[c].at = "write" /\ Same(c)
                                                 /\ call'[c].seen = row[call[c].slug].rev))
  <2>1. CASE Throws(c)
    BY <2>1, <1>3
  <2>2. CASE call' = [call EXCEPT ![c].at = "write", ![c].seen = row[call[c].slug].rev]
    <3>1. row[call[c].slug].rev \in Nat
      BY <1>4 DEF Open, At, Sound, Writing, ArchiveTypeOK, RowsOK, Rows
    <3> DEFINE n == row[call[c].slug].rev
    <3> HIDE DEF n
    <3>2. n \in Nat /\ call' = [call EXCEPT ![c].at = "write", ![c].seen = n]
      BY <2>2, <3>1 DEF n
    <3>3. Keeps(c) /\ call'[c].at = "write" /\ Same(c) /\ call'[c].seen = n
      BY <1>0, <3>2 DEF Keeps, Same, Requests, Places, Writing
    <3> QED BY <3>3 DEF n
  <2> QED BY <1>4, <2>1, <2>2 DEF Open
<1>5. ASSUME Write(c) PROVE Keeps(c) /\ To(c, "save")
  BY <1>2, <1>5 DEF Write, Places, Writing
<1>6. ASSUME Save(c) PROVE Keeps(c) /\ (To(c, "commit") \/ Stops(c))
  BY <1>2, <1>3, <1>6 DEF Save, Places, Writing
<1>7. ASSUME Commit(c) PROVE Keeps(c) /\ ((To(c, "hash") /\ call[c].op = "approve") \/ Stops(c))
  <2>1. call[c].op \in {"put", "create", "approve", "link"} /\ Written(c)
    BY <1>7 DEF Commit, At, Sound, Writing
  <2>2. CASE call[c].op = "link"
    BY <2>1, <2>2, <1>2 DEF Written, Linking, Places, Stops, To, Same
  <2>3. CASE call[c].op = "approve"
    BY <2>1, <2>3, <1>2 DEF Written, Linking, Places
  <2>4. CASE call[c].op \in {"put", "create"}
    BY <2>1, <2>4, <1>1 DEF Written, Linking, Ends
  <2> QED BY <2>1, <2>2, <2>3, <2>4
<1>8. ASSUME Probe(c)
      PROVE  /\ Keeps(c)
             /\ call'[c].at = "make" /\ call'[c].text = call[c].text /\ call'[c].op = call[c].op
             /\ call'[c].slug \in Slugs /\ row[call'[c].slug].state = "none"
  <2>1. PICK s \in Slugs : /\ row[s].state = "none"
                           /\ call' = [call EXCEPT ![c].at = "make", ![c].slug = s]
    BY <1>8 DEF Probe
  <2> QED BY <1>0, <2>1 DEF Keeps, Requests, Places, Writing
<1>9. ASSUME Make(c) PROVE Keeps(c) /\ To(c, "insert")
  BY <1>2, <1>9 DEF Make, Places, Writing
<1>10. ASSUME Insert(c) PROVE Keeps(c) /\ (To(c, "commit") \/ To(c, "unmake") \/ Stops(c))
  BY <1>2, <1>3, <1>10 DEF Insert, Places, Writing
<1>11. ASSUME Unmake(c) PROVE Keeps(c) /\ To(c, "probe")
  <2>1. call' = [call EXCEPT ![c].at = "probe", ![c].tries = @ + 1]
    BY <1>11 DEF Unmake
  <2> QED BY <1>0, <2>1 DEF Keeps, To, Same, Requests, Places, Writing
<1>12. ASSUME Drop(c) PROVE Keeps(c) /\ To(c, "unlink")
  BY <1>2, <1>12 DEF Drop, Places
<1>13. ASSUME Unlink(c) PROVE Keeps(c) /\ (To(c, "rm") \/ Stops(c))
  <2>1. CASE file[call[c].slug] # None
    BY <1>2, <1>13, <2>1 DEF Unlink, Goes, Places
  <2>2. CASE file[call[c].slug] = None
    BY <1>1, <1>13, <2>2 DEF Unlink, Ends
  <2> QED BY <2>1, <2>2
<1>14. ASSUME Lock(c) PROVE Keeps(c) /\ To(c, "queued")
  BY <1>2, <1>14 DEF Lock, Places
<1>15. ASSUME Locked(c)
      PROVE  /\ Keeps(c)
             /\ call'[c].at \in {"probe", "open"} /\ call'[c].op = call[c].op
             /\ call'[c].slug = Target[call[c].run] /\ call'[c].text = TextBy(call[c].run)
  <2> DEFINE r == call[c].run
  <2>1. r \in Runs
    BY <1>15 DEF Locked, At, Sound, Over
  <2>2. PICK where \in {"probe", "open"} :
          call' = [call EXCEPT ![c].at = where, ![c].slug = Target[r], ![c].text = TextBy(r)]
    BY <1>15 DEF Locked
  <2>3. Target[r] \in Slugs /\ TextBy(r) \in Content
    BY <2>1, RunAssumption DEF Content, TextBy, Texts
  <2> HIDE DEF r
  <2>4. /\ Keeps(c)
        /\ call'[c].at = where /\ call'[c].op = call[c].op
        /\ call'[c].slug = Target[r] /\ call'[c].text = TextBy(r)
    BY <1>0, <2>2, <2>3 DEF Keeps, Requests, Places, Writing
  <2> QED BY <2>4 DEF r
<1>16. ASSUME ReadHash(c) PROVE Keeps(c) /\ call'[c].at = "apply" /\ Same(c) /\ call'[c].seen = Len(log)
  <2>1. Len(log) \in Nat
    BY DEF ArchiveTypeOK, GitOK
  <2> DEFINE n == Len(log)
  <2> HIDE DEF n
  <2>2. n \in Nat /\ call' = [call EXCEPT ![c].at = "apply", ![c].seen = n]
    BY <1>16, <2>1 DEF ReadHash, n
  <2>3. Keeps(c) /\ call'[c].at = "apply" /\ Same(c) /\ call'[c].seen = n
    BY <1>0, <2>2 DEF Keeps, Same, Requests, Places
  <2> QED BY <2>3 DEF n
<1>17. ASSUME Apply(c) PROVE Keeps(c) /\ call'[c].at = "link" /\ call'[c].op = "link"
  <2> DEFINE left == Links[call[c].run] \ {Target[call[c].run]}
  <2>1. left \subseteq Slugs
    BY <1>17, RunAssumption DEF Apply, At, Sound, Over
  <2>2. call' = [call EXCEPT ![c].at = "link", ![c].op = "link", ![c].todo = left]
    BY <1>17 DEF Apply
  <2> HIDE DEF left
  <2> QED BY <1>0, <2>1, <2>2 DEF Keeps, Requests, Places, Kinds
<1>18. ASSUME Link(c)
      PROVE  /\ Keeps(c)
             /\ call'[c].op = call[c].op /\ call'[c].slug \in Slugs
             /\ call'[c].at = "link" \/ (call'[c].at = "open" /\ call'[c].text \in Texts)
  <2> DEFINE r == call[c].run
             Linked(s) == [row[s].text EXCEPT !.back = @ \cup {Target[r]}]
             Takes(s, where, text) ==
               call' = [call EXCEPT ![c].todo = @ \ {s}, ![c].at = where, ![c].slug = s, ![c].text = text]
  <2>1. r \in Runs /\ call[c].todo \subseteq Slugs /\ call[c].text \in Content
    BY <1>0, <1>18 DEF Link, At, Sound, Over, Requests
  <2>2. PICK s \in Slugs : Takes(s, "link", call[c].text)
                           \/ (row[s].state = "live" /\ Takes(s, "open", Linked(s)))
    BY <1>18, <2>1 DEF Link
  <2>3. row[s].state = "live" => Linked(s) \in Texts
    <3>1. row[s].state = "live" => row[s].text \in Texts
      BY DEF ArchiveTypeOK, RowsOK, Rows
    <3> QED BY <2>1, <3>1, RunAssumption DEF Texts
  <2>4. PICK where \in {"open", "link"}, text \in Content, rest \in SUBSET Slugs :
          /\ call' = [call EXCEPT ![c].todo = rest, ![c].at = where, ![c].slug = s, ![c].text = text]
          /\ where = "open" => text \in Texts
    <3>1. call[c].todo \ {s} \in SUBSET Slugs
      BY <2>1
    <3> QED BY <2>1, <2>2, <2>3, <3>1 DEF Content
  <2> QED BY <1>0, <2>4 DEF Keeps, Requests, Places, Writing
<1>19. ASSUME Revert(c) PROVE Keeps(c) /\ (To(c, "find") \/ Stops(c))
  BY <1>2, <1>3, <1>19 DEF Revert, Places, Undoing
<1>20. ASSUME FindPage(c)
       PROVE  Keeps(c) /\ (Stops(c) \/ (To(c, "read") /\ row[Target[call[c].run]].state = "live"))
  BY <1>2, <1>3, <1>20 DEF FindPage, Places, Undoing
<1>21. ASSUME ReadFile(c)
       PROVE  Keeps(c) /\ (Stops(c) \/ (/\ call'[c].at = "seal" /\ call'[c].slug = Target[call[c].run]
                                        /\ call'[c].text \in Texts /\ call'[c].op = call[c].op))
  <2> DEFINE s == Target[call[c].run]
  <2>1. s \in Slugs
    BY <1>21, RunAssumption DEF ReadFile, At, Sound, Undoing, Over
  <2>2. CASE Throws(c)
    BY <2>2, <1>3
  <2>3. CASE ~Throws(c)
    <3>1. file[s] \in Texts /\ call' = [call EXCEPT ![c].at = "seal", ![c].slug = s, ![c].text = file[s]]
      BY <1>21, <2>3 DEF ReadFile
    <3> HIDE DEF s
    <3>2. Keeps(c) /\ call'[c].at = "seal" /\ call'[c].slug = s /\ call'[c].text = file[s] /\ call'[c].op = call[c].op
      BY <1>0, <2>1, <3>1 DEF Keeps, Requests, Places, Undoing, Content
    <3> QED BY <3>1, <3>2 DEF s
  <2> QED BY <2>2, <2>3
<1>22. ASSUME Seal(c) PROVE Keeps(c) /\ (To(c, "reword") \/ Stops(c))
  BY <1>2, <1>3, <1>22 DEF Seal, Places, Undoing
<1>23. ASSUME Reword(c) PROVE Keeps(c) /\ To(c, "mark")
  BY <1>2, <1>23 DEF Reword, Places, Undoing
<1>24. ASSUME GitRm(c) \/ Skipped(c) \/ Finish(c) \/ WriteReject(c) \/ Mark(c)
       PROVE  Keeps(c) /\ Stops(c)
  <2>1. Ends
    BY <1>24 DEF GitRm, Skipped, Finish, WriteReject, Mark, Ends
  <2> QED BY <2>1, <1>1
<1>25. call[c].at \notin Over
  BY From DEF Step, Over
<1>26. Keeps(c)
  BY <1>4, <1>5, <1>6, <1>7, <1>8, <1>9, <1>10, <1>11, <1>12, <1>13, <1>14, <1>15, <1>16, <1>17, <1>18, <1>19, <1>20, <1>21, <1>22, <1>23, <1>24 DEF Step
<1>27. Route(c)
  BY <1>4, <1>5, <1>6, <1>7, <1>8, <1>9, <1>10, <1>11, <1>12, <1>13, <1>14, <1>15, <1>16, <1>17, <1>18, <1>19, <1>20, <1>21, <1>22, <1>23, <1>24 DEF Route
<1> QED BY <1>25, <1>26, <1>27

\* What the request is about fits where it goes.
LEMMA StepSound ==
  ASSUME ArchiveTypeOK, NEW c \in Calls, Step(c), Sound(call[c])
  PROVE  Sound(call'[c])
<1>0. Keeps(c) /\ Route(c)
  BY Routes
<1> USE <1>0, From, RunAssumption DEF To, Same, Stops, Keeps, Linking, Sound, Writing, Undoing, Over
<1>1. CASE Open(c) \/ Write(c)
  BY <1>1 DEF Route
<1>2. CASE Save(c) \/ Commit(c)
  BY <1>2 DEF Route
<1>3. CASE Probe(c) \/ Make(c)
  BY <1>3 DEF Route
<1>4. CASE Insert(c) \/ Unmake(c)
  BY <1>4 DEF Route
<1>5. CASE Drop(c) \/ Unlink(c) \/ GitRm(c)
  BY <1>5 DEF Route
<1>6. CASE Lock(c) \/ Skipped(c)
  BY <1>6 DEF Route
<1>7. CASE Locked(c)
  BY <1>7 DEF Route, TextBy, Texts
<1>8. CASE ReadHash(c) \/ Apply(c)
  BY <1>8 DEF Route
<1>9. CASE Link(c)
  BY <1>9 DEF Route
<1>10. CASE Finish(c) \/ WriteReject(c)
  BY <1>10 DEF Route
<1>11. CASE Revert(c) \/ FindPage(c)
  BY <1>11 DEF Route
<1>12. CASE ReadFile(c)
  BY <1>12 DEF Route
<1>13. CASE Seal(c) \/ Reword(c) \/ Mark(c)
  BY <1>13 DEF Route
<1> QED BY <1>1, <1>2, <1>3, <1>4, <1>5, <1>6, <1>7, <1>8, <1>9, <1>10, <1>11, <1>12, <1>13 DEF Step

-------------------------------------------------------------------------------
(* Rows, files and git *)

\* The history only grows.
LEMMA CommittedGrows ==
  ASSUME GitOK, NEW tree \in Trees, Committed(tree)
  PROVE  log' \in Seq(Trees) /\ Len(log) <= Len(log')
BY DEF GitOK, Committed

LEMMA CommitsGrows ==
  ASSUME GitOK, file \in Trees, NEW s \in Slugs, CommitsOrNot(s)
  PROVE  GitOK' /\ Len(log) <= Len(log')
<1>1. CASE UNCHANGED git
  BY <1>1 DEF git, GitOK
<1>2. CASE Commits(s)
  <2>1. index' \in Trees /\ unmerged' = {} /\ Committed(index')
    BY <1>2 DEF Commits, GitOK, Trees
  <2> QED BY <2>1, CommittedGrows DEF GitOK
<1> QED BY <1>1, <1>2 DEF CommitsOrNot

\* What a revert puts into the files and into the index.
LEMMA RevertData ==
  ASSUME ArchiveTypeOK, HashKnown, NEW c \in Calls, Sound(call[c]), Revert(c)
  PROVE  file' \in Trees /\ GitOK' /\ log' = log
<1> DEFINE h == hash[call[c].run]
           changed == {s \in Slugs : log[h][s] # log[h - 1][s]}
           clashes == {s \in changed : index[s] \notin {log[h][s], log[h - 1][s]}}
<1>1. call[c].run \in Runs /\ h \in Nat /\ h > 1 /\ h <= Len(log)
  BY DEF Revert, At, Sound, Undoing, Over, HashKnown, ArchiveTypeOK
<1>2. log[h - 1] \in Trees /\ log[h] \in Trees
  BY <1>1 DEF ArchiveTypeOK, GitOK
<1>3. CASE UNCHANGED <<file, git>>
  BY <1>3 DEF git, ArchiveTypeOK, GitOK
<1>4. CASE /\ file' = [s \in Slugs |-> IF s \in clashes THEN Marked
                                       ELSE IF s \in changed THEN log[h - 1][s] ELSE file[s]]
           /\ index' = [s \in Slugs |-> IF s \in changed THEN file'[s] ELSE index[s]]
           /\ unmerged' = clashes
           /\ UNCHANGED log
  <2>1. file' \in Trees
    BY <1>2, <1>4 DEF ArchiveTypeOK, Trees, Content
  <2>2. index' \in Trees
    BY <1>4, <2>1 DEF ArchiveTypeOK, GitOK, Trees
  <2>3. clashes \subseteq Slugs
    OBVIOUS
  <2> HIDE DEF clashes
  <2> QED BY <1>4, <2>1, <2>2, <2>3 DEF ArchiveTypeOK, GitOK
<1> QED BY <1>3, <1>4 DEF Revert

LEMMA AbortsData ==
  ASSUME ArchiveTypeOK, Aborts
  PROVE  file' \in Trees /\ GitOK' /\ log' = log
<1>1. Tree \in Trees
  BY DEF ArchiveTypeOK, GitOK, Tree
<1>2. file' \in Trees
  BY <1>1 DEF Aborts, ArchiveTypeOK, Trees
<1> QED BY <1>1, <1>2 DEF Aborts, ArchiveTypeOK, GitOK

\* What a step does to the data: the rows keep their shape and none goes back to
\* where it has no row, the files and git hold contents, the history grows.
LEMMA StepData ==
  ASSUME ArchiveTypeOK, HashKnown, RowKnown, NEW c \in Calls, Step(c), Sound(call[c])
  PROVE  /\ RowsOK' /\ \A s \in Slugs : row'[s].state = "none" => row[s].state = "none"
         /\ file' \in Trees
         /\ GitOK' /\ Len(log) <= Len(log')
<1> DEFINE s == call[c].slug
           RowsStep == RowsOK' /\ \A u \in Slugs : row'[u].state = "none" => row[u].state = "none"
           GitStep == GitOK' /\ Len(log) <= Len(log')
<1>1. UNCHANGED git => GitStep
  BY DEF git, GitOK, ArchiveTypeOK
<1>2. UNCHANGED row => RowsStep
  BY DEF RowsOK, ArchiveTypeOK
<1>3. UNCHANGED file => file' \in Trees
  BY DEF ArchiveTypeOK
<1>4. call[c].text \in Content
  BY DEF ArchiveTypeOK, Requests
<1>5. ASSUME Write(c) \/ Make(c) \/ Unmake(c) \/ Unlink(c)
      PROVE  file' \in Trees /\ UNCHANGED <<row, git>>
  BY <1>4, <1>5 DEF Write, Make, Unmake, Unlink, ArchiveTypeOK, Trees, Content
<1>6. ASSUME NEW text \in Texts, NEW n \in Nat, NEW state \in {"live", "deleted"}, s \in Slugs,
             row' = [row EXCEPT ![s] = [state |-> state, text |-> text, rev |-> n]]
      PROVE  RowsStep
  BY <1>6, ContentAssumption DEF ArchiveTypeOK, RowsOK, Rows
<1>7. ASSUME s \in Slugs, row[s].state # "none"
      PROVE  /\ row[s].text \in Texts /\ row[s].rev + 1 \in Nat
             /\ row[s].state \in {"live", "deleted"}
             /\ \A text \in Texts : [row EXCEPT ![s].text = text, ![s].rev = @ + 1]
                   = [row EXCEPT ![s] = [state |-> row[s].state, text |-> text, rev |-> row[s].rev + 1]]
             /\ [row EXCEPT ![s].state = "deleted", ![s].rev = @ + 1]
                   = [row EXCEPT ![s] = [state |-> "deleted", text |-> row[s].text, rev |-> row[s].rev + 1]]
  BY <1>7 DEF ArchiveTypeOK, RowsOK, Rows
<1>8. ASSUME Save(c) \/ Reword(c) PROVE RowsStep /\ UNCHANGED <<file, git>>
  <2>1. s \in Slugs /\ call[c].text \in Texts /\ row[s].state # "none"
    BY <1>8 DEF Save, Reword, At, Sound, Writing, RowKnown
  <2>2. CASE row' = [row EXCEPT ![s].text = call[c].text, ![s].rev = @ + 1]
    <3>1. row' = [row EXCEPT ![s] = [state |-> row[s].state, text |-> call[c].text, rev |-> row[s].rev + 1]]
      BY <2>1, <2>2, <1>7
    <3>2. RowsStep
      BY <2>1, <3>1, <1>6, <1>7
    <3>3. UNCHANGED <<file, git>>
      BY <1>8 DEF Save, Reword
    <3> QED BY <3>2, <3>3
  <2>3. CASE UNCHANGED row
    BY <1>2, <2>3, <1>8 DEF Save, Reword
  <2> QED BY <1>8, <2>2, <2>3 DEF Save, Reword
<1>9. ASSUME Insert(c) PROVE RowsStep /\ UNCHANGED <<file, git>>
  <2>1. s \in Slugs /\ call[c].text \in Texts
    BY <1>9 DEF Insert, At, Sound, Writing
  <2>2. CASE row' = [row EXCEPT ![s] = [state |-> "live", text |-> call[c].text, rev |-> 1]]
    BY <2>1, <2>2, <1>6, <1>9 DEF Insert
  <2>3. CASE UNCHANGED row
    BY <1>2, <2>3, <1>9 DEF Insert
  <2> QED BY <1>9, <2>2, <2>3 DEF Insert
<1>10. ASSUME Drop(c) PROVE RowsStep /\ UNCHANGED <<file, git>>
  <2>1. s \in Slugs /\ row[s].state # "none"
    BY <1>10 DEF Drop, At, Sound, RowKnown
  <2> QED BY <2>1, <1>6, <1>7, <1>10 DEF Drop
<1>11. ASSUME Commit(c) PROVE GitStep /\ UNCHANGED <<row, file>>
  <2>1. s \in Slugs
    BY <1>11 DEF Commit, At, Sound, Writing
  <2> QED BY <2>1, <1>11, CommitsGrows DEF Commit, ArchiveTypeOK
<1>12. ASSUME GitRm(c) PROVE file' \in Trees /\ GitStep /\ UNCHANGED row
  <2>1. CASE UNCHANGED <<file, git>>
    BY <2>1, <1>1, <1>3, <1>12 DEF GitRm
  <2>2. CASE /\ file' = [file EXCEPT ![s] = None] /\ index' = [index EXCEPT ![s] = None]
             /\ unmerged' = {} /\ Committed(index')
    <3>1. file' \in Trees /\ index' \in Trees
      BY <2>2 DEF ArchiveTypeOK, GitOK, Trees, Content
    <3> QED BY <2>2, <3>1, <1>12, CommittedGrows DEF ArchiveTypeOK, GitOK, GitRm
  <2> QED BY <2>1, <2>2, <1>12 DEF GitRm
<1>13. ASSUME Revert(c) PROVE file' \in Trees /\ GitStep /\ UNCHANGED row
  <2>1. UNCHANGED row
    BY <1>13 DEF Revert
  <2>2. file' \in Trees /\ GitOK' /\ log' = log
    BY <1>13, RevertData
  <2> QED BY <2>1, <2>2 DEF ArchiveTypeOK, GitOK
<1>14. ASSUME FindPage(c) \/ ReadFile(c) PROVE file' \in Trees /\ GitStep /\ UNCHANGED row
  <2>1. UNCHANGED row /\ (Aborts \/ UNCHANGED <<file, git>>)
    BY <1>14 DEF FindPage, ReadFile
  <2> QED BY <2>1, <1>1, <1>3, AbortsData DEF ArchiveTypeOK, GitOK
<1>15. ASSUME Seal(c) PROVE GitStep /\ UNCHANGED <<row, file>>
  <2>1. CASE UNCHANGED git
    BY <2>1, <1>1, <1>15 DEF Seal
  <2>2. CASE index' = file /\ unmerged' = {} /\ Committed(index')
    BY <2>2, <1>15, CommittedGrows DEF Seal, ArchiveTypeOK, GitOK
  <2> QED BY <2>1, <2>2, <1>15 DEF Seal
<1>16. ASSUME Open(c) \/ Probe(c) \/ Lock(c) \/ Locked(c) \/ Skipped(c) \/ ReadHash(c) \/ Apply(c)
              \/ Link(c) \/ Finish(c) \/ WriteReject(c) \/ Mark(c)
       PROVE  UNCHANGED <<row, file, git>>
  BY <1>16 DEF Open, Probe, Lock, Locked, Skipped, ReadHash, Apply, Link, Finish, WriteReject, Mark, pageVars
<1> HIDE DEF RowsStep, GitStep
<1> QED BY <1>1, <1>2, <1>3, <1>5, <1>8, <1>9, <1>10, <1>11, <1>12, <1>13, <1>14, <1>15, <1>16 DEF Step, RowsStep, GitStep

-------------------------------------------------------------------------------
(* What the requests have in common *)

\* A step that is not a call's end leaves its lock; the others' turns are theirs.
LEMMA TurnStep ==
  ASSUME LockTypeOK, TurnFollows, ArchiveTypeOK, NEW c \in Calls, Step(c), Sound(call[c])
  PROVE  TurnFollows'
<1>0. Keeps(c) /\ Route(c) /\ call[c].at \notin Over
  BY Routes
<1> DEFINE Follows == /\ turn'[c] = "waiting" => call'[c].at = "queued"
                      /\ turn'[c] = "running" => /\ call'[c].op \in {"approve", "link"}
                                                 /\ call'[c].at \notin Over \cup {"asked", "queued"}
           Others == \A d \in Calls \ {c} : turn'[d] = turn[d]
<1>1. ASSUME Follows, Others PROVE TurnFollows'
  BY <1>0, <1>1 DEF TurnFollows, Keeps
<1>2. UNCHANGED lockVars => turn' = turn
  BY DEF lockVars
<1>3. ASSUME Throws(c), call[c].at # "queued" PROVE Follows /\ Others
  <2>1. CASE Linking(c)
    BY <1>3, <1>2, <2>1, GoesKeeps DEF Throws, To, Same, Linking, TurnFollows, ArchiveTypeOK, Over, Places
  <2>2. CASE ~Linking(c) /\ turn[c] = "running"
    BY <1>3, <2>2 DEF Throws, Leave, Settle, LockTypeOK
  <2>3. CASE ~Linking(c) /\ turn[c] # "running"
    BY <1>3, <1>2, <2>3 DEF Throws, TurnFollows
  <2> QED BY <2>1, <2>2, <2>3
<1> USE From DEF TurnFollows, Sound, To, Same, Stops, Linking, Over, Writing, Undoing
<1>4. ASSUME UNCHANGED lockVars, call'[c].at \in Writing, call'[c].op = call[c].op,
             call[c].at \in Writing
      PROVE  Follows /\ Others
  BY <1>2, <1>4
<1>5. CASE Open(c) \/ Save(c) \/ Insert(c)
  <2>1. CASE Throws(c)
    BY <2>1, <1>1, <1>3, <1>5
  <2>2. CASE ~Throws(c)
    <3>1. UNCHANGED lockVars
      BY <2>2, <1>5 DEF Open, Save, Insert
    <3>2. CASE Open(c)
      <4>1. call'[c].at = "write" /\ call'[c].op = call[c].op
        BY <2>2, <3>2 DEF Open, ArchiveTypeOK, Requests
      <4> QED BY <3>1, <3>2, <4>1, <1>1, <1>4
    <3>3. CASE Save(c) \/ Insert(c)
      <4>1. \E where \in {"commit", "unmake"} : Goes(c, where)
        BY <2>2, <3>3 DEF Save, Insert
      <4>2. call'[c].at \in {"commit", "unmake"} /\ call'[c].op = call[c].op
        BY <4>1 DEF Goes, ArchiveTypeOK, Requests
      <4> QED BY <3>1, <3>3, <4>2, <1>1, <1>4
    <3> QED BY <3>2, <3>3, <1>5
  <2> QED BY <2>1, <2>2
<1>7. CASE Revert(c) \/ FindPage(c) \/ ReadFile(c) \/ Seal(c)
  <2>1. CASE Throws(c)
    BY <2>1, <1>1, <1>3, <1>7
  <2>2. CASE ~Throws(c)
    <3>1. UNCHANGED lockVars
      BY <2>2, <1>7 DEF Revert, FindPage, ReadFile, Seal
    <3>2. turn[c] \notin {"waiting", "running"}
      BY <1>7
    <3> QED BY <3>1, <3>2, <1>1, <1>2
  <2> QED BY <2>1, <2>2
<1>8. CASE Commit(c)
  <2>1. UNCHANGED lockVars /\ call[c].at = "commit" /\ Written(c)
    BY <1>8 DEF Commit, At
  <2>2. CASE call[c].op = "link"
    <3>1. call'[c].at = "link" /\ call'[c].op = call[c].op
      BY <2>1, <2>2 DEF Written, Goes, ArchiveTypeOK, Requests
    <3> QED BY <2>1, <2>2, <3>1, <1>1, <1>2
  <2>3. CASE call[c].op = "approve"
    <3>1. call'[c].at = "hash" /\ call'[c].op = call[c].op
      BY <2>1, <2>3 DEF Written, Goes, ArchiveTypeOK, Requests
    <3> QED BY <2>1, <2>3, <3>1, <1>1, <1>2
  <2>4. CASE call[c].op \notin {"approve", "link"}
    BY <2>1, <2>4, <1>1, <1>2
  <2> QED BY <2>2, <2>3, <2>4
<1>9. CASE Drop(c) \/ Unlink(c) \/ GitRm(c) \/ WriteReject(c) \/ Reword(c) \/ Mark(c)
  BY <1>0, <1>1, <1>2, <1>9 DEF Route, Drop, Unlink, GitRm, WriteReject, Reword, Mark
<1>14. CASE Write(c)
  BY <1>0, <1>1, <1>2, <1>14 DEF Route, Write
<1>15. CASE Make(c)
  BY <1>0, <1>1, <1>2, <1>15 DEF Route, Make
<1>16. CASE Unmake(c)
  BY <1>0, <1>1, <1>2, <1>16 DEF Route, Unmake
<1>17. CASE Probe(c)
  BY <1>0, <1>1, <1>2, <1>17 DEF Route, Probe
<1>10. CASE ReadHash(c) \/ Apply(c) \/ Link(c)
  BY <1>0, <1>1, <1>2, <1>10 DEF Route, ReadHash, Apply, Link
<1>11. CASE Lock(c)
  BY <1>0, <1>1, <1>11 DEF Route, Lock, Acquire, LockTypeOK
<1>12. CASE Locked(c)
  BY <1>0, <1>1, <1>12 DEF Route, Locked, Enter, LockTypeOK
<1>13. CASE Skipped(c) \/ Finish(c)
  BY <1>0, <1>1, <1>13 DEF Route, Skipped, Skip, Finish, Leave, Settle, LockTypeOK
<1> QED BY <1>5, <1>7, <1>8, <1>9, <1>10, <1>11, <1>12, <1>13, <1>14, <1>15, <1>16, <1>17 DEF Step

\* What is known of the requests but c stays known.
LEMMA CallsKnown ==
  ASSUME ArchiveTypeOK, HashKnown, NEW c \in Calls, Keeps(c), Len(log') \in Nat, Len(log) <= Len(log'),
         \A d \in Calls : Sound(call[d]),
         \A r \in Runs : hash[r] > 1 => hash'[r] > 1
  PROVE  \A d \in Calls \ {c} :
            /\ call'[d].at = "apply" => 1 < call'[d].seen /\ call'[d].seen <= Len(log')
            /\ call'[d].at \in Undoing => hash'[call'[d].run] > 1
<1> SUFFICES ASSUME NEW d \in Calls \ {c}
             PROVE  /\ call'[d].at = "apply" => 1 < call'[d].seen /\ call'[d].seen <= Len(log')
                    /\ call'[d].at \in Undoing => hash'[call'[d].run] > 1
  OBVIOUS
<1>1. call'[d] = call[d] /\ call[d].seen \in Nat /\ Len(log) \in Nat
  BY DEF Keeps, ArchiveTypeOK, GitOK, Requests
<1>2. call[d].at \in Undoing => call[d].run \in Runs
  BY DEF Sound, Undoing, Over
<1> QED BY <1>1, <1>2 DEF HashKnown

LEMMA RunsStep ==
  ASSUME ArchiveTypeOK, HashKnown, RowKnown, NEW c \in Calls, Step(c), \A d \in Calls : Sound(call[d])
  PROVE  /\ status' \in [Runs -> {"PENDING", "APPLIED", "REJECTED", "REVERTED"}]
         /\ hash' \in [Runs -> Nat]
         /\ \A r \in Runs : status'[r] # status[r] => call[c].run = r
         /\ HashKnown'
<1>0. Keeps(c) /\ Route(c) /\ call[c].at \notin Over /\ GitOK' /\ Len(log) <= Len(log')
      /\ Len(log) \in Nat /\ Len(log) > 1 /\ Len(log') \in Nat
  BY Routes, StepData DEF ArchiveTypeOK, GitOK
<1>1. ASSUME UNCHANGED runVars,
             call'[c].at = "apply" => call'[c].seen = Len(log),
             call'[c].at \in Undoing => call[c].at \in Undoing
      PROVE  /\ status' \in [Runs -> {"PENDING", "APPLIED", "REJECTED", "REVERTED"}]
             /\ hash' \in [Runs -> Nat]
             /\ \A r \in Runs : status'[r] # status[r] => call[c].run = r
             /\ HashKnown'
  <2>1. status' = status /\ hash' = hash
    BY <1>1 DEF runVars
  <2>2. \A r \in Runs : hash'[r] <= Len(log') /\ (status'[r] \in {"APPLIED", "REVERTED"} => hash'[r] > 1)
    BY <1>0, <2>1 DEF HashKnown, ArchiveTypeOK
  <2>3. /\ call'[c].at = "apply" => 1 < call'[c].seen /\ call'[c].seen <= Len(log')
        /\ call'[c].at \in Undoing => hash'[call'[c].run] > 1
    BY <1>0, <1>1, <2>1 DEF HashKnown, Keeps
  <2>4. \A d \in Calls \ {c} :
          /\ call'[d].at = "apply" => 1 < call'[d].seen /\ call'[d].seen <= Len(log')
          /\ call'[d].at \in Undoing => hash'[call'[d].run] > 1
    BY <1>0, <2>1, CallsKnown
  <2>5. HashKnown'
    BY <2>2, <2>3, <2>4 DEF HashKnown
  <2> QED BY <2>1, <2>5 DEF ArchiveTypeOK
<1>2. CASE Apply(c)
  <2>1. /\ call[c].run \in Runs /\ call[c].seen \in Nat /\ 1 < call[c].seen /\ call[c].seen <= Len(log)
        /\ status' = [status EXCEPT ![call[c].run] = "APPLIED"]
        /\ hash' = [hash EXCEPT ![call[c].run] = call[c].seen]
        /\ call'[c].at = "link"
    BY <1>0, <1>2, From DEF Apply, Route, Sound, Over, HashKnown, ArchiveTypeOK, Requests
  <2>2. /\ status' \in [Runs -> {"PENDING", "APPLIED", "REJECTED", "REVERTED"}]
        /\ hash' \in [Runs -> Nat]
        /\ \A r \in Runs : status'[r] # status[r] => call[c].run = r
    BY <2>1 DEF ArchiveTypeOK
  <2>3. \A r \in Runs : /\ hash'[r] <= Len(log')
                        /\ status'[r] \in {"APPLIED", "REVERTED"} => hash'[r] > 1
                        /\ hash[r] > 1 => hash'[r] > 1
    BY <1>0, <2>1 DEF HashKnown, ArchiveTypeOK
  <2>4. \A d \in Calls \ {c} :
          /\ call'[d].at = "apply" => 1 < call'[d].seen /\ call'[d].seen <= Len(log')
          /\ call'[d].at \in Undoing => hash'[call'[d].run] > 1
    BY <1>0, <2>3, CallsKnown
  <2>5. call'[c].at \notin Undoing \cup {"apply"}
    BY <2>1 DEF Undoing
  <2>6. HashKnown'
    BY <2>3, <2>4, <2>5 DEF HashKnown
  <2> QED BY <2>2, <2>6
<1>3. CASE Mark(c) \/ WriteReject(c)
  <2>1. PICK word \in {"REVERTED", "REJECTED"} :
          /\ status' = [status EXCEPT ![call[c].run] = word]
          /\ word = "REVERTED" => call[c].at \in Undoing
    BY <1>3, From DEF Mark, WriteReject, Undoing
  <2>2. call[c].run \in Runs /\ hash' = hash /\ call'[c].at \in {"done", "failed"} 
    BY <1>0, <1>3, From DEF Route, Stops, Linking, Mark, WriteReject, Sound, Over, Undoing
  <2>3. /\ status' \in [Runs -> {"PENDING", "APPLIED", "REJECTED", "REVERTED"}]
        /\ \A r \in Runs : status'[r] # status[r] => call[c].run = r
    BY <2>1, <2>2 DEF ArchiveTypeOK
  <2>4. \A r \in Runs : /\ hash'[r] <= Len(log')
                        /\ status'[r] \in {"APPLIED", "REVERTED"} => hash'[r] > 1
                        /\ hash[r] > 1 => hash'[r] > 1
    BY <1>0, <2>1, <2>2 DEF HashKnown, ArchiveTypeOK
  <2>5. hash' \in [Runs -> Nat] /\ call'[c].at \notin Undoing \cup {"apply"}
    BY <2>2 DEF ArchiveTypeOK, Undoing
  <2>6. \A d \in Calls \ {c} :
          /\ call'[d].at = "apply" => 1 < call'[d].seen /\ call'[d].seen <= Len(log')
          /\ call'[d].at \in Undoing => hash'[call'[d].run] > 1
    BY <1>0, <2>4, CallsKnown
  <2>7. HashKnown'
    BY <2>4, <2>5, <2>6 DEF HashKnown
  <2> QED BY <2>3, <2>5, <2>7
<1>4. ASSUME ~Apply(c), ~Mark(c), ~WriteReject(c)
      PROVE  /\ UNCHANGED runVars
             /\ call'[c].at = "apply" => call'[c].seen = Len(log)
             /\ call'[c].at \in Undoing => call[c].at \in Undoing
  <2>1. UNCHANGED runVars
    BY <1>4 DEF Step, pageVars, Open, Write, Save, Commit, Probe, Make, Insert, Unmake, Drop, Unlink,
       GitRm, Lock, Locked, Skipped, ReadHash, Link, Finish, Revert, FindPage, ReadFile, Seal, Reword
  <2>2. call'[c].at = "apply" => call'[c].seen = Len(log)
    BY <1>0, <1>4 DEF Step, Route, To, Stops
  <2>3. call'[c].at \in Undoing => call[c].at \in Undoing
    BY <1>0, <1>4, From DEF Step, Route, To, Stops, Undoing
  <2> QED BY <2>1, <2>2, <2>3
<1> HIDE DEF HashKnown
<1> QED BY <1>1, <1>2, <1>3, <1>4

LEMMA RowKnownStep ==
  ASSUME ArchiveTypeOK, HashKnown, RowKnown, NEW c \in Calls, Step(c), \A d \in Calls : Sound(call[d])
  PROVE  RowKnown'
<1>0. Keeps(c) /\ Route(c)
      /\ \A s \in Slugs : row'[s].state = "none" => row[s].state = "none"
  BY Routes, StepData
<1>1. \A d \in Calls \ {c} :
        /\ call'[d].at \in {"write", "save", "drop", "seal", "reword"} => row'[call'[d].slug].state # "none"
        /\ call'[d].at = "read" => row'[Target[call'[d].run]].state # "none"
  BY <1>0, RunAssumption DEF RowKnown, Keeps, Sound, Writing, Undoing, Over
<1>2. call'[c].at \in {"write", "save", "drop", "seal", "reword"} =>
        call'[c].slug \in Slugs /\ row[call'[c].slug].state # "none"
  <2> USE <1>0, From, RunAssumption DEF To, Same, Stops, Keeps, RowKnown, Sound, Writing, Undoing, Over
  <2>1. CASE Open(c)
    <3>1. CASE Throws(c)
      BY <3>1, ThrowsKeeps DEF ArchiveTypeOK
    <3>2. CASE ~Throws(c)
      BY <2>1, <3>2 DEF Open, Route
    <3> QED BY <3>1, <3>2
  <2>2. CASE Write(c) \/ Save(c) \/ Commit(c)
    BY <2>2 DEF Route
  <2>3. CASE Probe(c) \/ Make(c) \/ Insert(c) \/ Unmake(c) \/ Drop(c) \/ Unlink(c) \/ GitRm(c)
    BY <2>3 DEF Route
  <2>4. CASE Lock(c) \/ Locked(c) \/ Skipped(c) \/ ReadHash(c) \/ Apply(c) \/ Link(c) \/ Finish(c)
    BY <2>4 DEF Route
  <2>5. CASE Revert(c) \/ FindPage(c) \/ ReadFile(c)
    BY <2>5 DEF Route
  <2>6. CASE Seal(c) \/ Reword(c) \/ Mark(c) \/ WriteReject(c)
    BY <2>6 DEF Route
  <2> QED BY <2>1, <2>2, <2>3, <2>4, <2>5, <2>6 DEF Step
<1>3. call'[c].at = "read" =>
        Target[call'[c].run] \in Slugs /\ row[Target[call'[c].run]].state # "none"
  BY <1>0, From, RunAssumption DEF Step, Route, To, Stops, Keeps, Sound, Undoing, Over
<1> QED BY <1>0, <1>1, <1>2, <1>3 DEF RowKnown

LEMMA AskInv ==
  ASSUME ArchiveInv, NEW c \in Calls, Ask(c)
  PROVE  ArchiveInv'
<1>1. /\ Own(c) /\ call[c].at = "idle" /\ Fresh(call'[c])
      /\ UNCHANGED <<turn, row, file, index, log, unmerged, status, hash>>
  BY AskOwn DEF ArchiveInv, lockVars, pageVars, git, runVars
<1>2. ArchiveTypeOK'
  BY <1>1 DEF ArchiveInv, ArchiveTypeOK, RowsOK, GitOK, Own
<1>3. \A d \in Calls : Sound(call'[d])
  BY <1>1 DEF ArchiveInv, Own
<1>4. HashKnown'
  <2>1. \A d \in Calls \ {c} : call'[d] = call[d]
    BY <1>1 DEF Own
  <2>2. call'[c].at # "apply" /\ (call'[c].at \in Undoing => hash[call'[c].run] > 1)
    BY <1>1, ContentAssumption DEF Fresh, Undoing, ArchiveInv, HashKnown, Sound, Over
  <2> QED BY <1>1, <2>1, <2>2 DEF ArchiveInv, HashKnown
<1>5. RowKnown'
  BY <1>1 DEF ArchiveInv, RowKnown, Own, Fresh
<1>6. TurnFollows'
  BY <1>1 DEF ArchiveInv, TurnFollows, Own, Over
<1> QED BY <1>2, <1>3, <1>4, <1>5, <1>6 DEF ArchiveInv

LEMMA StepInv ==
  ASSUME ArchiveInv, LockTypeOK, NEW c \in Calls, Step(c)
  PROVE  ArchiveInv'
<1>1. Keeps(c) /\ Sound(call'[c])
  BY Routes, StepSound DEF ArchiveInv
<1>2. ArchiveTypeOK'
  BY <1>1, StepData, RunsStep DEF ArchiveInv, ArchiveTypeOK, Keeps
<1>3. \A d \in Calls : Sound(call'[d])
  BY <1>1 DEF ArchiveInv, Keeps
<1>4. HashKnown' /\ RowKnown' /\ TurnFollows'
  BY RunsStep, RowKnownStep, TurnStep DEF ArchiveInv
<1> QED BY <1>2, <1>3, <1>4 DEF ArchiveInv

LEMMA RestartInv ==
  ASSUME ArchiveInv, LockTypeOK, Restart
  PROVE  ArchiveInv'
<1> DEFINE lost == {c \in Calls : call[c].at \notin Over}
<1>1. /\ call' = [c \in Calls |-> IF c \in lost THEN Ended(c, "failed") ELSE call[c]]
      /\ UNCHANGED <<row, file, index, log, unmerged, status, hash>>
      /\ turn' = [c \in Calls |-> IF turn[c] \in {"waiting", "running"} THEN "failed" ELSE turn[c]]
  BY DEF Restart, Crash, git, runVars
<1>2. \A c \in Calls : Ended(c, "failed") \in Requests /\ Ended(c, "failed").at = "failed"
  BY DEF ArchiveInv, ArchiveTypeOK, Ended, Idle, Requests, Places, Over, Content
<1>3. \A c \in Calls : call'[c] \in Requests /\ call'[c].at \in Over
  BY <1>1, <1>2 DEF ArchiveInv, ArchiveTypeOK, Over
<1>4. ArchiveTypeOK'
  BY <1>1, <1>3 DEF ArchiveInv, ArchiveTypeOK, RowsOK, GitOK
<1>5. \A c \in Calls : Sound(call'[c])
  BY <1>3 DEF Sound, Over, Writing, Undoing
<1>6. HashKnown' /\ RowKnown' /\ TurnFollows'
  BY <1>1, <1>3 DEF ArchiveInv, HashKnown, RowKnown, TurnFollows, Over, Undoing
<1> QED BY <1>4, <1>5, <1>6 DEF ArchiveInv

LEMMA ArchiveStep == ArchiveInv /\ LockTypeOK /\ [Next]_vars => ArchiveInv'
<1> SUFFICES ASSUME ArchiveInv, LockTypeOK, [Next]_vars PROVE ArchiveInv'
  OBVIOUS
<1>1. CASE Rest \/ UNCHANGED vars
  <2>1. UNCHANGED <<turn, row, file, index, log, unmerged, status, hash, call>>
    BY <1>1 DEF Rest, vars, lockVars, pageVars, git, runVars
  <2> QED BY <2>1 DEF ArchiveInv, ArchiveTypeOK, RowsOK, GitOK, HashKnown, RowKnown, TurnFollows
<1>2. CASE Restart
  BY <1>2, RestartInv
<1>3. ASSUME NEW c \in Calls, Ask(c) \/ Step(c) PROVE ArchiveInv'
  BY <1>3, AskInv, StepInv
<1> QED BY <1>1, <1>2, <1>3 DEF Next

\* The lock of the requests is the lock of PageLock.
THEOREM LockOfPages == Spec => LockSpec /\ []LockInv /\ []ArchiveInv
<1>1. Init => LockInit /\ LockInv /\ ArchiveInv
  BY ArchiveInit, InitInv DEF Init
<1>2. LockInv => LockTypeOK
  BY DEF LockInv
<1> QED BY <1>1, <1>2, ArchiveStep, StepLocks, LockStep, PTL DEF Spec, LockSpec

\* The chain of promises is first come, first served, and its lines move, whatever
\* the requests do between its steps.
THEOREM PagesFifo == Spec => FifoOrder
BY LockOfPages, ChainIsFifo

\* Whoever queues for a page has a call of that page running before it, or is next.
THEOREM PagesMove == Spec => []LineMoves
BY LockOfPages, LinesMove

\* Types, and: who runs under a lock is an approval, and a run that is applied has
\* a commit (applyWikiEdit).
THEOREM PageTypes == Spec => []PageTypeOK
<1>1. ArchiveInv => PageTypeOK
  <2> SUFFICES ASSUME ArchiveInv PROVE PageTypeOK
    OBVIOUS
  <2>1. \A s \in Slugs : /\ row[s].state \in {"none", "live", "deleted"}
                         /\ row[s].text \in Texts \cup {None}
                         /\ (row[s].state = "none") = (row[s].text = None)
                         /\ file[s] \in Texts \cup {None, Marked}
    BY DEF ArchiveInv, ArchiveTypeOK, RowsOK, Rows, Trees, Content
  <2>2. \A r \in Runs : hash[r] \in 0 .. Len(log)
    BY DEF ArchiveInv, ArchiveTypeOK, GitOK, HashKnown
  <2> QED BY <2>1, <2>2 DEF PageTypeOK, ArchiveInv, ArchiveTypeOK, GitOK, HashKnown, TurnFollows
<1> QED BY <1>1, LockOfPages, PTL

-------------------------------------------------------------------------------
(* Verdicts *)

\* While a run rests, no request for it is under way and none is made.
LEMMA VerdictStep ==
  ASSUME ArchiveInv, [Next]_vars, NEW r \in Runs, Judged(r)
  PROVE  Judged(r)' /\ status'[r] = status[r]
<1>1. CASE Rest \/ UNCHANGED vars
  BY <1>1 DEF Rest, vars, pageVars, runVars, Judged
<1>2. CASE Restart
  BY <1>2 DEF Restart, runVars, Judged, Ended, Idle, Over
<1>3. ASSUME NEW c \in Calls, Ask(c) PROVE Judged(r)' /\ status'[r] = status[r]
  <2>1. Own(c) /\ Fresh(call'[c]) /\ status' = status
    BY <1>3, AskOwn DEF ArchiveInv, pageVars, runVars
  <2>2. call'[c].run # r
    BY <2>1, ContentAssumption DEF Fresh, Judged
  <2> QED BY <2>1, <2>2 DEF Judged, Own
<1>4. ASSUME NEW c \in Calls, Step(c) PROVE Judged(r)' /\ status'[r] = status[r]
  <2>1. Keeps(c) /\ call[c].at \notin Over /\ (status'[r] # status[r] => call[c].run = r)
    BY <1>4, Routes, RunsStep DEF ArchiveInv
  <2> QED BY <2>1 DEF Judged, Keeps
<1> QED BY <1>1, <1>2, <1>3, <1>4 DEF Next

\* The verdict on a proposed edit rests, for any requests: the status is written
\* by a request that read it before, and none is left when the last one has ended.
THEOREM VerdictsRest == Spec => VerdictRests
<1>1. ArchiveInv /\ [Next]_vars => [\A r \in Runs : Judged(r) => Judged(r)' /\ status'[r] = status[r]]_vars
  BY VerdictStep
<1> QED BY <1>1, LockOfPages, PTL DEF Spec, VerdictRests

-------------------------------------------------------------------------------
(* What the page lock protects *)

\* c holds the lock of the page it is about to write.
Holds(c) == turn[c] = "running" /\ key[c] = call[c].slug

\* It has written the file of the page and not the row.
Between(c, s) == Holds(c) /\ call[c].slug = s /\ call[c].at \in {"save", "insert"}

\* A page that nobody wrote without its lock, with the lock in the hand of c, is as
\* c saw it, until c writes it.
Guarded(c) ==
  Holds(c) /\ call[c].slug \notin loose =>
    /\ call[c].at \in {"write", "save"} => row[call[c].slug].rev = call[c].seen
    /\ call[c].at \in {"make", "insert"} => row[call[c].slug].state = "none"
    /\ call[c].at \in {"save", "insert"} => file[call[c].slug] = call[c].text

\* A request that goes back to the page it wrote had the lock, or the page is known
\* as one that was written without it.
Noted(c) ==
  /\ call[c].at \in {"save", "insert"} /\ ~Holds(c) => call[c].slug \in loose
  /\ call[c].at \in {"unmake", "unlink", "rm"} => call[c].slug \in loose

\* An approval writes the page that it locked; a creation may be given another slug,
\* and then the page that it locked is known as such, too.
Aimed(c) ==
  /\ call[c].at = "queued" => key[c] = Target[call[c].run]
  /\ turn[c] = "running" /\ call[c].op = "approve" =>
       /\ call[c].at \in {"open", "write", "save"} => call[c].slug = key[c]
       /\ call[c].at \in {"insert", "unmake"} => call[c].slug = key[c] \/ key[c] \in loose

\* Nothing under its lock is promised to a call for such a page.
Lost(p) == p \in loose \/ p \notin Live \/ row[p].state = "deleted"

WriteInv ==
  /\ \A c \in Calls : Guarded(c) /\ Noted(c) /\ Aimed(c)
  /\ \A c \in Calls : turn[c] = "failed" => Lost(key[c])
  /\ \A s \in Live : row[s].state # "none"
  /\ \A s \in Slugs \ loose : file[s] = row[s].text \/ \E c \in Calls : Between(c, s)

LEMMA WriteInit == Init => WriteInv
<1> SUFFICES ASSUME Init PROVE WriteInv
  OBVIOUS
<1>1. \A c \in Calls : call[c].at = "idle" /\ turn[c] = "idle"
  BY DEF Init, LockInit, Idle
<1>2. \A c \in Calls : Guarded(c) /\ Noted(c) /\ Aimed(c)
  BY <1>1 DEF Guarded, Noted, Aimed, Holds
<1>3. \A s \in Slugs : file[s] = row[s].text /\ (s \in Live => row[s].state # "none")
  BY DEF Init
<1> QED BY <1>1, <1>2, <1>3, RunAssumption DEF WriteInv

\* The lock is the business of the request that steps.
LEMMA StepTurns ==
  ASSUME LockTypeOK, NEW c \in Calls, Step(c)
  PROVE  /\ \A d \in Calls \ {c} : turn'[d] = turn[d] /\ key'[d] = key[d]
         /\ key'[c] = key[c] \/ Lock(c)
         /\ turn'[c] = "running" => turn[c] = "running" \/ Locked(c)
         /\ turn'[c] = "failed" => \/ turn[c] = "failed" \/ Skipped(c)
                                   \/ Throws(c) /\ ~Linking(c) /\ turn[c] = "running"
<1> DEFINE Goal == /\ \A d \in Calls \ {c} : turn'[d] = turn[d] /\ key'[d] = key[d]
                   /\ key'[c] = key[c] \/ Lock(c)
                   /\ turn'[c] = "running" => turn[c] = "running" \/ Locked(c)
                   /\ turn'[c] = "failed" => \/ turn[c] = "failed" \/ Skipped(c)
                                             \/ Throws(c) /\ ~Linking(c) /\ turn[c] = "running"
<1>1. UNCHANGED lockVars => Goal
  BY DEF lockVars
<1>2. ASSUME Throws(c) PROVE Goal
  <2>1. CASE ~Linking(c) /\ turn[c] = "running"
    BY <1>2, <2>1 DEF Throws, Leave, Settle, LockTypeOK
  <2>2. CASE ~(~Linking(c) /\ turn[c] = "running")
    BY <1>1, <1>2, <2>2 DEF Throws
  <2> QED BY <2>1, <2>2
<1>3. ASSUME Open(c) \/ Save(c) \/ Insert(c) \/ Revert(c) \/ FindPage(c) \/ ReadFile(c) \/ Seal(c)
      PROVE  Throws(c) \/ UNCHANGED lockVars
  BY <1>3 DEF Open, Save, Insert, Revert, FindPage, ReadFile, Seal
<1>4. ASSUME Write(c) \/ Commit(c) \/ Probe(c) \/ Make(c) \/ Unmake(c) \/ Drop(c) \/ Unlink(c) \/ GitRm(c)
             \/ ReadHash(c) \/ Apply(c) \/ Link(c) \/ WriteReject(c) \/ Reword(c) \/ Mark(c)
      PROVE  UNCHANGED lockVars
  BY <1>4 DEF Write, Commit, Probe, Make, Unmake, Drop, Unlink, GitRm, ReadHash, Apply, Link,
              WriteReject, Reword, Mark
<1>5. ASSUME Lock(c) \/ Locked(c) PROVE Goal
  BY <1>5 DEF Lock, Locked, Acquire, Enter, LockTypeOK
<1>6. ASSUME Skipped(c) \/ Finish(c) PROVE Goal
  BY <1>6 DEF Skipped, Skip, Finish, Leave, Settle, LockTypeOK
<1> HIDE DEF Goal
<1>7. Goal
  BY <1>1, <1>2, <1>3, <1>4, <1>5, <1>6 DEF Step
<1> QED BY <1>7 DEF Goal

\* A step touches the row and the file of a page only as a holder of its lock,
\* between the reading and the writing, or the page is known as loose from there.
LEMMA StepTouches ==
  ASSUME ArchiveInv, WriteInv, NEW c \in Calls, Step(c)
  PROVE  /\ loose \subseteq loose'
         /\ \A s \in Slugs \ loose' :
              \/ row'[s] = row[s] /\ file'[s] = file[s]
              \/ s = call[c].slug /\ Holds(c) /\ call[c].at \in {"write", "save", "make", "insert"}
         /\ \A s \in Slugs : row[s].state = "deleted" => row'[s].state = "deleted"
<1> DEFINE s == call[c].slug
           Grows == loose \subseteq loose'
           Touches == \A u \in Slugs \ loose' :
                        \/ row'[u] = row[u] /\ file'[u] = file[u]
                        \/ u = s /\ Holds(c) /\ call[c].at \in {"write", "save", "make", "insert"}
           Stays == \A u \in Slugs : row[u].state = "deleted" => row'[u].state = "deleted"
<1>0. row \in [Slugs -> Rows] /\ file \in Trees /\ Sound(call[c])
      /\ Noted(c) /\ (turn[c] = "running" => call[c].op \in {"approve", "link"})
  BY DEF ArchiveInv, ArchiveTypeOK, RowsOK, WriteInv, TurnFollows
<1>1. loose' = Loosened(c, s) => Grows /\ (s \in loose' \/ Holds(c))
  BY DEF Loosened, Holds
<1>2. CASE Write(c) \/ Make(c)
  <2>1. file' = [file EXCEPT ![s] = call[c].text] /\ row' = row /\ loose' = Loosened(c, s)
        /\ call[c].at \in {"write", "make"}
    BY <1>2 DEF Write, Make, At
  <2> QED BY <1>0, <1>1, <2>1 DEF Trees
<1>3. CASE Save(c) \/ Insert(c)
  <2>1. /\ \A u \in Slugs \ {s} : row'[u] = row[u]
        /\ \A u \in Slugs : row[u].state = "deleted" => row'[u].state = "deleted"
        /\ file' = file /\ loose' = loose /\ call[c].at \in {"save", "insert"}
    BY <1>0, <1>3 DEF Save, Insert, At, Rows
  <2> QED BY <1>0, <2>1 DEF Noted
<1>4. CASE Unmake(c) \/ Unlink(c) \/ GitRm(c)
  <2>1. /\ \A u \in Slugs \ {s} : file'[u] = file[u]
        /\ row' = row /\ loose' = loose /\ s \in loose
    BY <1>0, <1>4, From DEF Unmake, Unlink, GitRm, Noted, Trees
  <2> QED BY <2>1
<1>5. CASE Drop(c) \/ Reword(c)
  <2>1. /\ \A u \in Slugs \ {s} : row'[u] = row[u]
        /\ \A u \in Slugs : row[u].state = "deleted" => row'[u].state = "deleted"
        /\ file' = file /\ loose' = Loosened(c, s)
    BY <1>0, <1>5 DEF Drop, Reword, Rows
  <2>2. turn[c] # "running"
    BY <1>0, <1>5, From DEF Sound, Undoing
  <2> QED BY <1>1, <2>1, <2>2 DEF Holds
<1>6. CASE Revert(c)
  <2>1. CASE UNCHANGED <<file, git, loose>>
    BY <1>6, <2>1 DEF Revert
  <2>2. CASE ~UNCHANGED <<file, git, loose>>
    <3> DEFINE h == hash[call[c].run]
               changed == {u \in Slugs : log[h][u] # log[h - 1][u]}
               clashes == {u \in changed : index[u] \notin {log[h][u], log[h - 1][u]}}
    <3>1. /\ file' = [u \in Slugs |-> IF u \in clashes THEN Marked
                                      ELSE IF u \in changed THEN log[h - 1][u] ELSE file[u]]
          /\ loose' = loose \cup changed /\ row' = row
      BY <1>6, <2>2 DEF Revert
    <3>2. clashes \subseteq changed
      OBVIOUS
    <3> HIDE DEF clashes, changed
    <3> QED BY <3>1, <3>2
  <2> QED BY <2>1, <2>2
<1>7. CASE FindPage(c) \/ ReadFile(c)
  <2>1. row' = row /\ (Aborts \/ UNCHANGED <<file, loose>>)
    BY <1>7 DEF FindPage, ReadFile
  <2>2. Aborts => loose' = loose \cup {u \in Slugs : file'[u] # file[u]}
    BY DEF Aborts
  <2> QED BY <2>1, <2>2
<1>8. CASE Open(c) \/ Commit(c) \/ Probe(c) \/ Lock(c) \/ Locked(c) \/ Skipped(c) \/ ReadHash(c) \/ Apply(c)
           \/ Link(c) \/ Finish(c) \/ WriteReject(c) \/ Mark(c) \/ Seal(c)
  <2>1. UNCHANGED <<row, file, loose>>
    BY <1>8 DEF Open, Commit, Probe, Lock, Locked, Skipped, ReadHash, Apply, Link, Finish,
       WriteReject, Mark, Seal, pageVars
  <2> QED BY <2>1
<1>9. Grows /\ Touches /\ Stays
  BY <1>2, <1>3, <1>4, <1>5, <1>6, <1>7, <1>8 DEF Step
<1> QED BY <1>9

\* The pages of the others are out of reach, or known as loose.
LEMMA OthersKeep ==
  ASSUME ArchiveInv, WriteInv, LockInv, NEW c \in Calls, Step(c), NEW d \in Calls \ {c}
  PROVE  Guarded(d)' /\ Noted(d)' /\ Aimed(d)'
<1>1. /\ call'[d] = call[d] /\ turn'[d] = turn[d] /\ key'[d] = key[d] /\ loose \subseteq loose'
      /\ Sound(call[d]) /\ Guarded(d) /\ Noted(d) /\ Aimed(d)
  BY Routes, StepTurns, StepTouches DEF Keeps, LockInv, ArchiveInv, WriteInv
<1>2. Holds(d)' <=> Holds(d)
  BY <1>1 DEF Holds
<1>3. Noted(d)' /\ Aimed(d)'
  BY <1>1, <1>2 DEF Noted, Aimed
<1>4. ASSUME Holds(d), call[d].slug \notin loose', call[d].at \in Writing
      PROVE  row'[call[d].slug] = row[call[d].slug] /\ file'[call[d].slug] = file[call[d].slug]
  <2>1. call[d].slug \in Slugs \ loose'
    BY <1>1, <1>4 DEF Sound
  <2>2. ~(call[d].slug = call[c].slug /\ Holds(c))
    BY <1>4, Alone DEF Holds
  <2> QED BY <2>1, <2>2, StepTouches
<1>5. Guarded(d)'
  BY <1>1, <1>2, <1>4 DEF Guarded, Writing
<1> QED BY <1>3, <1>5

\* The request that steps reads the row after it has the lock, and writes the file
\* before the row.
LEMMA OwnKeeps ==
  ASSUME ArchiveInv, WriteInv, LockInv, NEW c \in Calls, Step(c)
  PROVE  Guarded(c)' /\ Noted(c)' /\ Aimed(c)'
<1>0. /\ Keeps(c) /\ Route(c) /\ loose \subseteq loose' /\ Sound(call[c])
      /\ key'[c] = key[c] \/ Lock(c)
      /\ turn'[c] = "running" => turn[c] = "running" \/ Locked(c)
      /\ Guarded(c) /\ Noted(c) /\ Aimed(c)
      /\ turn[c] = "running" => call[c].op \in {"approve", "link"}
  BY Routes, StepTurns, StepTouches DEF LockInv, ArchiveInv, WriteInv, TurnFollows
<1>1. ASSUME call'[c].at \notin {"queued", "open", "write", "save", "make", "insert", "unmake", "unlink", "rm"}
      PROVE  Guarded(c)' /\ Noted(c)' /\ Aimed(c)'
  BY <1>1 DEF Guarded, Noted, Aimed
<1>2. CASE Stops(c)
  BY <1>1, <1>2 DEF Stops
<1>3. CASE Open(c)
  <2>1. CASE Throws(c)
    BY <1>2, <2>1, ThrowsKeeps DEF ArchiveInv, ArchiveTypeOK
  <2>2. CASE ~Throws(c)
    <3>1. UNCHANGED <<turn, key, row, loose>> /\ call[c].at = "open"
      BY <1>3, <2>2, From DEF Open, lockVars, pageVars
    <3>2. CASE Stops(c)
      BY <1>2, <3>2
    <3>3. CASE call'[c].at = "write" /\ Same(c) /\ call'[c].seen = row[call[c].slug].rev
      BY <1>0, <3>1, <3>3 DEF Guarded, Noted, Aimed, Same
    <3> QED BY <1>0, <1>3, <3>2, <3>3 DEF Route
  <2> QED BY <2>1, <2>2
<1>4. CASE Write(c) \/ Make(c)
  <2>1. /\ \/ To(c, "save") /\ call[c].at = "write"
           \/ To(c, "insert") /\ call[c].at = "make"
        /\ UNCHANGED <<turn, key, row>> /\ loose' = Loosened(c, call[c].slug)
        /\ file'[call[c].slug] = call[c].text
    <3>1. \/ To(c, "save") /\ call[c].at = "write"
          \/ To(c, "insert") /\ call[c].at = "make"
      <4>1. CASE Write(c)
        <5>1. call[c].at = "write"
          BY <4>1, From
        <5>2. To(c, "save")
          BY <1>0, <4>1 DEF Route
        <5> QED BY <5>1, <5>2
      <4>2. CASE Make(c)
        <5>1. call[c].at = "make"
          BY <4>2, From
        <5>2. To(c, "insert")
          BY <1>0, <4>2 DEF Route
        <5> QED BY <5>1, <5>2
      <4> QED BY <1>4, <4>1, <4>2
    <3>2. /\ UNCHANGED <<turn, key, row>> /\ loose' = Loosened(c, call[c].slug)
          /\ file' = [file EXCEPT ![call[c].slug] = call[c].text]
      <4>1. CASE Write(c)
        BY <4>1 DEF Write, lockVars
      <4>2. CASE Make(c)
        BY <4>2 DEF Make, lockVars
      <4> QED BY <1>4, <4>1, <4>2
    <3>3. call[c].slug \in Slugs /\ file \in Trees
      BY <1>0, <3>1 DEF Sound, Writing, ArchiveInv, ArchiveTypeOK
    <3> QED BY <3>1, <3>2, <3>3 DEF Trees
  <2>2. Holds(c)' <=> Holds(c)
    BY <2>1 DEF Holds, To, Same
  <2>3. Guarded(c)'
    BY <1>0, <2>1, <2>2 DEF Guarded, To, Same
  <2>4. Noted(c)' /\ Aimed(c)'
    BY <1>0, <2>1, <2>2 DEF Noted, Aimed, Holds, Loosened, Linking, To, Same
  <2> QED BY <2>3, <2>4
<1>5. CASE Probe(c)
  <2>1. /\ call'[c].at = "make" /\ row[call'[c].slug].state = "none"
        /\ UNCHANGED <<turn, key, row, loose>>
    BY <1>0, <1>5 DEF Route, Probe, lockVars, pageVars
  <2> QED BY <2>1 DEF Guarded, Noted, Aimed
<1>6. CASE Insert(c)
  <2>1. CASE To(c, "commit")
    BY <1>1, <2>1 DEF To
  <2>2. CASE To(c, "unmake")
    <3>1. row[call[c].slug].state # "none" /\ call[c].at = "insert" /\ UNCHANGED <<turn, key, loose>>
      <4>1. call'[c].at # "commit" /\ call'[c].at = "unmake"
        BY <2>2 DEF To
      <4>2. ~Throws(c) /\ ~Goes(c, "commit")
        BY <4>1, ThrowsKeeps, GoesKeeps DEF Stops, To, Places, Writing, ArchiveInv, ArchiveTypeOK
      <4> QED BY <1>6, <4>2, From DEF Insert, lockVars
    <3>2. call[c].slug \in loose
      BY <1>0, <3>1 DEF Guarded, Noted
    <3> QED BY <1>0, <2>2, <3>1, <3>2 DEF Guarded, Noted, Aimed, To, Same
  <2> QED BY <1>0, <1>2, <1>6, <2>1, <2>2 DEF Route
<1>7. CASE Drop(c) \/ Unlink(c)
  <2>1. CASE To(c, "unlink") \/ To(c, "rm")
    <3>1. call[c].slug \in loose' /\ turn[c] # "running" /\ UNCHANGED <<turn, key>>
      BY <1>0, <1>7, From DEF Drop, Unlink, Loosened, Noted, Sound, lockVars
    <3> QED BY <2>1, <3>1 DEF To, Same, Guarded, Noted, Aimed, Holds
  <2> QED BY <1>0, <1>2, <1>7, <2>1 DEF Route
<1>8. CASE Lock(c)
  <2>1. To(c, "queued") /\ turn'[c] = "waiting" /\ key'[c] = Target[call[c].run]
    BY <1>0, <1>8 DEF Route, Lock, Acquire, LockInv, LockTypeOK
  <2> QED BY <1>0, <2>1 DEF To, Guarded, Noted, Aimed, Holds, Keeps
<1>9. CASE Locked(c)
  <2>1. /\ call'[c].at \in {"probe", "open"} /\ call'[c].slug = Target[call[c].run]
        /\ key'[c] = key[c] /\ call[c].at = "queued"
    BY <1>0, <1>9, From DEF Route, Locked, Enter
  <2> QED BY <1>0, <2>1 DEF Guarded, Noted, Aimed
<1>10. CASE Link(c)
  <2>1. call'[c].at \in {"link", "open"} /\ call'[c].op = "link"
    BY <1>0, <1>10, From DEF Route, Sound
  <2> QED BY <2>1 DEF Guarded, Noted, Aimed
<1>11. CASE Save(c) \/ Commit(c) \/ ReadHash(c) \/ Apply(c) \/ GitRm(c) \/ Skipped(c) \/ Finish(c) \/ WriteReject(c)
  BY <1>0, <1>1, <1>2, <1>11 DEF Route, To
<1>12. CASE Revert(c) \/ FindPage(c) \/ ReadFile(c) \/ Seal(c) \/ Reword(c) \/ Mark(c)
  BY <1>0, <1>1, <1>2, <1>12 DEF Route, To
<1>13. CASE Unmake(c)
  BY <1>0, <1>1, <1>13 DEF Route, To
<1> QED BY <1>3, <1>4, <1>5, <1>6, <1>7, <1>8, <1>9, <1>10, <1>11, <1>12, <1>13 DEF Step

\* A holder that has written the file writes the row; until then the page is his.
LEMMA MatchKeeps ==
  ASSUME ArchiveInv, WriteInv, LockInv, NEW c \in Calls, Step(c), NEW s \in Slugs \ loose'
  PROVE  file'[s] = row'[s].text \/ \E d \in Calls : Between(d, s)'
<1>0. /\ Keeps(c) /\ Route(c) /\ Sound(call[c]) /\ Guarded(c) /\ s \notin loose
      /\ \A d \in Calls \ {c} : turn'[d] = turn[d] /\ key'[d] = key[d]
  BY Routes, StepTurns, StepTouches DEF LockInv, ArchiveInv, WriteInv
<1>1. \A d \in Calls \ {c} : Between(d, s) => Between(d, s)'
  BY <1>0 DEF Between, Holds, Keeps
<1>2. CASE Holds(c) /\ call[c].slug = s /\ call[c].at \in {"save", "insert"}
  <2>1. CASE Save(c)
    <3>1. row[s].rev = call[c].seen /\ file[s] = call[c].text
      BY <1>0, <1>2, <2>1, From DEF Guarded
    <3>2. row' = [row EXCEPT ![s].text = call[c].text, ![s].rev = @ + 1] /\ file' = file
      BY <1>2, <2>1, <3>1 DEF Save
    <3>3. row'[s].text = call[c].text
      BY <3>2 DEF ArchiveInv, ArchiveTypeOK, RowsOK, Rows
    <3> QED BY <3>1, <3>2, <3>3
  <2>2. CASE Insert(c)
    <3>1. row[s].state = "none" /\ file[s] = call[c].text
      BY <1>0, <1>2, <2>2, From DEF Guarded
    <3>2. row' = [row EXCEPT ![s] = [state |-> "live", text |-> call[c].text, rev |-> 1]] /\ file' = file
      BY <1>2, <2>2, <3>1 DEF Insert
    <3>3. row'[s].text = call[c].text
      BY <3>2 DEF ArchiveInv, ArchiveTypeOK, RowsOK, Rows
    <3> QED BY <3>1, <3>2, <3>3
  <2> QED BY <1>2, <2>1, <2>2, From DEF Step
<1>3. CASE Holds(c) /\ call[c].slug = s /\ call[c].at \in {"write", "make"}
  <2>1. Write(c) \/ Make(c)
    BY <1>3, From DEF Step
  <2>2. UNCHANGED <<turn, key>>
    BY <2>1 DEF Write, Make, lockVars
  <2>3. Between(c, s)'
    BY <1>0, <1>3, <2>1, <2>2 DEF Route, To, Same, Between, Holds
  <2> QED BY <2>3
<1>4. CASE ~(Holds(c) /\ call[c].slug = s /\ call[c].at \in {"write", "save", "make", "insert"})
  <2>1. row'[s] = row[s] /\ file'[s] = file[s]
    BY <1>4, StepTouches
  <2>2. ~Between(c, s)
    BY <1>4 DEF Between
  <2> QED BY <1>0, <1>1, <2>1, <2>2 DEF WriteInv
<1> QED BY <1>2, <1>3, <1>4

\* A call fails for a page that was written without its lock, or that is not there.
LEMMA LostKeeps ==
  ASSUME ArchiveInv, WriteInv, LockInv, NEW c \in Calls, Step(c), NEW d \in Calls, turn'[d] = "failed"
  PROVE  Lost(key[d])'
<1>0. /\ Sound(call[c]) /\ Guarded(c) /\ Noted(c) /\ Aimed(c) /\ loose \subseteq loose'
      /\ \A e \in Calls \ {c} : turn'[e] = turn[e] /\ key'[e] = key[e]
      /\ key'[c] = key[c] \/ Lock(c)
      /\ turn'[c] = "failed" => \/ turn[c] = "failed" \/ Skipped(c)
                                \/ Throws(c) /\ ~Linking(c) /\ turn[c] = "running"
      /\ turn[c] = "running" => call[c].op \in {"approve", "link"} /\ call[c].at \notin Over
  BY StepTurns, StepTouches DEF LockInv, ArchiveInv, WriteInv, TurnFollows
<1>1. \A p \in Pages : Lost(p) => Lost(p)'
  BY <1>0, StepTouches, SlugAssumption DEF Lost
<1>2. \A e \in Calls : turn[e] # "idle" => key[e] \in Pages
  BY DEF LockInv, TicketsInOrder, Asked
<1>3. key'[d] = key[d] /\ turn[d] # "idle"
  <2>1. CASE d # c
    BY <1>0, <2>1
  <2>2. CASE d = c
    <3>1. ~Lock(c)
      BY <2>2 DEF Lock, Acquire, LockInv, LockTypeOK
    <3>2. Skipped(c) => turn[c] = "waiting"
      BY DEF Skipped, Skip
    <3> QED BY <1>0, <2>2, <3>1, <3>2
  <2> QED BY <2>1, <2>2
<1>4. CASE turn[d] = "failed"
  BY <1>1, <1>2, <1>3, <1>4 DEF WriteInv, Lost
<1>5. CASE d = c /\ Skipped(c)
  <2>1. after[c] \in Calls /\ turn[after[c]] = "failed" /\ key[after[c]] = key[c]
    BY <1>5 DEF Skipped, Skip, Rejected, LockInv, LockTypeOK, ChainedToLast
  <2>2. Lost(key[c])
    BY <2>1 DEF WriteInv
  <2> QED BY <1>1, <1>2, <1>3, <1>5, <2>2 DEF Lost
<1>6. CASE d = c /\ Throws(c) /\ ~Linking(c) /\ turn[c] = "running"
  <2>1. call[c].op = "approve" /\ call[c].at \notin Over
    BY <1>0, <1>6 DEF Linking
  <2>2. Lost(key[c])
    <3>0. turn'[c] # turn[c] /\ ~UNCHANGED lockVars
      BY <1>6 DEF lockVars
    <3>1. CASE Open(c)
      <4>1. call[c].slug = key[c] /\ row[key[c]].state # "live" /\ key[c] \in Slugs
        BY <1>0, <1>6, <2>1, <3>0, <3>1, From DEF Open, Aimed, Sound, Writing
      <4> QED BY <4>1 DEF Lost, WriteInv, ArchiveInv, ArchiveTypeOK, RowsOK, Rows
    <3>2. CASE Save(c)
      <4>1. call[c].slug = key[c] /\ row[key[c]].rev # call[c].seen /\ call[c].at = "save"
        BY <1>0, <1>6, <2>1, <3>0, <3>2, From DEF Save, Aimed
      <4> QED BY <1>0, <1>6, <4>1 DEF Guarded, Holds, Lost
    <3>3. CASE Insert(c)
      <4>1. row[call[c].slug].state # "none" /\ call[c].at = "insert"
            /\ (call[c].slug = key[c] \/ key[c] \in loose)
        BY <1>0, <1>6, <2>1, <3>0, <3>3, From DEF Insert, Aimed
      <4> QED BY <1>0, <1>6, <4>1 DEF Guarded, Holds, Lost
    <3>4. Open(c) \/ Save(c) \/ Insert(c)
      <4>1. ASSUME Write(c) \/ Commit(c) \/ Probe(c) \/ Make(c) \/ Unmake(c) \/ Drop(c) \/ Unlink(c)
                   \/ GitRm(c) \/ ReadHash(c) \/ Apply(c) \/ Link(c) \/ WriteReject(c) \/ Reword(c) \/ Mark(c)
            PROVE  UNCHANGED lockVars
        BY <4>1 DEF Write, Commit, Probe, Make, Unmake, Drop, Unlink, GitRm, ReadHash, Apply, Link,
                    WriteReject, Reword, Mark
      <4>2. ~Lock(c) /\ ~Locked(c) /\ ~Skipped(c)
        BY <1>6 DEF Lock, Acquire, Locked, Enter, Skipped, Skip
      <4>3. ~Finish(c) /\ ~Revert(c) /\ ~FindPage(c) /\ ~ReadFile(c) /\ ~Seal(c)
        BY <1>0, <2>1, From DEF Sound, Undoing
      <4> QED BY <3>0, <4>1, <4>2, <4>3 DEF Step
    <3> QED BY <3>1, <3>2, <3>3, <3>4
  <2> QED BY <1>1, <1>2, <1>3, <1>6, <2>2 DEF Lost
<1> QED BY <1>0, <1>4, <1>5, <1>6

LEMMA StepWrites ==
  ASSUME ArchiveInv, WriteInv, LockInv, NEW c \in Calls, Step(c)
  PROVE  WriteInv'
<1>1. \A d \in Calls : Guarded(d)' /\ Noted(d)' /\ Aimed(d)'
  BY OthersKeep, OwnKeeps
<1>2. \A d \in Calls : turn'[d] = "failed" => Lost(key[d])'
  BY LostKeeps
<1>3. \A s \in Live : row'[s].state # "none"
  BY StepData, RunAssumption DEF ArchiveInv, WriteInv
<1>4. \A s \in Slugs \ loose' : file'[s] = row'[s].text \/ \E d \in Calls : Between(d, s)'
  BY MatchKeeps
<1> QED BY <1>1, <1>2, <1>3, <1>4 DEF WriteInv

LEMMA AskWrites ==
  ASSUME ArchiveInv, WriteInv, NEW c \in Calls, Ask(c)
  PROVE  WriteInv'
<1>1. /\ Own(c) /\ call[c].at = "idle" /\ Fresh(call'[c])
      /\ UNCHANGED <<turn, key, row, file, loose>>
  BY AskOwn DEF ArchiveInv, lockVars, pageVars
<1>2. \A d \in Calls \ {c} : /\ Guarded(d)' /\ Noted(d)' /\ Aimed(d)'
                             /\ \A s \in Slugs : Between(d, s) => Between(d, s)'
  BY <1>1 DEF Own, WriteInv, Guarded, Noted, Aimed, Between, Holds
<1>3. Guarded(c)' /\ Noted(c)' /\ Aimed(c)' /\ \A s \in Slugs : ~Between(c, s)
  BY <1>1 DEF Fresh, Guarded, Noted, Aimed, Between, ArchiveInv, TurnFollows, Over
<1>4. \A s \in Slugs \ loose' : file'[s] = row'[s].text \/ \E d \in Calls : Between(d, s)'
  BY <1>1, <1>2, <1>3 DEF WriteInv
<1> QED BY <1>1, <1>2, <1>3, <1>4 DEF WriteInv, Lost

\* After a restart nobody writes, and the pages of those who did are known.
LEMMA RestartWrites ==
  ASSUME ArchiveInv, WriteInv, LockInv, Restart
  PROVE  WriteInv'
<1> DEFINE lost == {c \in Calls : call[c].at \notin Over}
<1>1. /\ call' = [c \in Calls |-> IF c \in lost THEN Ended(c, "failed") ELSE call[c]]
      /\ turn' = [c \in Calls |-> IF turn[c] \in {"waiting", "running"} THEN "failed" ELSE turn[c]]
      /\ loose' = loose \cup {s \in Slugs : \E c \in lost : s \in {call[c].slug, key[c]}}
      /\ UNCHANGED <<row, file, key>>
  BY DEF Restart, Crash
<1>2. \A c \in Calls : call'[c].at \in Over /\ turn'[c] # "running"
  BY <1>1 DEF Over, Ended, Idle
<1>3. \A c \in Calls : Guarded(c)' /\ Noted(c)' /\ Aimed(c)'
  BY <1>2 DEF Guarded, Noted, Aimed, Holds, Over
<1>4. \A c \in Calls : turn[c] \in {"waiting", "running"} => c \in lost /\ key[c] \in Slugs
  BY SlugAssumption DEF ArchiveInv, TurnFollows, Over, LockInv, TicketsInOrder, Asked
<1>5. \A c \in Calls : turn'[c] = "failed" => Lost(key[c])'
  BY <1>1, <1>4 DEF WriteInv, Lost
<1>6. ASSUME NEW s \in Slugs \ loose' PROVE file'[s] = row'[s].text
  <2>1. \A c \in Calls : ~Between(c, s)
    BY <1>1, <1>4, <1>6 DEF Between, Holds
  <2> QED BY <1>1, <1>6, <2>1 DEF WriteInv
<1> QED BY <1>1, <1>3, <1>5, <1>6 DEF WriteInv

LEMMA WriteStep == ArchiveInv /\ LockInv /\ WriteInv /\ [Next]_vars => WriteInv'
<1> SUFFICES ASSUME ArchiveInv, LockInv, WriteInv, [Next]_vars PROVE WriteInv'
  OBVIOUS
<1>1. CASE Rest \/ UNCHANGED vars
  <2>1. UNCHANGED <<turn, key, row, file, call, loose>>
    BY <1>1 DEF Rest, vars, lockVars, pageVars
  <2> QED BY <2>1 DEF WriteInv, Guarded, Noted, Aimed, Between, Holds, Lost
<1>2. CASE Restart
  BY <1>2, RestartWrites
<1>3. ASSUME NEW c \in Calls, Ask(c) \/ Step(c) PROVE WriteInv'
  BY <1>3, AskWrites, StepWrites
<1> QED BY <1>1, <1>2, <1>3 DEF Next

\* What a request knows of the page it has locked stays true while it writes
\* (WriteInv), for any interleaving with requests that hold other locks or none.
THEOREM WriteInvariance == Spec => []WriteInv
<1>1. Init => WriteInv
  BY WriteInit
<1> QED BY <1>1, WriteStep, LockOfPages, PTL DEF Spec

\* The two writes of a page, file first, are one for every reader that holds its
\* lock (updatePage and createPage under withPageLock), for any pages and requests.
THEOREM RowsMatchFiles == Spec => []RowMatchesFile
<1>1. WriteInv => RowMatchesFile
  BY DEF WriteInv, RowMatchesFile, Writers, Between, Holds
<1> QED BY <1>1, WriteInvariance, PTL

\* An approved update of a page of the archive fails only when the page was written
\* without its lock or is gone: neither the revision check of updatePage nor a
\* rejected promise of the chain ever stops one for another reason.
THEOREM LockedEditsSucceed == Spec => []LockedEditsLand
<1>1. WriteInv => LockedEditsLand
  BY DEF WriteInv, Lost, LockedEditsLand
<1> QED BY <1>1, WriteInvariance, PTL
===============================================================================
