----------------------------- MODULE ArchivePages -----------------------------
(* The pages of one archive: a row in the database, a markdown file and a git   *)
(* history of the files (services/archivePageService.ts), and the edits an      *)
(* agent proposes, which a user approves, rejects or undoes                     *)
(* (services/wikiWriteService.ts, routes/wikiChat.ts).  Only an approval takes  *)
(* the page lock of PageLock; a direct update, creation or deletion, an undo    *)
(* and the backlinks an approval leaves on other pages do not.  Every await is  *)
(* a place where another request of the server may step in.                     *)
EXTENDS PageLock, FiniteSets, Sequences

CONSTANTS
    Runs,       \* wiki edit runs, all proposed and PENDING at the start
    Slugs,      \* 1 .. n: a base slug and its suffixed forms, in probing order
    Target,     \* [Runs -> Slugs]: the page a run is about
    Action,     \* [Runs -> {"create", "update"}]
    Links,      \* [Runs -> SUBSET Slugs]: the pages the proposed text links to
    Live,       \* the pages that exist at the start
    Named,      \* the slugs that direct requests name
    Ops,        \* the requests users may make
    MaxTries,   \* MAX_SLUG_RETRIES
    MaxCrashes, \* bound on the restarts of the server
    Marked      \* the content of a file with conflict markers in it

ASSUME SlugAssumption == Slugs = 1 .. Cardinality(Slugs) /\ Pages = Slugs
ASSUME RunAssumption ==
    /\ Target \in [Runs -> Slugs]
    /\ Action \in [Runs -> {"create", "update"}]
    /\ Links \in [Runs -> SUBSET Slugs]
    /\ Live \subseteq Slugs /\ Named \subseteq Slugs

VARIABLES
    row,        \* ArchivePage: state, text, and rev, which stands for updatedAt
    file,       \* the page's markdown file: its text, Marked, or None
    index,      \* the git index: what the next commit holds of each page
    log,        \* the git history: what the files held at each commit
    unmerged,   \* the pages a revert left in conflict in the index
    status,     \* WikiEditRun.status
    hash,       \* previewJson.commitHash: a place in log, 0 when unset
    call,       \* the requests: what each does and how far it is
    crashes,    \* counts up to MaxCrashes
    loose       \* history: the pages somebody wrote without holding their lock

git == <<index, log, unmerged>>
runVars == <<status, hash>>
pageVars == <<row, file, git, runVars, loose>>
vars == <<lockVars, pageVars, call, crashes>>

\* A text is known by who wrote it and by what is listed under "## Backlinks".
Texts == [by : Runs \cup Calls \cup {None}, back : SUBSET Slugs]
TextBy(who) == [by |-> who, back |-> {}]

ASSUME ContentAssumption == None \notin Runs /\ None \notin Texts

Idle == [at |-> "idle", op |-> "none", run |-> None, slug |-> 0, text |-> None,
         seen |-> 0, tries |-> 0, todo |-> {}]
Over == {"idle", "done", "failed"}

Init ==
    /\ LockInit
    /\ row = [s \in Slugs |->
                IF s \in Live THEN [state |-> "live", text |-> TextBy(None), rev |-> 0]
                ELSE [state |-> "none", text |-> None, rev |-> 0]]
    /\ file = [s \in Slugs |-> row[s].text]
    /\ index = file
    /\ log = << [s \in Slugs |-> None], file >>
    /\ unmerged = {}
    /\ status = [r \in Runs |-> "PENDING"]
    /\ hash = [r \in Runs |-> 0]
    /\ call = [c \in Calls |-> Idle]
    /\ crashes = 0
    /\ loose = {}

-------------------------------------------------------------------------------
(* How a request goes on *)

At(c, where) == call[c].at = where
Goes(c, where) == call' = [call EXCEPT ![c].at = where]

\* While it writes backlinks, an approval has its own edit behind it.
Linking(c) == call[c].op = "link"

Ended(c, how) == [Idle EXCEPT !.at = how, !.op = call[c].op, !.run = call[c].run]

\* A request that throws answers 500; if it runs under a page lock, the promise
\* of the lock is rejected.  establishBacklinks catches what a target throws.
Throws(c) ==
    IF Linking(c) THEN Goes(c, "link") /\ UNCHANGED lockVars
    ELSE /\ call' = [call EXCEPT ![c] = Ended(c, "failed")]
         /\ IF turn[c] = "running" THEN Leave(c, "failed") ELSE UNCHANGED lockVars

\* What comes after the commit of a page that was created or updated.
Written(c) ==
    CASE Linking(c) -> Goes(c, "link")
      [] call[c].op = "approve" -> Goes(c, "hash")
      [] call[c].op \in {"put", "create"} -> call' = [call EXCEPT ![c] = Ended(c, "done")]

\* The pages that c writes without their lock when it writes s.  A creation that
\* is given another slug than the one it locked does nothing for that one.
Loosened(c, s) ==
    IF turn[c] = "running" /\ key[c] = s THEN loose
    ELSE loose \cup {s} \cup (IF turn[c] = "running" /\ ~Linking(c) THEN {key[c]} ELSE {})

-------------------------------------------------------------------------------
(* git *)

Tree == log[Len(log)]
Committed(tree) == log' = IF tree = Tree THEN log ELSE Append(log, tree)

\* git add of one file and git commit, which takes the whole index.  While
\* another page is in conflict git refuses the commit.
Commits(s) ==
    /\ unmerged \subseteq {s}
    /\ unmerged' = {}
    /\ index' = [index EXCEPT ![s] = file[s]]
    /\ Committed(index')

\* The errors of git add and git commit are caught and logged.
CommitsOrNot(s) == Commits(s) \/ UNCHANGED git

-------------------------------------------------------------------------------
(* updatePage: the file is written first, the row only if nobody changed it *)

Put(c, s) ==
    /\ At(c, "idle")
    /\ call' = [call EXCEPT ![c] = [Idle EXCEPT !.at = "open", !.op = "put", !.slug = s,
                                                !.text = TextBy(c)]]
    /\ UNCHANGED <<lockVars, pageVars, crashes>>

Open(c) ==
    LET s == call[c].slug IN
    /\ At(c, "open")
    /\ \/ /\ row[s].state = "live"
          /\ call' = [call EXCEPT ![c].at = "write", ![c].seen = row[s].rev]
          /\ UNCHANGED lockVars
       \/ row[s].state # "live" /\ Throws(c)
    /\ UNCHANGED <<pageVars, crashes>>

Write(c) ==
    /\ At(c, "write")
    /\ file' = [file EXCEPT ![call[c].slug] = call[c].text]
    /\ loose' = Loosened(c, call[c].slug)
    /\ Goes(c, "save")
    /\ UNCHANGED <<lockVars, row, git, runVars, crashes>>

Save(c) ==
    LET s == call[c].slug IN
    /\ At(c, "save")
    /\ \/ /\ row[s].rev = call[c].seen
          /\ row' = [row EXCEPT ![s].text = call[c].text, ![s].rev = @ + 1]
          /\ Goes(c, "commit")
          /\ UNCHANGED lockVars
       \/ row[s].rev # call[c].seen /\ Throws(c) /\ UNCHANGED row
    /\ UNCHANGED <<file, git, runVars, loose, crashes>>

Commit(c) ==
    /\ At(c, "commit")
    /\ CommitsOrNot(call[c].slug)
    /\ Written(c)
    /\ UNCHANGED <<lockVars, row, file, runVars, loose, crashes>>

-------------------------------------------------------------------------------
(* createPage: a free slug, the file, the row, and again if the slug was taken *)

Create(c, s) ==
    /\ At(c, "idle")
    /\ call' = [call EXCEPT ![c] = [Idle EXCEPT !.at = "probe", !.op = "create", !.slug = s,
                                                !.text = TextBy(c)]]
    /\ UNCHANGED <<lockVars, pageVars, crashes>>

\* resolveCollision: the first slug without a row, deleted or not, and a file.
Probe(c) ==
    LET free == {s \in Slugs : s >= call[c].slug /\ row[s].state = "none" /\ file[s] = None}
    IN
    /\ At(c, "probe")
    /\ \E s \in free : /\ \A t \in free : s <= t
                      /\ call' = [call EXCEPT ![c].at = "make", ![c].slug = s]
    /\ UNCHANGED <<lockVars, pageVars, crashes>>

Make(c) ==
    /\ At(c, "make")
    /\ file' = [file EXCEPT ![call[c].slug] = call[c].text]
    /\ loose' = Loosened(c, call[c].slug)
    /\ Goes(c, "insert")
    /\ UNCHANGED <<lockVars, row, git, runVars, crashes>>

\* The unique index refuses a slug that has a row (P2002).
Insert(c) ==
    LET s == call[c].slug IN
    /\ At(c, "insert")
    /\ \/ /\ row[s].state = "none"
          /\ row' = [row EXCEPT ![s] = [state |-> "live", text |-> call[c].text, rev |-> 1]]
          /\ Goes(c, "commit")
          /\ UNCHANGED lockVars
       \/ /\ row[s].state # "none"
          /\ IF call[c].tries + 1 < MaxTries THEN Goes(c, "unmake") /\ UNCHANGED lockVars
             ELSE Throws(c)
          /\ UNCHANGED row
    /\ UNCHANGED <<file, git, runVars, loose, crashes>>

\* The file it wrote is removed before it looks for another slug.
Unmake(c) ==
    /\ At(c, "unmake")
    /\ file' = [file EXCEPT ![call[c].slug] = None]
    /\ call' = [call EXCEPT ![c].at = "probe", ![c].tries = @ + 1]
    /\ UNCHANGED <<lockVars, row, git, runVars, loose, crashes>>

-------------------------------------------------------------------------------
(* deletePage: the row, then the file, then git *)

Delete(c, s) ==
    /\ At(c, "idle")
    /\ row[s].state = "live"
    /\ call' = [call EXCEPT ![c] = [Idle EXCEPT !.at = "drop", !.op = "delete", !.slug = s]]
    /\ UNCHANGED <<lockVars, pageVars, crashes>>

Drop(c) ==
    /\ At(c, "drop")
    /\ row' = [row EXCEPT ![call[c].slug].state = "deleted", ![call[c].slug].rev = @ + 1]
    /\ loose' = Loosened(c, call[c].slug)
    /\ Goes(c, "unlink")
    /\ UNCHANGED <<lockVars, file, git, runVars, crashes>>

Unlink(c) ==
    LET s == call[c].slug IN
    /\ At(c, "unlink")
    /\ file' = [file EXCEPT ![s] = None]
    /\ call' = [call EXCEPT ![c] = IF file[s] = None THEN Ended(c, "done")
                                   ELSE [call[c] EXCEPT !.at = "rm"]]
    /\ UNCHANGED <<lockVars, row, git, runVars, loose, crashes>>

\* git rm takes the page out of the index, and the file if it is back.
GitRm(c) ==
    LET s == call[c].slug IN
    /\ At(c, "rm")
    /\ \/ /\ index[s] # None /\ file[s] \in {None, index[s]} /\ unmerged \subseteq {s}
          /\ file' = [file EXCEPT ![s] = None]
          /\ index' = [index EXCEPT ![s] = None]
          /\ unmerged' = {}
          /\ Committed(index')
       \/ UNCHANGED <<file, git>>
    /\ call' = [call EXCEPT ![c] = Ended(c, "done")]
    /\ UNCHANGED <<lockVars, row, runVars, loose, crashes>>

-------------------------------------------------------------------------------
(* applyWikiEdit and the verdicts on a proposed edit *)

\* The status is read before the lock is asked for, and not again.
\* Mutant of Approve: a run is approved whatever became of it.
ApproveAny(c, r) ==
    /\ At(c, "idle")
    /\ call' = [call EXCEPT ![c] = [Idle EXCEPT !.at = "asked", !.op = "approve", !.run = r]]
    /\ UNCHANGED <<lockVars, pageVars, crashes>>

Approve(c, r) ==
    /\ At(c, "idle")
    /\ status[r] = "PENDING"
    /\ call' = [call EXCEPT ![c] = [Idle EXCEPT !.at = "asked", !.op = "approve", !.run = r]]
    /\ UNCHANGED <<lockVars, pageVars, crashes>>

Lock(c) ==
    /\ At(c, "asked")
    /\ Acquire(c, Target[call[c].run])
    /\ Goes(c, "queued")
    /\ UNCHANGED <<pageVars, crashes>>

Locked(c) ==
    LET r == call[c].run IN
    /\ At(c, "queued")
    /\ Enter(c)
    /\ call' = [call EXCEPT ![c].at = IF Action[r] = "create" THEN "probe" ELSE "open",
                            ![c].slug = Target[r], ![c].text = TextBy(r)]
    /\ UNCHANGED <<pageVars, crashes>>

\* The call before it threw: the edit is not applied and the request answers 500.
Skipped(c) ==
    /\ At(c, "queued")
    /\ Skip(c)
    /\ call' = [call EXCEPT ![c] = Ended(c, "failed")]
    /\ UNCHANGED <<pageVars, crashes>>

\* git log -n 1: the last commit of the whole archive, whoever made it.
ReadHash(c) ==
    /\ At(c, "hash")
    /\ call' = [call EXCEPT ![c].at = "apply", ![c].seen = Len(log)]
    /\ UNCHANGED <<lockVars, pageVars, crashes>>

\* Mutant of Apply: the hash is not stored with the status.
ApplyUnhashed(c) ==
    LET r == call[c].run IN
    /\ At(c, "apply")
    /\ status' = [status EXCEPT ![r] = "APPLIED"]
    /\ call' = [call EXCEPT ![c].at = "link", ![c].op = "link",
                            ![c].todo = Links[r] \ {Target[r]}]
    /\ UNCHANGED <<lockVars, row, file, git, hash, loose, crashes>>

Apply(c) ==
    LET r == call[c].run IN
    /\ At(c, "apply")
    /\ status' = [status EXCEPT ![r] = "APPLIED"]
    /\ hash' = [hash EXCEPT ![r] = call[c].seen]
    /\ call' = [call EXCEPT ![c].at = "link", ![c].op = "link",
                            ![c].todo = Links[r] \ {Target[r]}]
    /\ UNCHANGED <<lockVars, row, file, git, loose, crashes>>

\* establishBacklinks: the text of each target is read here, and written with
\* updatePage, which reads the row again and does not hold the target's lock.
Link(c) ==
    LET r == call[c].run IN
    /\ At(c, "link")
    /\ \E s \in call[c].todo :
          LET linked == row[s].state = "live" /\ Target[r] \notin row[s].text.back IN
          call' = [call EXCEPT
                     ![c].todo = @ \ {s},
                     ![c].at = IF linked THEN "open" ELSE "link",
                     ![c].slug = s,
                     ![c].text = IF linked THEN [row[s].text EXCEPT !.back = @ \cup {Target[r]}]
                                 ELSE @]
    /\ UNCHANGED <<lockVars, pageVars, crashes>>

Finish(c) ==
    /\ At(c, "link")
    /\ call[c].todo = {}
    /\ Leave(c, "done")
    /\ call' = [call EXCEPT ![c] = Ended(c, "done")]
    /\ UNCHANGED <<pageVars, crashes>>

Reject(c, r) ==
    /\ At(c, "idle")
    /\ status[r] = "PENDING"
    /\ call' = [call EXCEPT ![c] = [Idle EXCEPT !.at = "reject", !.op = "reject", !.run = r]]
    /\ UNCHANGED <<lockVars, pageVars, crashes>>

WriteReject(c) ==
    /\ At(c, "reject")
    /\ status' = [status EXCEPT ![call[c].run] = "REJECTED"]
    /\ call' = [call EXCEPT ![c] = Ended(c, "done")]
    /\ UNCHANGED <<lockVars, row, file, git, hash, loose, crashes>>

-------------------------------------------------------------------------------
(* revertWikiEdit: the commit of a run is reverted in the working tree and the   *)
(* row follows the file.  Two texts of one page always touch the same lines.     *)

Undo(c, r) ==
    /\ At(c, "idle")
    /\ status[r] = "APPLIED"
    /\ call' = [call EXCEPT ![c] = [Idle EXCEPT !.at = "revert", !.op = "undo", !.run = r]]
    /\ UNCHANGED <<lockVars, pageVars, crashes>>

\* git revert --no-commit.  It refuses when the files it would change are not as
\* in the index; a page changed again since is left in conflict, and throws.
Revert(c) ==
    LET h == hash[call[c].run]
        changed == {s \in Slugs : log[h][s] # log[h - 1][s]}
        clashes == {s \in changed : index[s] \notin {log[h][s], log[h - 1][s]}}
    IN
    /\ At(c, "revert")
    /\ IF unmerged # {} \/ \E s \in changed : file[s] # index[s]
       THEN Throws(c) /\ UNCHANGED <<file, git, loose>>
       ELSE /\ file' = [s \in Slugs |-> IF s \in clashes THEN Marked
                                        ELSE IF s \in changed THEN log[h - 1][s] ELSE file[s]]
            /\ index' = [s \in Slugs |-> IF s \in changed THEN file'[s] ELSE index[s]]
            /\ unmerged' = clashes
            /\ loose' = loose \cup changed
            /\ IF clashes = {} THEN Goes(c, "find") /\ UNCHANGED lockVars ELSE Throws(c)
            /\ UNCHANGED log
    /\ UNCHANGED <<row, runVars, crashes>>

\* cleanupRevert: revert --abort puts back what the index changed; when git no
\* longer knows of a revert, reset --hard puts back every tracked file.
Aborts ==
    /\ \/ file' = [s \in Slugs |-> IF index[s] # Tree[s] THEN Tree[s] ELSE file[s]]
       \/ file' = [s \in Slugs |-> IF index[s] # None \/ Tree[s] # None THEN Tree[s]
                                   ELSE file[s]]
    /\ index' = Tree
    /\ unmerged' = {}
    /\ loose' = loose \cup {s \in Slugs : file'[s] # file[s]}
    /\ UNCHANGED log

FindPage(c) ==
    /\ At(c, "find")
    /\ IF row[Target[call[c].run]].state = "live"
       THEN Goes(c, "read") /\ UNCHANGED <<lockVars, file, git, loose>>
       ELSE Throws(c) /\ Aborts
    /\ UNCHANGED <<row, runVars, crashes>>

ReadFile(c) ==
    LET s == Target[call[c].run] IN
    /\ At(c, "read")
    /\ IF file[s] \in Texts
       THEN /\ call' = [call EXCEPT ![c].at = "seal", ![c].slug = s, ![c].text = file[s]]
            /\ UNCHANGED <<lockVars, file, git, loose>>
       ELSE Throws(c) /\ Aborts
    /\ UNCHANGED <<row, runVars, crashes>>

\* git add . and git commit, whose errors nobody catches here.
Seal(c) ==
    /\ At(c, "seal")
    /\ \/ /\ index' = file
          /\ unmerged' = {}
          /\ Committed(index')
          /\ Goes(c, "reword")
          /\ UNCHANGED lockVars
       \/ Throws(c) /\ UNCHANGED git
    /\ UNCHANGED <<row, file, runVars, loose, crashes>>

Reword(c) ==
    LET s == call[c].slug IN
    /\ At(c, "reword")
    /\ row' = [row EXCEPT ![s].text = call[c].text, ![s].rev = @ + 1]
    /\ loose' = Loosened(c, s)
    /\ Goes(c, "mark")
    /\ UNCHANGED <<lockVars, file, git, runVars, crashes>>

Mark(c) ==
    /\ At(c, "mark")
    /\ status' = [status EXCEPT ![call[c].run] = "REVERTED"]
    /\ call' = [call EXCEPT ![c] = Ended(c, "done")]
    /\ UNCHANGED <<lockVars, row, file, git, hash, loose, crashes>>

-------------------------------------------------------------------------------
\* The server goes down between two steps of its requests; locks are in memory.
Restart ==
    LET lost == {c \in Calls : call[c].at \notin Over} IN
    /\ crashes < MaxCrashes
    /\ lost # {}
    /\ Crash
    /\ call' = [c \in Calls |-> IF c \in lost THEN Ended(c, "failed") ELSE call[c]]
    /\ loose' = loose \cup {s \in Slugs : \E c \in lost : s \in {call[c].slug, key[c]}}
    /\ crashes' = crashes + 1
    /\ UNCHANGED <<row, file, git, runVars>>

Ask(c) ==
    \/ \E s \in Named : \/ "put" \in Ops /\ row[s].state = "live" /\ Put(c, s)
                        \/ "create" \in Ops /\ Create(c, s)
                        \/ "delete" \in Ops /\ Delete(c, s)
    \/ \E r \in Runs : \/ "approve" \in Ops /\ Approve(c, r)
                       \/ "reject" \in Ops /\ Reject(c, r)
                       \/ "undo" \in Ops /\ Undo(c, r)

Step(c) ==
    \/ Open(c) \/ Write(c) \/ Save(c) \/ Commit(c)
    \/ Probe(c) \/ Make(c) \/ Insert(c) \/ Unmake(c)
    \/ Drop(c) \/ Unlink(c) \/ GitRm(c)
    \/ Lock(c) \/ Locked(c) \/ Skipped(c) \/ ReadHash(c) \/ Apply(c) \/ Link(c) \/ Finish(c)
    \/ WriteReject(c)
    \/ Revert(c) \/ FindPage(c) \/ ReadFile(c) \/ Seal(c) \/ Reword(c) \/ Mark(c)

\* All requests are answered: the only state in which the archive may rest.
Rest == (\A c \in Calls : call[c].at \in {"done", "failed"}) /\ UNCHANGED vars

Next == Restart \/ Rest \/ \E c \in Calls : Ask(c) \/ Step(c)

Spec == Init /\ [][Next]_vars

-------------------------------------------------------------------------------
(* Properties *)

\* A row has a text exactly when it was inserted, a run has a commit hash exactly
\* when it was applied, the hash is a place in the history, and a call runs under
\* a lock only between the lock's Enter and its Leave.
PageTypeOK ==
    /\ \A s \in Slugs : /\ row[s].state \in {"none", "live", "deleted"}
                        /\ row[s].text \in Texts \cup {None}
                        /\ (row[s].state = "none") = (row[s].text = None)
                        /\ file[s] \in Texts \cup {None, Marked}
    /\ \A r \in Runs : hash[r] \in 0 .. Len(log)
    /\ \A r \in Runs : status[r] \in {"APPLIED", "REVERTED"} => hash[r] > 1
    /\ unmerged \subseteq Slugs
    /\ \A c \in Calls : turn[c] = "running" => call[c].op \in {"approve", "link"}

Writers(s) == {c \in Calls : key[c] = s /\ turn[c] = "running"}

\* A page that is only ever written under its lock and that nobody is writing has
\* the text of its row in its file: the two writes of updatePage and createPage,
\* file first, are one for every reader that holds the lock (wikiLockService.ts,
\* "prevent interleaved writes that could corrupt page state").
RowMatchesFile ==
    \A s \in Slugs \ loose : Writers(s) = {} => file[s] = row[s].text

\* An approved update of a page of the archive that asked for its lock fails only
\* when someone wrote the page without it, or the page is gone: approvals of one
\* page never lose to one another, neither in the revision check of updatePage nor
\* behind a rejected promise of the chain.
LockedEditsLand ==
    \A c \in Calls :
        (turn[c] = "failed" /\ Action[call[c].run] = "update" /\ key[c] \in Live)
        => key[c] \in loose \/ row[key[c]].state # "live"

\* The verdict on a proposed edit rests: of a run that is rejected or undone while
\* no request for it is under way nothing ever is again, and it keeps its status
\* (the status checks of approve, reject and undo in routes/wikiChat.ts and in
\* wikiWriteService.ts, none of which is repeated where the status is written).
Judged(r) == /\ status[r] \in {"REJECTED", "REVERTED"}
             /\ \A c \in Calls : call[c].run = r => call[c].at \in Over

VerdictRests == [][\A r \in Runs : Judged(r) => Judged(r)' /\ status'[r] = status[r]]_vars

\* The commit kept for the undo of a run changed the run's page: "captures the git
\* commit hash" (wikiWriteService.ts).
HashIsOwn ==
    \A r \in Runs : hash[r] # 0 => log[hash[r]][Target[r]] # log[hash[r] - 1][Target[r]]

\* A page whose creation ended is in its file: after P2002 "the winner owns the
\* file" (archivePageService.ts).
WinnerKeepsFile ==
    \A s \in Slugs : (row[s].state = "live" /\ \A c \in Calls : call[c].at \in Over)
                     => file[s] # None
===============================================================================
