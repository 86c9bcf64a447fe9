------------------------------- MODULE PageLock -------------------------------
(* withPageLock of services/wikiLockService.ts: a module-level map holds, for  *)
(* each page, the promise of the last call; a new call chains itself to that   *)
(* promise with then, which runs it when the promise is fulfilled and skips it *)
(* when the promise is rejected.  The ticket and the clock are history: they   *)
(* record the order of the calls for FifoLock and nothing reads them here.     *)
EXTENDS Naturals

CONSTANTS
    Calls,      \* the calls of withPageLock, each of which is made at most once
    Pages,      \* the keys `${archiveId}:${slug}`
    None        \* no call, no page

ASSUME NoneAssumption == None \notin Calls /\ None \notin Pages

VARIABLES
    lock,       \* pageLocks: the call whose promise the map holds, or None
    after,      \* the call whose promise a call is chained to, or None
    turn,       \* what has become of the call
    key,        \* the page it asked for
    ticket,     \* history: its place among all calls
    clock       \* history: the last ticket

lockVars == <<lock, after, turn, key, ticket, clock>>

Turns == {"idle", "waiting", "running", "done", "failed"}

LockInit ==
    /\ lock = [p \in Pages |-> None]
    /\ after = [c \in Calls |-> None]
    /\ turn = [c \in Calls |-> "idle"]
    /\ key = [c \in Calls |-> None]
    /\ ticket = [c \in Calls |-> 0]
    /\ clock = 0

\* The synchronous part: read the map, chain, write the map.
\* Mutant of Acquire: the map is written before it is read.
AcquireSelf(c, p) ==
    /\ turn[c] = "idle"
    /\ after' = [after EXCEPT ![c] = c]
    /\ lock' = [lock EXCEPT ![p] = c]
    /\ turn' = [turn EXCEPT ![c] = "waiting"]
    /\ key' = [key EXCEPT ![c] = p]
    /\ ticket' = [ticket EXCEPT ![c] = clock + 1]
    /\ clock' = clock + 1

Acquire(c, p) ==
    /\ turn[c] = "idle"
    /\ after' = [after EXCEPT ![c] = lock[p]]
    /\ lock' = [lock EXCEPT ![p] = c]
    /\ turn' = [turn EXCEPT ![c] = "waiting"]
    /\ key' = [key EXCEPT ![c] = p]
    /\ ticket' = [ticket EXCEPT ![c] = clock + 1]
    /\ clock' = clock + 1

\* The promise a call is chained to is fulfilled (Promise.resolve() when none).
Fulfilled(c) == after[c] = None \/ (after[c] # None /\ turn[after[c]] = "done")

\* It is rejected.
Rejected(c) == after[c] # None /\ turn[after[c]] = "failed"

\* then(() => fn()): the function starts.
\* Mutant of Enter: the chain is not waited for.
EnterAtOnce(c) ==
    /\ turn[c] = "waiting"
    /\ turn' = [turn EXCEPT ![c] = "running"]
    /\ UNCHANGED <<lock, after, key, ticket, clock>>

Enter(c) ==
    /\ turn[c] = "waiting"
    /\ Fulfilled(c)
    /\ turn' = [turn EXCEPT ![c] = "running"]
    /\ UNCHANGED <<lock, after, key, ticket, clock>>

\* The promise of c settles; finally removes it from the map if nobody has
\* chained behind it.
\* Mutant of Settle: the map is cleared whoever stands last in it.
SettleClears(c, how) ==
    /\ turn' = [turn EXCEPT ![c] = how]
    /\ lock' = [lock EXCEPT ![key[c]] = None]
    /\ UNCHANGED <<after, key, ticket, clock>>

Settle(c, how) ==
    /\ turn' = [turn EXCEPT ![c] = how]
    /\ lock' = IF lock[key[c]] = c THEN [lock EXCEPT ![key[c]] = None] ELSE lock
    /\ UNCHANGED <<after, key, ticket, clock>>

\* A rejection passes through then: the function is never called.
Skip(c) ==
    /\ turn[c] = "waiting"
    /\ Rejected(c)
    /\ Settle(c, "failed")

\* The function returned or threw.
Leave(c, how) == turn[c] = "running" /\ Settle(c, how)

\* The process ends and the map with it.
Crash ==
    /\ lock' = [p \in Pages |-> None]
    /\ turn' = [c \in Calls |-> IF turn[c] \in {"waiting", "running"} THEN "failed"
                                ELSE turn[c]]
    /\ UNCHANGED <<after, key, ticket, clock>>

LockNext ==
    \/ \E c \in Calls, p \in Pages : Acquire(c, p)
    \/ \E c \in Calls : Enter(c) \/ Skip(c)
    \/ \E c \in Calls, how \in {"done", "failed"} : Leave(c, how)
    \/ Crash

LockSpec == LockInit /\ [][LockNext]_lockVars

-------------------------------------------------------------------------------
Fifo == INSTANCE FifoLock

\* The chain of promises implements the lock of FifoLock: the calls for one page
\* run one at a time and in the order in which they asked, across a function
\* that throws, calls that are skipped behind it and the entry finally removes
\* from the map (wikiLockService.ts, withPageLock).
FifoOrder == Fifo!Spec

\* Nobody waits for ever behind a page: as long as a call for it waits, a call for
\* it runs, or the promise that one of them is chained to has settled.  A call
\* that throws, is skipped or is the last of the map leaves no line that nobody
\* moves (wikiLockService.ts, "released in a .finally() block").
LineMoves ==
    \A c \in Calls : turn[c] = "waiting" =>
        \E d \in Calls : /\ key[d] = key[c]
                         /\ \/ turn[d] = "running"
                            \/ turn[d] = "waiting" /\ (Fulfilled(d) \/ Rejected(d))
===============================================================================
