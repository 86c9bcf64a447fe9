------------------------------- MODULE FifoLock -------------------------------
(* What the comment above withPageLock promises: of the calls that ask for    *)
(* one page at most one runs, in the order in which they asked.  A call that   *)
(* asked behind one that failed may be turned away without running, but only   *)
(* when its turn has come.                                                     *)
EXTENDS Naturals

CONSTANTS
    Calls,      \* the calls of withPageLock, each of which is made at most once
    Pages,      \* the keys `${archiveId}:${slug}`
    None        \* the key of a call that has not asked

VARIABLES
    turn,       \* [Calls -> "idle" | "waiting" | "running" | "done" | "failed"]
    key,        \* the page a call asked for
    ticket,     \* the place of a call among all that asked
    clock       \* the last ticket given

vars == <<turn, key, ticket, clock>>

\* The calls that have asked and have not settled.
Unsettled == {c \in Calls : turn[c] \in {"waiting", "running"}}

\* Those of them that asked for the page of c before c.
Ahead(c) == {d \in Unsettled : key[d] = key[c] /\ ticket[d] < ticket[c]}

Init ==
    /\ turn = [c \in Calls |-> "idle"]
    /\ key = [c \in Calls |-> None]
    /\ ticket = [c \in Calls |-> 0]
    /\ clock = 0

Join(c, p) ==
    /\ turn[c] = "idle"
    /\ turn' = [turn EXCEPT ![c] = "waiting"]
    /\ key' = [key EXCEPT ![c] = p]
    /\ ticket' = [ticket EXCEPT ![c] = clock + 1]
    /\ clock' = clock + 1

Serve(c) ==
    /\ turn[c] = "waiting"
    /\ Ahead(c) = {}
    /\ turn' = [turn EXCEPT ![c] = "running"]
    /\ UNCHANGED <<key, ticket, clock>>

\* Only behind a call of the same page that failed.
TurnAway(c) ==
    /\ turn[c] = "waiting"
    /\ Ahead(c) = {}
    /\ \E d \in Calls : turn[d] = "failed" /\ key[d] = key[c] /\ ticket[d] < ticket[c]
    /\ turn' = [turn EXCEPT ![c] = "failed"]
    /\ UNCHANGED <<key, ticket, clock>>

Release(c, how) ==
    /\ turn[c] = "running"
    /\ turn' = [turn EXCEPT ![c] = how]
    /\ UNCHANGED <<key, ticket, clock>>

\* The process ends: nobody waits or runs any more.
Restart ==
    /\ turn' = [c \in Calls |-> IF c \in Unsettled THEN "failed" ELSE turn[c]]
    /\ UNCHANGED <<key, ticket, clock>>

Next ==
    \/ \E c \in Calls, p \in Pages : Join(c, p)
    \/ \E c \in Calls : Serve(c) \/ TurnAway(c)
    \/ \E c \in Calls, how \in {"done", "failed"} : Release(c, how)
    \/ Restart

Spec == Init /\ [][Next]_vars
===============================================================================
