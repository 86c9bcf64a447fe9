---------------------------- MODULE PageLockProofs ----------------------------
(***************************************************************************)
(* The chain of promises of withPageLock is a first-come lock, for any     *)
(* calls and pages.  The chain is never walked: what makes it a queue is   *)
(* that a call is chained to the last one that had not settled when it     *)
(* asked, so that nobody before it is unsettled once that one has settled, *)
(* and that the map holds the last unsettled call of each page, so that    *)
(* every other unsettled call has a successor.                             *)
(***************************************************************************)
EXTENDS PageLock, TLAPS

LockTypeOK ==
  /\ lock \in [Pages -> Calls \cup {None}]
  /\ after \in [Calls -> Calls \cup {None}]
  /\ turn \in [Calls -> Turns]
  /\ key \in [Calls -> Pages \cup {None}]
  /\ ticket \in [Calls -> Nat]
  /\ clock \in Nat

Asked(c) == turn[c] # "idle"
Unsettled(c) == turn[c] \in {"waiting", "running"}

\* Tickets are given out in order, and each once.
TicketsInOrder ==
  /\ \A c \in Calls : Asked(c) => key[c] \in Pages /\ ticket[c] <= clock
  /\ \A c, d \in Calls : Asked(c) /\ Asked(d) /\ c # d => ticket[c] # ticket[d]

\* d asked for the page of c before c and has not settled.
Before(d, c) == Unsettled(d) /\ key[d] = key[c] /\ ticket[d] < ticket[c]

\* The map holds the last unsettled call of a page, if there is one.
MapHoldsLast ==
  \A p \in Pages :
    /\ lock[p] # None => Unsettled(lock[p]) /\ key[lock[p]] = p
    /\ \A c \in Calls : Unsettled(c) /\ key[c] = p =>
         lock[p] # None /\ ticket[c] <= ticket[lock[p]]

\* A waiting call is chained to a call of its page that asked earlier, and while
\* an earlier one is unsettled, to the last of those.
ChainedToLast ==
  \A c \in Calls : turn[c] = "waiting" =>
    /\ after[c] # None => /\ Asked(after[c]) /\ key[after[c]] = key[c]
                          /\ ticket[after[c]] < ticket[c]
    /\ \A d \in Calls : Before(d, c) =>
         after[c] # None /\ Unsettled(after[c]) /\ ticket[d] <= ticket[after[c]]

\* Nobody is before a call that runs.
RunningFirst == \A c, d \in Calls : turn[c] = "running" => ~Before(d, c)

\* Behind an unsettled call that the map no longer holds another one waits.
Succeeded(d) ==
  \/ lock[key[d]] = d
  \/ \E e \in Calls : turn[e] = "waiting" /\ key[e] = key[d] /\ after[e] = d

Successor == \A d \in Calls : Unsettled(d) => Succeeded(d)

LockInv ==
  /\ LockTypeOK
  /\ TicketsInOrder
  /\ MapHoldsLast
  /\ ChainedToLast
  /\ RunningFirst
  /\ Successor

-------------------------------------------------------------------------------
LEMMA InitInv == LockInit => LockInv /\ LineMoves
BY NoneAssumption
   DEF LockInit, LockInv, LockTypeOK, Turns, TicketsInOrder, Asked, Unsettled, Before,
       MapHoldsLast, ChainedToLast, RunningFirst, Successor, LineMoves

\* A new call goes to the end of its line.
LEMMA AcquireInv ==
  ASSUME LockInv, NEW c \in Calls, NEW p \in Pages, Acquire(c, p)
  PROVE  LockInv'
<1> USE NoneAssumption DEF LockInv, LockTypeOK, Turns
<1>1. /\ \A d \in Calls : /\ turn'[d] = IF d = c THEN "waiting" ELSE turn[d]
                          /\ key'[d] = IF d = c THEN p ELSE key[d]
                          /\ after'[d] = IF d = c THEN lock[p] ELSE after[d]
                          /\ ticket'[d] = IF d = c THEN clock + 1 ELSE ticket[d]
      /\ \A q \in Pages : lock'[q] = IF q = p THEN c ELSE lock[q]
      /\ turn[c] = "idle"
  BY DEF Acquire
<1>2. LockTypeOK'
  BY DEF Acquire
<1>3. TicketsInOrder'
  BY <1>1 DEF Acquire, TicketsInOrder, Asked
<1>4. \A d \in Calls : Unsettled(d) => d # c /\ Asked(d) /\ ticket[d] <= clock
  BY <1>1 DEF Unsettled, Asked, TicketsInOrder
<1>5. \A q \in Pages : lock[q] # None => lock[q] \in Calls /\ lock[q] # c
  BY <1>4 DEF MapHoldsLast
<1>6. MapHoldsLast'
  BY <1>1, <1>4, <1>5 DEF MapHoldsLast, Unsettled
<1>7. ChainedToLast'
  <2> SUFFICES ASSUME NEW d \in Calls, turn'[d] = "waiting"
               PROVE  /\ after'[d] # None => /\ Asked(after[d])' /\ key'[after'[d]] = key'[d]
                                             /\ ticket'[after'[d]] < ticket'[d]
                      /\ \A e \in Calls : Before(e, d)' =>
                           after'[d] # None /\ Unsettled(after[d])' /\ ticket'[e] <= ticket'[after'[d]]
    BY DEF ChainedToLast
  <2>1. CASE d = c
    BY <2>1, <1>1, <1>4, <1>5 DEF MapHoldsLast, Unsettled, Asked, Before
  <2>2. CASE d # c
    <3>1. turn[d] = "waiting" /\ Asked(d) /\ ticket[d] <= clock
      BY <2>2, <1>1, <1>4 DEF Unsettled
    <3>2. after[d] # None => after[d] # c /\ after[d] \in Calls
      BY <3>1, <1>1 DEF ChainedToLast, Asked
    <3>3. \A e \in Calls : Before(e, d)' => e # c /\ Before(e, d)
      BY <3>1, <2>2, <1>1 DEF Before, Unsettled
    <3> QED BY <3>1, <3>2, <3>3, <2>2, <1>1 DEF ChainedToLast, Asked, Unsettled
  <2> QED BY <2>1, <2>2
<1>8. RunningFirst'
  <2> SUFFICES ASSUME NEW d \in Calls, NEW e \in Calls, turn'[d] = "running", Before(e, d)' PROVE FALSE
    BY DEF RunningFirst
  <2>1. d # c /\ turn[d] = "running" /\ ticket[d] <= clock
    BY <1>1, <1>4 DEF Unsettled
  <2>2. e # c /\ Before(e, d)
    BY <2>1, <1>1 DEF Before, Unsettled
  <2> QED BY <2>1, <2>2 DEF RunningFirst
<1>9. Successor'
  <2> SUFFICES ASSUME NEW d \in Calls, Unsettled(d)' PROVE Succeeded(d)'
    BY DEF Successor
  <2>1. CASE d = c
    BY <2>1, <1>1 DEF Succeeded
  <2>2. CASE d # c
    <3>1. Unsettled(d) /\ key[d] \in Pages /\ Succeeded(d)
      BY <2>2, <1>1, <1>4 DEF Unsettled, Successor, TicketsInOrder
    <3>2. CASE lock[key[d]] = d
      BY <3>1, <3>2, <2>2, <1>1 DEF Succeeded
    <3>3. CASE \E e \in Calls : turn[e] = "waiting" /\ key[e] = key[d] /\ after[e] = d
      <4>1. PICK e \in Calls : turn[e] = "waiting" /\ key[e] = key[d] /\ after[e] = d
        BY <3>3
      <4> QED BY <4>1, <2>2, <1>1 DEF Succeeded
    <3> QED BY <3>1, <3>2, <3>3 DEF Succeeded
  <2> QED BY <2>1, <2>2
<1> QED BY <1>2, <1>3, <1>6, <1>7, <1>8, <1>9

\* A call that nobody is before starts to run.
LEMMA EnterInv ==
  ASSUME LockInv, NEW c \in Calls, Enter(c)
  PROVE  LockInv' /\ \A d \in Calls : ~Before(d, c)
<1> USE NoneAssumption DEF LockInv, LockTypeOK, Turns
<1>1. /\ \A d \in Calls : turn'[d] = IF d = c THEN "running" ELSE turn[d]
      /\ turn[c] = "waiting"
      /\ UNCHANGED <<lock, after, key, ticket, clock>>
  BY DEF Enter
<1>2. \A d \in Calls : /\ Unsettled(d)' <=> Unsettled(d)
                       /\ Asked(d)' <=> Asked(d)
  BY <1>1 DEF Unsettled, Asked
<1>3. \A d, e \in Calls : Before(d, e)' <=> Before(d, e)
  BY <1>1, <1>2 DEF Before
<1>4. \A d \in Calls : ~Before(d, c)
  BY <1>1 DEF Enter, Fulfilled, ChainedToLast, Unsettled
<1>5. LockTypeOK'
  BY DEF Enter
<1>6. TicketsInOrder' /\ MapHoldsLast'
  BY <1>1, <1>2 DEF TicketsInOrder, MapHoldsLast
<1>7. ChainedToLast'
  BY <1>1, <1>2, <1>3 DEF ChainedToLast
<1>8. RunningFirst'
  BY <1>1, <1>3, <1>4 DEF RunningFirst
<1>9. Successor'
  <2> SUFFICES ASSUME NEW d \in Calls, Unsettled(d)' PROVE Succeeded(d)'
    BY DEF Successor
  <2>1. Unsettled(d) /\ Succeeded(d) /\ d # after[c]
    BY <1>1, <1>2 DEF Enter, Fulfilled, Successor, Unsettled
  <2> QED BY <2>1, <1>1 DEF Succeeded
<1> QED BY <1>4, <1>5, <1>6, <1>7, <1>8, <1>9

\* The promise of a call that nobody is before settles.
LEMMA SettleInv ==
  ASSUME LockInv, NEW c \in Calls, NEW how \in {"done", "failed"}, Settle(c, how),
         Unsettled(c), \A d \in Calls : ~Before(d, c),
         turn[c] = "running" \/ (after[c] # None /\ ~Unsettled(after[c]))
  PROVE  LockInv'
<1> USE NoneAssumption DEF LockInv, LockTypeOK, Turns
<1>1. /\ \A d \in Calls : turn'[d] = IF d = c THEN how ELSE turn[d]
      /\ \A p \in Pages : lock'[p] = IF p = key[c] /\ lock[p] = c THEN None ELSE lock[p]
      /\ UNCHANGED <<after, key, ticket, clock>>
      /\ Asked(c) /\ key[c] \in Pages
  BY DEF Settle, Unsettled, Asked, TicketsInOrder
<1>2. \A d \in Calls : /\ Unsettled(d)' <=> Unsettled(d) /\ d # c
                       /\ Asked(d)' <=> Asked(d)
  BY <1>1 DEF Unsettled, Asked
<1>3. \A d, e \in Calls : Before(d, e)' <=> Before(d, e) /\ d # c
  BY <1>1, <1>2 DEF Before
<1>4. LockTypeOK'
  BY DEF Settle
<1>5. TicketsInOrder'
  BY <1>1, <1>2 DEF TicketsInOrder
<1>6. MapHoldsLast'
  <2> SUFFICES ASSUME NEW p \in Pages
               PROVE  /\ lock'[p] # None => Unsettled(lock[p])' /\ key'[lock'[p]] = p
                      /\ \A d \in Calls : Unsettled(d)' /\ key'[d] = p =>
                           lock'[p] # None /\ ticket'[d] <= ticket'[lock'[p]]
    BY DEF MapHoldsLast
  <2>1. CASE lock[p] = c
    <3>1. p = key[c] /\ lock'[p] = None
      BY <2>1, <1>1 DEF MapHoldsLast
    <3>2. ASSUME NEW d \in Calls, Unsettled(d)', key'[d] = p PROVE FALSE
      <4>1. Unsettled(d) /\ d # c /\ key[d] = key[c] /\ Asked(d)
        BY <3>2, <3>1, <1>1, <1>2 DEF Unsettled, Asked
      <4>2. ticket[d] <= ticket[c] /\ ticket[d] # ticket[c]
        BY <4>1, <2>1, <3>1, <1>1 DEF MapHoldsLast, TicketsInOrder
      <4> QED BY <4>1, <4>2 DEF Before
    <3> QED BY <3>1, <3>2
  <2>2. CASE lock[p] # c
    <3>1. lock'[p] = lock[p]
      BY <2>2, <1>1
    <3> QED BY <3>1, <2>2, <1>1, <1>2 DEF MapHoldsLast
  <2> QED BY <2>1, <2>2
<1>7. ChainedToLast'
  <2> SUFFICES ASSUME NEW d \in Calls, turn'[d] = "waiting"
               PROVE  /\ after'[d] # None => /\ Asked(after[d])' /\ key'[after'[d]] = key'[d]
                                             /\ ticket'[after'[d]] < ticket'[d]
                      /\ \A e \in Calls : Before(e, d)' =>
                           after'[d] # None /\ Unsettled(after[d])' /\ ticket'[e] <= ticket'[after'[d]]
    BY DEF ChainedToLast
  <2>1. turn[d] = "waiting"
    BY <1>1
  <2>2. after'[d] # None => /\ Asked(after[d])' /\ key'[after'[d]] = key'[d]
                            /\ ticket'[after'[d]] < ticket'[d]
    BY <2>1, <1>1, <1>2 DEF ChainedToLast
  <2>3. ASSUME NEW e \in Calls, Before(e, d)'
        PROVE  after'[d] # None /\ Unsettled(after[d])' /\ ticket'[e] <= ticket'[after'[d]]
    <3>1. Before(e, d) /\ e # c
      BY <2>3, <1>3
    <3>2. after[d] # None /\ Unsettled(after[d]) /\ ticket[e] <= ticket[after[d]]
          /\ key[after[d]] = key[d]
      BY <3>1, <2>1 DEF ChainedToLast
    <3>3. after[d] # c
      <4> SUFFICES ASSUME after[d] = c PROVE FALSE
        OBVIOUS
      <4>1. ticket[e] # ticket[c] /\ key[e] = key[c]
        BY <3>1, <3>2, <1>1 DEF TicketsInOrder, Before, Unsettled, Asked
      <4> QED BY <4>1, <3>1, <3>2 DEF Before
    <3> QED BY <3>2, <3>3, <1>1, <1>2
  <2> QED BY <2>2, <2>3
<1>8. RunningFirst'
  BY <1>1, <1>3 DEF RunningFirst
<1>9. Successor'
  <2> SUFFICES ASSUME NEW d \in Calls, Unsettled(d)' PROVE Succeeded(d)'
    BY DEF Successor
  <2>1. Unsettled(d) /\ d # c /\ Succeeded(d) /\ key[d] \in Pages
    BY <1>2 DEF Successor, Unsettled, Asked, TicketsInOrder
  <2>2. CASE lock[key[d]] = d
    BY <2>1, <2>2, <1>1 DEF Succeeded
  <2>3. CASE \E e \in Calls : turn[e] = "waiting" /\ key[e] = key[d] /\ after[e] = d
    <3>1. PICK e \in Calls : turn[e] = "waiting" /\ key[e] = key[d] /\ after[e] = d
      BY <2>3
    <3>2. e # c
      BY <3>1, <2>1
    <3> QED BY <3>1, <3>2, <1>1 DEF Succeeded
  <2> QED BY <2>1, <2>2, <2>3 DEF Succeeded
<1> QED BY <1>4, <1>5, <1>6, <1>7, <1>8, <1>9

\* A call that runs, and a call that is skipped, has nobody before it.
LEMMA LeaveInv ==
  ASSUME LockInv, NEW c \in Calls, NEW how \in {"done", "failed"}, Leave(c, how)
  PROVE  LockInv'
<1>1. Unsettled(c) /\ \A d \in Calls : ~Before(d, c)
  BY DEF Leave, LockInv, RunningFirst, Unsettled
<1> QED BY <1>1, SettleInv DEF Leave

LEMMA SkipInv ==
  ASSUME LockInv, NEW c \in Calls, Skip(c)
  PROVE  LockInv' /\ \A d \in Calls : ~Before(d, c)
<1>1. Unsettled(c) /\ after[c] # None /\ ~Unsettled(after[c])
  BY DEF Skip, Rejected, Unsettled
<1>2. \A d \in Calls : ~Before(d, c)
  BY <1>1 DEF Skip, LockInv, ChainedToLast
<1> QED BY <1>1, <1>2, SettleInv DEF Skip

\* After a restart nobody is unsettled.
LEMMA CrashInv ==
  ASSUME LockInv, Crash
  PROVE  LockInv'
<1> USE DEF LockInv, LockTypeOK, Turns
<1>1. \A c \in Calls : /\ turn'[c] = IF turn[c] \in {"waiting", "running"} THEN "failed" ELSE turn[c]
                       /\ ~Unsettled(c)'
                       /\ Asked(c)' <=> Asked(c)
  BY DEF Crash, Unsettled, Asked
<1>2. LockTypeOK'
  BY DEF Crash
<1>3. TicketsInOrder'
  BY <1>1 DEF Crash, TicketsInOrder
<1>4. MapHoldsLast' /\ ChainedToLast' /\ RunningFirst' /\ Successor'
  BY <1>1 DEF Crash, MapHoldsLast, ChainedToLast, RunningFirst, Successor, Unsettled
<1> QED BY <1>2, <1>3, <1>4

LEMMA LockStep == LockInv /\ [LockNext]_lockVars => LockInv'
<1> SUFFICES ASSUME LockInv, [LockNext]_lockVars PROVE LockInv'
  OBVIOUS
<1>1. CASE \E c \in Calls, p \in Pages : Acquire(c, p)
  BY <1>1, AcquireInv
<1>2. CASE \E c \in Calls : Enter(c) \/ Skip(c)
  BY <1>2, EnterInv, SkipInv
<1>3. CASE \E c \in Calls, how \in {"done", "failed"} : Leave(c, how)
  BY <1>3, LeaveInv
<1>4. CASE Crash
  BY <1>4, CrashInv
<1>5. CASE UNCHANGED lockVars
  BY <1>5 DEF lockVars, LockInv, LockTypeOK, TicketsInOrder, Asked, Unsettled, Before, MapHoldsLast,
     ChainedToLast, RunningFirst, Successor, Succeeded
<1> QED BY <1>1, <1>2, <1>3, <1>4, <1>5 DEF LockNext

\* The inductive invariant of the chain of promises (withPageLock).
THEOREM LockInvariance == LockSpec => []LockInv
BY InitInv, LockStep, PTL DEF LockSpec

-------------------------------------------------------------------------------
LEMMA Alone ==
  ASSUME LockInv, NEW c \in Calls, NEW d \in Calls, turn[c] = "running", turn[d] = "running",
         key[c] = key[d]
  PROVE  c = d
<1> SUFFICES ASSUME c # d PROVE FALSE
  OBVIOUS
<1>1. Asked(c) /\ Asked(d) /\ Unsettled(c) /\ Unsettled(d)
  BY DEF Asked, Unsettled
<1>2. ticket[c] \in Nat /\ ticket[d] \in Nat /\ ticket[c] # ticket[d]
  BY <1>1 DEF LockInv, LockTypeOK, TicketsInOrder
<1>3. Before(c, d) \/ Before(d, c)
  BY <1>1, <1>2 DEF Before
<1> QED BY <1>3 DEF LockInv, RunningFirst

\* Two calls for one page never run together: the function passed to withPageLock
\* has the page for itself.
THEOREM OneAtATime ==
  LockSpec => [](\A c, d \in Calls :
                    turn[c] = "running" /\ turn[d] = "running" /\ key[c] = key[d] => c = d)
<1>1. LockInv => \A c, d \in Calls :
                    turn[c] = "running" /\ turn[d] = "running" /\ key[c] = key[d] => c = d
  BY Alone
<1> QED BY <1>1, LockInvariance, PTL

\* What FifoLock calls the calls ahead are those before.
LEMMA NobodyAhead ==
  ASSUME NEW c \in Calls, \A d \in Calls : ~Before(d, c)
  PROVE  Fifo!Ahead(c) = {}
BY DEF Fifo!Ahead, Fifo!Unsettled, Before, Unsettled

\* Every step of the chain is a step of the first-come lock.
LEMMA StepIsFifo == LockInv /\ [LockNext]_lockVars => [Fifo!Next]_Fifo!vars
<1> SUFFICES ASSUME LockInv, [LockNext]_lockVars PROVE [Fifo!Next]_Fifo!vars
  OBVIOUS
<1>1. ASSUME NEW c \in Calls, NEW p \in Pages, Acquire(c, p) PROVE Fifo!Next
  <2>1. Fifo!Join(c, p)
    BY <1>1 DEF Acquire, Fifo!Join
  <2> QED BY <2>1 DEF Fifo!Next
<1>2. ASSUME NEW c \in Calls, Enter(c) PROVE Fifo!Next
  <2>1. Fifo!Ahead(c) = {}
    BY <1>2, EnterInv, NobodyAhead
  <2>2. Fifo!Serve(c)
    BY <1>2, <2>1 DEF Enter, Fifo!Serve
  <2> QED BY <2>2 DEF Fifo!Next
<1>3. ASSUME NEW c \in Calls, Skip(c) PROVE Fifo!Next
  <2>1. Fifo!Ahead(c) = {}
    BY <1>3, SkipInv, NobodyAhead
  <2>2. /\ after[c] \in Calls /\ turn[after[c]] = "failed"
        /\ key[after[c]] = key[c] /\ ticket[after[c]] < ticket[c]
    BY <1>3 DEF Skip, Rejected, LockInv, LockTypeOK, ChainedToLast
  <2>3. Fifo!TurnAway(c)
    BY <1>3, <2>1, <2>2 DEF Skip, Settle, Fifo!TurnAway
  <2> QED BY <2>3 DEF Fifo!Next
<1>4. ASSUME NEW c \in Calls, NEW how \in {"done", "failed"}, Leave(c, how) PROVE Fifo!Next
  <2>1. Fifo!Release(c, how)
    BY <1>4 DEF Leave, Settle, Fifo!Release
  <2> QED BY <2>1 DEF Fifo!Next
<1>5. ASSUME Crash PROVE Fifo!Next
  <2>1. Fifo!Restart
    BY <1>5 DEF Crash, Fifo!Restart, Fifo!Unsettled
  <2> QED BY <2>1 DEF Fifo!Next
<1>6. CASE UNCHANGED lockVars
  BY <1>6 DEF lockVars, Fifo!vars
<1> QED BY <1>1, <1>2, <1>3, <1>4, <1>5, <1>6 DEF LockNext

\* The chain of promises implements the first-come lock of FifoLock.
THEOREM ChainIsFifo == LockSpec => FifoOrder
<1>1. LockInit => Fifo!Init
  BY DEF LockInit, Fifo!Init
<1> QED BY <1>1, StepIsFifo, LockInvariance, PTL DEF LockSpec, FifoOrder, Fifo!Spec

-------------------------------------------------------------------------------
(* Nobody waits for ever *)

\* d is a reason for the line of a page to move on.
Mover(d) ==
  \/ turn[d] = "running"
  \/ turn[d] = "waiting" /\ (Fulfilled(d) \/ Rejected(d))

\* When the promise of a call settles, the one chained to it may go on.
LEMMA SettleMoves ==
  ASSUME LockInv, LineMoves, NEW c \in Calls, NEW how \in {"done", "failed"}, Settle(c, how),
         Unsettled(c), \A d \in Calls : ~Before(d, c)
  PROVE  LineMoves'
<1> USE NoneAssumption DEF LockInv, LockTypeOK, Turns
<1> SUFFICES ASSUME NEW d \in Calls, turn'[d] = "waiting"
             PROVE  \E e \in Calls : key'[e] = key'[d] /\ Mover(e)'
  BY DEF LineMoves, Mover
<1>1. /\ \A e \in Calls : turn'[e] = IF e = c THEN how ELSE turn[e]
      /\ UNCHANGED <<after, key, ticket, clock>>
  BY DEF Settle
<1>2. d # c /\ turn[d] = "waiting" /\ Unsettled(d) /\ Asked(d) /\ Asked(c)
  BY <1>1 DEF Unsettled, Asked
<1>3. CASE key[d] = key[c]
  <2>1. lock[key[c]] # c
    <3> SUFFICES ASSUME lock[key[c]] = c PROVE FALSE
      OBVIOUS
    <3>1. key[c] \in Pages /\ ticket[d] <= ticket[c] /\ ticket[d] # ticket[c]
      BY <1>2, <1>3 DEF MapHoldsLast, TicketsInOrder
    <3> QED BY <3>1, <1>2, <1>3 DEF Before
  <2>2. PICK e \in Calls : turn[e] = "waiting" /\ key[e] = key[c] /\ after[e] = c
    BY <2>1 DEF Successor, Succeeded
  <2>3. e # c
    BY <2>2 DEF ChainedToLast
  <2>4. Mover(e)'
    BY <2>2, <2>3, <1>1 DEF Mover, Fulfilled, Rejected
  <2> QED BY <2>2, <2>4, <1>1, <1>3
<1>4. CASE key[d] # key[c]
  <2>1. PICK e \in Calls : key[e] = key[d] /\ Mover(e)
    BY <1>2 DEF LineMoves, Mover
  <2>2. e # c
    BY <2>1, <1>4
  <2>3. after[e] # c \/ turn[e] = "running"
    BY <2>1, <1>2, <1>4 DEF Mover, ChainedToLast
  <2>4. Mover(e)'
    BY <2>1, <2>2, <2>3, <1>1 DEF Mover, Fulfilled, Rejected
  <2> QED BY <2>1, <2>4, <1>1
<1> QED BY <1>3, <1>4

LEMMA MovesStep == LockInv /\ LineMoves /\ [LockNext]_lockVars => LineMoves'
<1> SUFFICES ASSUME LockInv, LineMoves, [LockNext]_lockVars PROVE LineMoves'
  OBVIOUS
<1> USE NoneAssumption DEF LockInv, LockTypeOK, Turns
<1>1. ASSUME NEW c \in Calls, NEW p \in Pages, Acquire(c, p) PROVE LineMoves'
  <2> SUFFICES ASSUME NEW d \in Calls, turn'[d] = "waiting"
               PROVE  \E e \in Calls : key'[e] = key'[d] /\ Mover(e)'
    BY DEF LineMoves, Mover
  <2>1. /\ \A e \in Calls : /\ turn'[e] = IF e = c THEN "waiting" ELSE turn[e]
                            /\ key'[e] = IF e = c THEN p ELSE key[e]
                            /\ after'[e] = IF e = c THEN lock[p] ELSE after[e]
        /\ turn[c] = "idle"
    BY <1>1 DEF Acquire
  <2>2. ASSUME NEW e \in Calls, Mover(e) PROVE e # c /\ key'[e] = key[e] /\ Mover(e)'
    <3>1. e # c /\ (turn[e] = "waiting" /\ after[e] # None => after[e] # c)
      BY <2>1, <2>2 DEF Mover, ChainedToLast, Asked
    <3> QED BY <3>1, <2>1, <2>2 DEF Mover, Fulfilled, Rejected
  <2>3. CASE d # c
    BY <2>1, <2>2, <2>3 DEF LineMoves, Mover
  <2>4. CASE d = c /\ lock[p] = None
    BY <2>1, <2>4 DEF Mover, Fulfilled
  <2>5. CASE d = c /\ lock[p] # None
    <3>1. lock[p] \in Calls /\ Unsettled(lock[p]) /\ key[lock[p]] = p
      BY <2>5, <1>1 DEF MapHoldsLast
    <3>2. PICK e \in Calls : key[e] = p /\ Mover(e)
      BY <3>1 DEF LineMoves, Mover, Unsettled
    <3> QED BY <3>2, <2>1, <2>2, <2>5
  <2> QED BY <2>3, <2>4, <2>5
<1>2. ASSUME NEW c \in Calls, Enter(c) PROVE LineMoves'
  <2> SUFFICES ASSUME NEW d \in Calls, turn'[d] = "waiting"
               PROVE  \E e \in Calls : key'[e] = key'[d] /\ Mover(e)'
    BY DEF LineMoves, Mover
  <2>1. /\ \A e \in Calls : turn'[e] = IF e = c THEN "running" ELSE turn[e]
        /\ UNCHANGED <<lock, after, key, ticket, clock>> /\ turn[c] = "waiting"
    BY <1>2 DEF Enter
  <2>2. PICK e \in Calls : key[e] = key[d] /\ Mover(e)
    BY <2>1 DEF LineMoves, Mover
  <2>3. Mover(e)'
    <3>1. after[e] # None => after[e] \in Calls
      OBVIOUS
    <3> QED BY <3>1, <2>1, <2>2 DEF Mover, Fulfilled, Rejected
  <2> QED BY <2>1, <2>2, <2>3
<1>3. ASSUME NEW c \in Calls, Skip(c) PROVE LineMoves'
  BY <1>3, SkipInv, SettleMoves DEF Skip, Unsettled
<1>4. ASSUME NEW c \in Calls, NEW how \in {"done", "failed"}, Leave(c, how) PROVE LineMoves'
  <2>1. Unsettled(c) /\ \A d \in Calls : ~Before(d, c)
    BY <1>4 DEF Leave, RunningFirst, Unsettled
  <2> QED BY <1>4, <2>1, SettleMoves DEF Leave
<1>5. ASSUME Crash PROVE LineMoves'
  BY <1>5 DEF Crash, LineMoves
<1>6. CASE UNCHANGED lockVars
  BY <1>6 DEF lockVars, LineMoves, Fulfilled, Rejected
<1> QED BY <1>1, <1>2, <1>3, <1>4, <1>5, <1>6 DEF LockNext

\* While a call waits for a page, some call for that page runs or may go on
\* (withPageLock: its finally block, and the rejection that passes down the chain).
THEOREM LinesMove == LockSpec => []LineMoves
BY InitInv, LockInvariance, MovesStep, PTL DEF LockSpec
===============================================================================
