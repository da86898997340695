---------------------------- MODULE ResourceLocks ----------------------------
(***************************************************************************)
(* The locks that serialise tool calls of different executors on the same  *)
(* resource (tooling/resource_locks.py, held around the retry loop by      *)
(* tooling/executor.py).  A call is a task; keys are numbered in the order *)
(* of their strings.  The lock of a key is an asyncio.Lock, external: a    *)
(* free lock whose waiters are all cancelled is taken at once, any other   *)
(* one is waited for in a queue; a release wakes the first of the queue,   *)
(* which still has to run before the lock is taken again.                  *)
(***************************************************************************)
EXTENDS Naturals

CONSTANTS Tasks, Keys

(* There are finitely many keys at any time: some of them have a least and  *)
(* a greatest one.                                                          *)
ASSUME KeyAssumption ==
    /\ Keys \subseteq Nat
    /\ \A S \in SUBSET Keys : S # {} =>
          /\ \E m \in S : \A k \in S : m <= k
          /\ \E m \in S : \A k \in S : k <= m

VARIABLES at,       \* where a task is in hold()
          want,     \* the keys it has still to take
          held,     \* the keys it holds: acquired
          ahead,    \* the tasks before it in the queue it waits in
          future,   \* the future it waits on
          stopping  \* Task.cancel was called, the CancelledError is not raised yet

lockVars == <<at, want, held, ahead, future, stopping>>

LocksTypeOK ==
    /\ at \in [Tasks -> {"out", "taking", "queued", "inside"}]
    /\ want \in [Tasks -> SUBSET Keys]
    /\ held \in [Tasks -> SUBSET Keys]
    /\ ahead \in [Tasks -> SUBSET Tasks]
    /\ future \in [Tasks -> {"none", "woken", "cancelled"}]
    /\ stopping \in [Tasks -> BOOLEAN]

LocksInit ==
    /\ at = [t \in Tasks |-> "out"]
    /\ want = [t \in Tasks |-> {}] /\ held = [t \in Tasks |-> {}]
    /\ ahead = [t \in Tasks |-> {}]
    /\ future = [t \in Tasks |-> "none"] /\ stopping = [t \in Tasks |-> FALSE]
-----------------------------------------------------------------------------
\* MUTANT: the order of a set, which depends on what else is in it.
NextKey_Unsorted(t) ==
    CHOOSE k \in want[t] : \A j \in want[t] : IF want[t] = Keys THEN j <= k ELSE k <= j
(* sorted(set(keys)): a key is taken once, the least one first.             *)
NextKey(t) == CHOOSE k \in want[t] : \A j \in want[t] : k <= j

Locked(k)    == \E t \in Tasks : k \in held[t]
WaitsFor(t, k) == at[t] = "queued" /\ NextKey(t) = k
Queue(k)     == {t \in Tasks : WaitsFor(t, k)}
CanTake(k)   == ~Locked(k) /\ \A q \in Queue(k) : future[q] = "cancelled"

Take(t, k) ==
    /\ held' = [held EXCEPT ![t] = @ \cup {k}]
    /\ want' = [want EXCEPT ![t] = @ \ {k}]
    /\ at' = [at EXCEPT ![t] = IF want[t] = {k} THEN "inside" ELSE "taking"]

Unqueued(t) == [q \in Tasks |-> IF q = t THEN {} ELSE ahead[q] \ {t}]

\* MUTANT: a task that gives up waiting does not pass the lock on.
Freed_Held(t) == held[t]
(* The keys that are free once t has let go of what it holds, the one it    *)
(* waited for included, and the first task in the queue of each.            *)
Freed(t) ==
    held[t] \cup IF at[t] = "queued" THEN {k \in {NextKey(t)} : ~Locked(k)} ELSE {}

Roused(t) ==
    {q \in Tasks \ {t} : /\ at[q] = "queued" /\ NextKey(q) \in Freed(t)
                         /\ ahead[q] \subseteq {t} /\ future[q] = "none"}

(* release_all, and the except arm of acquire_all.                          *)
LetGo(t) ==
    /\ held' = [held EXCEPT ![t] = {}]
    /\ want' = [want EXCEPT ![t] = {}]
    /\ at' = [at EXCEPT ![t] = "out"]
    /\ ahead' = Unqueued(t)
    /\ future' = [q \in Tasks |-> IF q = t THEN "none"
                                  ELSE IF q \in Roused(t) THEN "woken" ELSE future[q]]
    /\ stopping' = [stopping EXCEPT ![t] = FALSE]
-----------------------------------------------------------------------------
Begin(t, S) ==
    /\ at[t] = "out" /\ S # {}
    /\ at' = [at EXCEPT ![t] = "taking"]
    /\ want' = [want EXCEPT ![t] = S]
    /\ UNCHANGED <<held, ahead, future, stopping>>

TakeFree(t) ==
    /\ at[t] = "taking" /\ CanTake(NextKey(t))
    /\ Take(t, NextKey(t))
    /\ UNCHANGED <<ahead, future, stopping>>

Wait(t) ==
    /\ at[t] = "taking" /\ ~CanTake(NextKey(t))
    /\ at' = [at EXCEPT ![t] = "queued"]
    /\ ahead' = [ahead EXCEPT ![t] = Queue(NextKey(t))]
    /\ UNCHANGED <<want, held, future, stopping>>

Wake(t) ==
    /\ at[t] = "queued" /\ future[t] = "woken" /\ ~stopping[t]
    /\ Take(t, NextKey(t))
    /\ ahead' = Unqueued(t)
    /\ future' = [future EXCEPT ![t] = "none"]
    /\ UNCHANGED stopping

(* Task.cancel: a future that already has its result keeps it.              *)
Cancel(t) ==
    /\ at[t] = "queued" /\ ~stopping[t]
    /\ stopping' = [stopping EXCEPT ![t] = TRUE]
    /\ future' = [future EXCEPT ![t] = IF @ = "none" THEN "cancelled" ELSE @]
    /\ UNCHANGED <<at, want, held, ahead>>

\* MUTANT: a cancelled wait keeps the locks taken before it.
Abandon_KeepsLocks(t) ==
    /\ at[t] = "queued" /\ stopping[t]
    /\ at' = [at EXCEPT ![t] = "out"] /\ ahead' = Unqueued(t)
    /\ want' = [want EXCEPT ![t] = {}] /\ stopping' = [stopping EXCEPT ![t] = FALSE]
    /\ future' = [future EXCEPT ![t] = "none"] /\ UNCHANGED held
Abandon(t) == at[t] = "queued" /\ stopping[t] /\ LetGo(t)

(* The call returns, raises or is cancelled inside the tool.                *)
Leave(t) == at[t] = "inside" /\ LetGo(t)

LocksNext ==
    \E t \in Tasks :
        \/ \E S \in SUBSET Keys : Begin(t, S)
        \/ TakeFree(t) \/ Wait(t) \/ Wake(t)
        \/ Cancel(t) \/ Abandon(t) \/ Leave(t)

Fairness ==
    \A t \in Tasks :
        /\ WF_lockVars(TakeFree(t) \/ Wait(t)) /\ WF_lockVars(Wake(t) \/ Abandon(t))
        /\ WF_lockVars(Leave(t))

LocksSpec == LocksInit /\ [][LocksNext]_lockVars /\ Fairness
-----------------------------------------------------------------------------
(* Two calls never touch a resource at the same time, although a waiter is  *)
(* woken before it holds the lock and others come in between; and a call    *)
(* that has left, by whatever way, keeps no lock and no place in a queue.   *)
Exclusion ==
    /\ \A t, u \in Tasks : t # u => held[t] \cap held[u] = {}
    /\ \A t \in Tasks : at[t] = "out" =>
          held[t] = {} /\ \A u \in Tasks : t \notin ahead[u]

(* A free lock never waits for nobody: the first task in its queue has been *)
(* woken, or is being cancelled and will pass the lock on.                  *)
NoLostWakeup ==
    \A t \in Tasks :
        at[t] = "queued" /\ ahead[t] = {} /\ ~Locked(NextKey(t))
            => future[t] # "none"

(* No set of tasks waits in a circle, each for a key that another one of    *)
(* them holds (the promise of the module's header).                         *)
NoCircularWait ==
    \A D \in SUBSET Tasks : D # {} =>
        \E t \in D : ~ \E u \in D : at[t] = "queued" /\ NextKey(t) \in held[u]

(* Every call that waits gets its keys, unless it is cancelled.             *)
EveryoneServed ==
    \A t \in Tasks : at[t] = "queued" ~> at[t] \in {"inside", "out"}
=============================================================================
