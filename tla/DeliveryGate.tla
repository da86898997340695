----------------------------- MODULE DeliveryGate -----------------------------
(***************************************************************************)
(* The ordered delivery gate of a session (session/session.py): appends    *)
(* become durable in any order on several threads; memory and listeners    *)
(* get the events in the order of the file.                                *)
(*                                                                         *)
(* Every section under _gate_guard is one action, and so is every await.   *)
(* A writer makes one append; the aggregate has been delivered to a        *)
(* runtime, so the store numbers the line when it writes it.               *)
(***************************************************************************)
EXTENDS Naturals, Sequences, FiniteSetsExt

CONSTANTS
  AsyncWriters,   \* append_async, on the event loop
  SyncWriters,    \* append
  Loop,           \* the thread of the event loop
  NoOne,
  MaxFailures, MaxCancels   \* bounds; the code has none

Writers == AsyncWriters \cup SyncWriters
Threads == {Loop} \cup SyncWriters

ASSUME WriterAssumption ==
  /\ AsyncWriters \cap SyncWriters = {}
  /\ Loop \notin Writers /\ NoOne \notin Writers \cup {Loop}
ASSUME GateBoundAssumption == MaxFailures \in Nat /\ MaxCancels \in Nat

VARIABLES
  onLoop,       \* the synchronous writers that run on the event loop; any
                \* other has a thread of its own, which bears its name
  disk,         \* the file: disk[s] is the writer of the line with number s
  pc,           \* pc[w]: where the append of w is
  told,         \* told[w]: how it ended for its caller
  unnumbered,   \* _gate_inflight: tokens without a number
  numbered,     \* _gate_inflight: tokens with a number
  undelivered, ready, skipped,   \* the _gate_ sets of these names
  through,      \* _gate_delivered_through
  drain,        \* _gate_draining, with its thread and where that is
  calls,        \* threads about to call _drain_ordered
  forwards,     \* call_soon_threadsafe(_drain_ordered), not yet run
  waiters,      \* _gate_waiters
  settler,      \* one caller of wait_gate_settled
  owed,         \* what had been appended for it when it called
  memory,       \* _events
  heard,        \* what a listener was called with: event and thread
  missed,       \* was a drain turned away by one that had seen its last event?
  failures, cancels

writerVars == <<pc, told>>
setVars == <<unnumbered, numbered, undelivered, ready, skipped>>
drainVars == <<through, drain, calls, forwards, missed>>
waitVars == <<waiters, settler, owed>>
outVars == <<memory, heard>>
boundVars == <<failures, cancels>>
gateVars == <<onLoop, disk, writerVars, setVars, drainVars, waitVars, outVars, boundVars>>

\* start .. durable: the store; called, raising: the done callback has run;
\* delivering, waiting: the coroutine; draining: a synchronous append.
Places == {"start", "writing", "written", "durable", "failed", "called",
           "raising", "delivering", "waiting", "draining", "done"}
NoDrain == [thread |-> NoOne, phase |-> "off", item |-> NoOne]

Lines(s) == {s[i] : i \in DOMAIN s}
Seq0(w) == CHOOSE i \in DOMAIN disk : disk[i] = w
Lowest(S) == CHOOSE w \in S : \A v \in S : Seq0(w) <= Seq0(v)
Home(w) == IF w \in SyncWriters \ onLoop THEN w ELSE Loop

\* The thread is not inside a callback, a drain or a synchronous append.
Idle(t) ==
  /\ t \notin calls /\ drain.thread # t
  /\ \A w \in Writers : Home(w) = t =>
       IF w \in SyncWriters THEN pc[w] \in {"start", "done"} ELSE pc[w] # "delivering"
\* The thread is back from its last drain.
Back(t) == t \notin calls /\ drain.thread # t

Goto(w, place) == pc' = [pc EXCEPT ![w] = place]
Tell(w, end) == told' = [told EXCEPT ![w] = end]
CallDrain(t) == calls' = calls \cup {t}

-----------------------------------------------------------------------------
\* The token is taken before the store is called.
Register(w) ==
  /\ pc[w] = "start" /\ Idle(Home(w))
  /\ Goto(w, "writing")
  /\ unnumbered' = unnumbered \cup {w}
  /\ UNCHANGED <<onLoop, disk, told, numbered, undelivered, ready, skipped,
                drainVars, waitVars, outVars, boundVars>>

\* JsonlSessionStore.append_event: the number and the line under the file's
\* lock, then the shared fsync, whose waiters wake in any order.
WriteLine(w) ==
  /\ pc[w] = "writing"
  /\ Goto(w, "written")
  /\ disk' = Append(disk, w)
  /\ UNCHANGED <<onLoop, told, setVars, drainVars, waitVars, outVars, boundVars>>

Flush(w) ==
  /\ pc[w] = "written"
  /\ Goto(w, "durable")
  /\ UNCHANGED <<onLoop, disk, told, setVars, drainVars, waitVars, outVars,
                boundVars>>

\* A refused line, a failing write or fsync.
StoreFails(w) ==
  /\ failures < MaxFailures
  /\ pc[w] \in {"writing", "written"}
  /\ Goto(w, "failed")
  /\ failures' = failures + 1
  /\ UNCHANGED <<onLoop, disk, told, cancels, setVars, drainVars, waitVars, outVars>>

-----------------------------------------------------------------------------
\* append: _commit_persisted, or its except arm; then the drain.
Commit(w) ==
  /\ w \in SyncWriters /\ pc[w] \in {"durable", "failed"}
  /\ Goto(w, "draining")
  /\ unnumbered' = unnumbered \ {w}
  /\ ready' = IF pc[w] = "durable" THEN ready \cup {w} ELSE ready
  /\ Tell(w, IF pc[w] = "durable" THEN "ok" ELSE "raised")
  /\ CallDrain(Home(w))
  /\ UNCHANGED <<onLoop, disk, numbered, undelivered, skipped, through, drain,
                forwards, missed, waitVars, outVars, boundVars>>

\* It returns whether its event was let through or not.
Return(w) ==
  /\ w \in SyncWriters /\ pc[w] = "draining" /\ Back(Home(w))
  /\ Goto(w, "done")
  /\ UNCHANGED <<onLoop, disk, told, setVars, drainVars, waitVars, outVars,
                boundVars>>

\* append_async: _commit_memory, the done callback of the write.
Callback(w) ==
  /\ w \in AsyncWriters /\ pc[w] \in {"durable", "failed"} /\ Idle(Loop)
  /\ unnumbered' = unnumbered \ {w}
  /\ IF pc[w] = "failed"
     THEN UNCHANGED <<numbered, undelivered, skipped>>
     ELSE IF told[w] = "cancelled"
     THEN skipped' = skipped \cup {w} /\ UNCHANGED <<numbered, undelivered>>
     ELSE /\ numbered' = numbered \cup {w}
          /\ undelivered' = undelivered \cup {w}
          /\ UNCHANGED skipped
  /\ Goto(w, IF told[w] = "cancelled" THEN "done"
             ELSE IF pc[w] = "failed" THEN "raising" ELSE "called")
  /\ CallDrain(Loop)
  /\ UNCHANGED <<onLoop, disk, told, ready, through, drain, forwards, missed,
                waitVars, outVars, boundVars>>

\* The coroutine wakes up after the callback: _deliver_ordered, or the error.
Wake(w) ==
  /\ w \in AsyncWriters /\ pc[w] = "called" /\ Idle(Loop)
  /\ numbered' = numbered \ {w}
  /\ IF Seq0(w) <= through
     THEN UNCHANGED <<undelivered, ready>>
     ELSE undelivered' = undelivered \ {w} /\ ready' = ready \cup {w}
  /\ Goto(w, "delivering")
  /\ CallDrain(Loop)
  /\ UNCHANGED <<onLoop, disk, told, unnumbered, skipped, through, drain, forwards,
                missed, waitVars, outVars, boundVars>>

Raise(w) ==
  /\ w \in AsyncWriters /\ pc[w] = "raising" /\ Idle(Loop)
  /\ Goto(w, "done")
  /\ Tell(w, "raised")
  /\ UNCHANGED <<onLoop, disk, setVars, drainVars, waitVars, outVars, boundVars>>

LetThrough(w) == Seq0(w) <= through

\* wait_delivered, in the same run of the loop as the drain before it.
WaitDelivered(w) ==
  /\ w \in AsyncWriters /\ pc[w] = "delivering" /\ Back(Loop)
  /\ IF LetThrough(w)
     THEN Goto(w, "done") /\ Tell(w, "ok") /\ UNCHANGED waiters
     ELSE Goto(w, "waiting") /\ waiters' = waiters \cup {w} /\ UNCHANGED told
  /\ UNCHANGED <<onLoop, disk, settler, owed, setVars, drainVars, outVars,
                boundVars>>

Resolved(w) ==
  /\ w \in AsyncWriters /\ pc[w] = "waiting" /\ w \notin waiters /\ Idle(Loop)
  /\ Goto(w, "done")
  /\ Tell(w, "ok")
  /\ UNCHANGED <<onLoop, disk, setVars, drainVars, waitVars, outVars, boundVars>>

\* MUTANT: whoever gives up keeps its place.
GivesUp_Never(w) == FALSE
\* Cancelled between the callback and the wake-up: nobody will deliver it.
GivesUp(w) == pc[w] = "called" /\ w \in undelivered /\ Seq0(w) > through

\* The waiting coroutine is cancelled: while the write is under way, between
\* the callback and the wake-up, or in wait_delivered.
CancelWaiter(w) ==
  /\ cancels < MaxCancels
  /\ w \in AsyncWriters /\ told[w] = "none" /\ Idle(Loop)
  /\ pc[w] \in {"writing", "written", "durable", "failed", "called", "raising",
                "waiting"}
  /\ Tell(w, "cancelled")
  /\ IF GivesUp(w)
     THEN /\ undelivered' = undelivered \ {w}
          /\ numbered' = numbered \ {w}
          /\ skipped' = skipped \cup {w}
          /\ CallDrain(Loop)
     ELSE UNCHANGED <<undelivered, numbered, skipped, calls>>
  /\ Goto(w, IF pc[w] \in {"called", "raising", "waiting"} THEN "done" ELSE pc[w])
  /\ waiters' = waiters \ {w}
  /\ cancels' = cancels + 1
  /\ UNCHANGED <<onLoop, disk, unnumbered, ready, through, drain, forwards, settler,
                owed, missed, failures, outVars>>

-----------------------------------------------------------------------------
\* _drain_ordered.  A second caller is turned away.
BeginDrain(t) ==
  /\ t \in calls
  /\ calls' = calls \ {t}
  /\ IF drain = NoDrain
     THEN drain' = [thread |-> t, phase |-> "check", item |-> NoOne] /\ UNCHANGED missed
     ELSE missed' = (missed \/ drain.phase = "finish") /\ UNCHANGED drain
  /\ UNCHANGED <<onLoop, disk, through, forwards, writerVars, setVars, waitVars,
                outVars, boundVars>>

\* MUTANT: a token without a number does not hold anybody up.
Unsettled_Never == FALSE
\* 1. Somebody may still get a lower number.
Unsettled == unnumbered # {}

\* MUTANT: only what is ready is compared.
Overtakes_Never(w) == FALSE
\* 3. Somebody with a lower number has not got to its point of delivery.
Overtakes(w) == \E v \in undelivered : Seq0(v) < Seq0(w)

\* 4. The event of a coroutine is for its own loop to deliver.
ElsewhereOwned(w, t) == w \in ready \cap AsyncWriters /\ t # Loop

Check(t) ==
  LET next == Lowest(ready \cup skipped)
      move(phase, item) == drain' = [drain EXCEPT !.phase = phase, !.item = item]
  IN /\ drain.thread = t /\ drain.phase = "check"
     /\ IF Unsettled \/ ready \cup skipped = {} \/ Overtakes(next)
        THEN move("finish", NoOne) /\ UNCHANGED <<ready, skipped, through, forwards>>
        ELSE IF ElsewhereOwned(next, t)
        THEN /\ move("finish", NoOne)
             /\ forwards' = forwards + 1
             /\ UNCHANGED <<ready, skipped, through>>
        ELSE /\ move(IF next \in ready THEN "deliver" ELSE "insert", next)
             /\ ready' = ready \ {next}
             /\ skipped' = skipped \ {next}
             /\ through' = Seq0(next)
             /\ UNCHANGED forwards
     /\ UNCHANGED <<onLoop, disk, unnumbered, numbered, undelivered, calls, missed,
                writerVars, waitVars, outVars, boundVars>>

\* bisect.insort: behind the last one with no higher number; that is the end
\* of memory, if the preconditions hold.
Insort(w) ==
  LET k == Max({0} \cup {i \in DOMAIN memory : Seq0(memory[i]) <= Seq0(w)})
  IN SubSeq(memory, 1, k) \o <<w>> \o SubSeq(memory, k + 1, Len(memory))

\* Outside the guard: memory and, unless its waiter gave up, the listeners.
Deliver(t) ==
  /\ drain.thread = t /\ drain.phase \in {"deliver", "insert"}
  /\ memory' = IF drain.phase = "deliver"
               THEN Append(memory, drain.item) ELSE Insort(drain.item)
  /\ heard' = IF drain.phase = "deliver"
              THEN Append(heard, [event |-> drain.item, on |-> t]) ELSE heard
  /\ drain' = [drain EXCEPT !.phase = "check", !.item = NoOne]
  /\ UNCHANGED <<onLoop, disk, through, calls, forwards, missed, writerVars,
                setVars, waitVars, boundVars>>

GateIdle == unnumbered \cup numbered \cup undelivered \cup ready \cup skipped = {}

\* The finally of _drain_ordered: the flag is cleared, waiters are woken.
FinishDrain(t) ==
  /\ drain.thread = t /\ drain.phase = "finish"
  /\ drain' = NoDrain
  /\ waiters' = {w \in waiters : Seq0(w) > through}
  /\ settler' = IF settler = "waiting" /\ GateIdle THEN "woken" ELSE settler
  /\ UNCHANGED <<onLoop, disk, through, calls, forwards, owed, missed, writerVars,
                setVars, outVars, boundVars>>

RunForward ==
  /\ forwards > 0 /\ Idle(Loop)
  /\ forwards' = forwards - 1
  /\ CallDrain(Loop)
  /\ UNCHANGED <<onLoop, disk, through, drain, missed, writerVars, setVars,
                waitVars, outVars, boundVars>>

-----------------------------------------------------------------------------
SettledNow == GateIdle

\* wait_gate_settled, called by a task of the loop before it reads since().
Settle ==
  /\ settler = "idle" /\ Idle(Loop)
  /\ settler' = IF SettledNow THEN "returned" ELSE "waiting"
  /\ owed' = {w \in Writers : told[w] = "ok"}
  /\ UNCHANGED <<onLoop, disk, waiters, writerVars, setVars, drainVars, outVars,
                boundVars>>

Settled ==
  /\ settler = "woken" /\ Idle(Loop)
  /\ settler' = "returned"
  /\ UNCHANGED <<onLoop, disk, waiters, owed, writerVars, setVars, drainVars,
                outVars, boundVars>>

-----------------------------------------------------------------------------
GateStep ==
  \/ \E w \in Writers :
       \/ Register(w) \/ WriteLine(w) \/ Flush(w) \/ Commit(w) \/ Return(w)
       \/ Callback(w) \/ Wake(w) \/ Raise(w) \/ WaitDelivered(w) \/ Resolved(w)
  \/ \E t \in Threads : BeginDrain(t) \/ Check(t) \/ Deliver(t) \/ FinishDrain(t)
  \/ RunForward \/ Settle \/ Settled
GateFault == \E w \in Writers : StoreFails(w) \/ CancelWaiter(w)

GateInit ==
  /\ onLoop \in SUBSET SyncWriters
  /\ disk = <<>> /\ memory = <<>> /\ heard = <<>>
  /\ pc = [w \in Writers |-> "start"]
  /\ told = [w \in Writers |-> "none"]
  /\ unnumbered = {} /\ numbered = {} /\ undelivered = {}
  /\ ready = {} /\ skipped = {} /\ waiters = {} /\ calls = {} /\ owed = {}
  /\ through = 0 /\ forwards = 0 /\ failures = 0 /\ cancels = 0
  /\ drain = NoDrain /\ settler = "idle" /\ missed = FALSE

GateTypeOK ==
  /\ onLoop \subseteq SyncWriters
  /\ disk \in Seq(Writers) /\ memory \in Seq(Writers)
  /\ heard \in Seq([event : Writers, on : Threads])
  /\ pc \in [Writers -> Places]
  /\ told \in [Writers -> {"none", "ok", "raised", "cancelled"}]
  /\ unnumbered \subseteq Writers /\ numbered \subseteq Writers
  /\ undelivered \subseteq Writers /\ ready \subseteq Writers
  /\ skipped \subseteq Writers /\ waiters \subseteq Writers
  /\ owed \subseteq Writers /\ calls \subseteq Threads
  /\ through \in Nat /\ forwards \in Nat
  /\ failures \in 0..MaxFailures /\ cancels \in 0..MaxCancels
  /\ drain \in [thread : Threads \cup {NoOne},
                phase : {"off", "check", "deliver", "insert", "finish"},
                item : Writers \cup {NoOne}]
  /\ settler \in {"idle", "waiting", "woken", "returned"}
  /\ missed \in BOOLEAN
=============================================================================
