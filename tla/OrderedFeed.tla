------------------------------ MODULE OrderedFeed ------------------------------
(***************************************************************************)
(* The delivery gate of a session with the feed of its run                 *)
(* (session/runmanager.py): the run listens to the session, and the run    *)
(* task hands over the same events again when its appends return.  Both    *)
(* channels pass the same gate of sequence numbers.                        *)
(***************************************************************************)
EXTENDS DeliveryGate

VARIABLES
  cursor,     \* _last_enqueued_seq
  fed,        \* the events the subscribers were sent
  mirrored    \* writers whose event the run task has handed over

feedVars == <<cursor, fed, mirrored>>
vars == <<gateVars, feedVars>>

-----------------------------------------------------------------------------
\* enqueue_session_event and enqueue_agent_event, under _enqueue_guard.
Enqueue(w) ==
  IF Seq0(w) <= cursor THEN UNCHANGED <<cursor, fed>>
  ELSE cursor' = Seq0(w) /\ fed' = Append(fed, w)

\* The listener channel: whatever the gate lets through is enqueued.
Listen ==
  /\ GateStep
  /\ IF heard' = heard THEN UNCHANGED <<cursor, fed>>
     ELSE Enqueue(heard'[Len(heard')].event)
  /\ UNCHANGED mirrored

\* The mirror channel: RunManager._drive hands over what the run task has
\* appended on the loop, after one more wait_delivered.
Mirror(w) ==
  /\ w \in Writers \ mirrored /\ Home(w) = Loop
  /\ pc[w] = "done" /\ told[w] = "ok" /\ LetThrough(w) /\ Idle(Loop)
  /\ Enqueue(w)
  /\ mirrored' = mirrored \cup {w}
  /\ UNCHANGED gateVars

Next == Listen \/ (\E w \in Writers : Mirror(w)) \/ (GateFault /\ UNCHANGED feedVars)

Init == GateInit /\ cursor = 0 /\ fed = <<>> /\ mirrored = {}
Spec == Init /\ [][Next]_vars

\* Threads are scheduled and the loop runs its callbacks; a behaviour is
\* finite, so that fairness of the steps together is enough.
FairSpec == Spec /\ WF_vars(Listen)

-----------------------------------------------------------------------------
Ascending(s) == \A i, j \in DOMAIN s : i < j => Seq0(s[i]) < Seq0(s[j])
Failed(w) == pc[w] \in {"failed", "raising"} \/ told[w] = "raised"
Heard == {heard[i].event : i \in DOMAIN heard}

TypeOK ==
  /\ GateTypeOK
  /\ cursor \in Nat /\ fed \in Seq(Writers) /\ mirrored \subseteq Writers

\* Listeners are called, and memory grows, in the order of the file and once
\* for each event, whichever thread drains and whoever gives up waiting; the
\* event of a coroutine is announced on its own event loop.  No frame is lost
\* between the two channels to the clients: the mirror never moves the cursor
\* past an event that a listener is still to be called with.
DeliveredInOrder ==
  /\ Ascending(memory)
  /\ Ascending([i \in DOMAIN heard |-> heard[i].event])
  /\ Heard \subseteq Lines(memory)
  /\ \A i \in DOMAIN heard : heard[i].event \in AsyncWriters => heard[i].on = Loop
  /\ Ascending(fed)
  /\ Heard \subseteq Lines(fed)

\* append_async returns when its event and all before it have been let
\* through; only an event whose append failed or was given up may be missing.
\* wait_gate_settled returns with everything in memory that had been appended
\* when it was called, but for the event a drain has in its hand.
ReturnedIsDelivered ==
  /\ \A w \in AsyncWriters : told[w] = "ok" =>
       \A v \in Lines(disk) : Seq0(v) <= Seq0(w) =>
         \/ v \in Heard \/ v = drain.item
         \/ Failed(v) \/ told[v] = "cancelled"
  /\ settler = "returned" => owed \subseteq Lines(memory) \cup {drain.item}

Delivered ==
  /\ \A w \in Writers : pc[w] = "done" /\ (told[w] = "ok" => w \in Lines(memory))
  /\ GateIdle /\ waiters = {} /\ settler \notin {"waiting", "woken"}

\* Every event is delivered in the end and nobody waits for ever, unless a
\* drain was turned away by one that had already looked for the last time.
DeliveredUnlessMissed == <>missed \/ <>[]Delivered

\* session.py on the gate: delivery "is guaranteed to happen in the end, each
\* thread with a state change tries to drain".
EventuallyDelivered == <>[]Delivered
=============================================================================
