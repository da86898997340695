----------------------------- MODULE StreamClients -----------------------------
(***************************************************************************)
(* The clients of a session's event stream (session/runmanager.py, the     *)
(* stream_ methods of session/service.py and GET /stream of web/app.py):   *)
(* what is durable is replayed from the disk, what comes later is taken    *)
(* from a bounded queue.                                                   *)
(*                                                                         *)
(* A Reconnecting client subscribes to the run in flight, a follower       *)
(* (?follow=1) to the session.  Events are numbered from 1, and 0 stands   *)
(* for the -1 of the code.  The run enqueues its events in order and once, *)
(* which OrderedFeed shows.                                                *)
(***************************************************************************)
EXTENDS Sequences, FiniteSetsExt

CONSTANTS
  Clients,
  Done, Resync,              \* the sentinels of a queue
  QueueMax,                  \* SUBSCRIBER_QUEUE_MAX
  ReplayMax,                 \* STREAM_REPLAY_MAX_EVENTS
  MaxEvents, MaxRuns, MaxBreaks   \* bounds; the code has none

Runs == 1..MaxRuns
Session == MaxRuns + 1

ASSUME SentinelAssumption == Done # Resync /\ {Done, Resync} \cap Nat = {}
ASSUME StreamBoundAssumption ==
  /\ {QueueMax, ReplayMax} \subseteq Nat \ {0}
  /\ {MaxEvents, MaxRuns, MaxBreaks} \subseteq Nat

VARIABLES
  followers, \* the clients that ask for ?follow=1
  disk,      \* events 1..disk are durable
  unheard,   \* those that no listener is called with
  current,   \* the run of _runs, 0 before the first
  state,     \* state[r]: none, live, terminal (the flag), finished (the task)
  base,      \* base[r]: what was durable when r was launched
  last,      \* last[r]: the terminal event of r, 0 before it is appended
  cursor,    \* cursor[r]: _last_enqueued_seq
  fan,       \* the _fanout under way, under _enqueue_guard
  conn,      \* conn[k]: the request of client k and its connection
  have,      \* have[k]: all it has been shown
  dropped,   \* dropped[k]: what fell out of its queue
  skipped,   \* skipped[k]: what its requests neither replayed nor queued
  breaks

runVars == <<followers, disk, unheard, current, state, base, last, cursor>>
clientVars == <<conn, have, dropped, skipped, breaks>>
vars == <<runVars, fan, clientVars>>

\* sub: the run subscribed to, or Session, or 0; after: after_seq; snap: what
\* was durable when the file was read; upto: replay_upto; sent: the frames.
Away == [at |-> "away", sub |-> 0, queue |-> <<>>, after |-> 0, snap |-> 0,
         upto |-> 0, sent |-> <<>>]
Reconnecting == Clients \ followers
NoFan == [run |-> 0, event |-> 0, to |-> "nobody"]
Newest(k) == Max(have[k] \cup {0})
InFlight == {r \in Runs : r = current /\ state[r] = "live"}   \* get_active
Pending(r) == (base[r] + 1 .. disk) \ (1..cursor[r] \cup unheard)

-----------------------------------------------------------------------------
\* RunManager.launch; the ManagedRun starts with a cursor of its own.
Launch(r) ==
  /\ state[r] = "none" /\ r = current + 1 /\ InFlight = {}
  /\ current' = r
  /\ state' = [state EXCEPT ![r] = "live"]
  /\ base' = [base EXCEPT ![r] = disk]
  /\ UNCHANGED <<followers, disk, unheard, last, cursor, fan, clientVars>>

\* The run makes an event durable, its terminal one perhaps.  Listeners are
\* not called with an event whose writer was cancelled before it was durable.
AppendLive(r) ==
  /\ state[r] = "live" /\ last[r] = 0 /\ disk < MaxEvents
  /\ disk' = disk + 1
  /\ \/ unheard' = unheard \cup {disk + 1} /\ UNCHANGED last
     \/ UNCHANGED <<unheard, last>>
     \/ last' = [last EXCEPT ![r] = disk + 1] /\ UNCHANGED unheard
  /\ UNCHANGED <<followers, current, state, base, cursor, fan, clientVars>>

\* _append_session_event without a live session: nobody listens.
AppendQuiet ==
  /\ InFlight = {} /\ disk < MaxEvents
  /\ disk' = disk + 1
  /\ unheard' = unheard \cup {disk + 1}
  /\ UNCHANGED <<followers, current, state, base, last, cursor, fan, clientVars>>

-----------------------------------------------------------------------------
\* enqueue_session_event up to the fan-out, which a drain on another thread
\* may run beside the requests.
Enqueue(r) ==
  /\ fan = NoFan /\ state[r] = "live" /\ Pending(r) # {}
  /\ LET event == Min(Pending(r))
     IN /\ cursor' = [cursor EXCEPT ![r] = event]
        /\ fan' = [run |-> r, event |-> event, to |-> "run"]
  /\ UNCHANGED <<followers, disk, unheard, current, state, base, last, clientVars>>

Full(q) == Len(q) = QueueMax

\* A full queue of a subscriber loses its oldest item for the new one.
Offer(q, item) == Append(IF Full(q) THEN Tail(q) ELSE q, item)

\* MUTANT: a follower is treated like a subscriber of the run.
OfferFollower_Drops(q, item) == Offer(q, item)
\* A full queue of a follower is made void.
OfferFollower(q, item) == IF Full(q) THEN <<Resync>> ELSE Append(q, item)

\* MUTANT: a sentinel does not push anything out.
OfferDone_IfRoom(q) == IF Full(q) THEN q ELSE Append(q, Done)
OfferDone(q) == Offer(q, Done)

\* The subscribers of r get the queues offered; what falls out of one is lost.
Publish(r, offered) ==
  LET subs == {k \in Clients : conn[k].sub = r}
  IN /\ conn' = [k \in Clients |-> IF k \in subs
                   THEN [conn[k] EXCEPT !.queue = offered[k]] ELSE conn[k]]
     /\ dropped' = [k \in Clients |-> IF k \in subs /\ Full(conn[k].queue)
                      THEN dropped[k] \cup {Head(conn[k].queue)} ELSE dropped[k]]

FanOut ==
  /\ fan.to = "run"
  /\ Publish(fan.run, [k \in Clients |-> Offer(conn[k].queue, fan.event)])
  /\ fan' = [fan EXCEPT !.to = "session"]
  /\ UNCHANGED <<runVars, have, skipped, breaks>>

\* _fanout_session; then _on_session_event marks the run terminal.
FanOutSession ==
  /\ fan.to = "session"
  /\ conn' = [k \in Clients |-> IF conn[k].sub = Session
                THEN [conn[k] EXCEPT !.queue = OfferFollower(@, fan.event)] ELSE conn[k]]
  /\ state' = IF fan.event = last[fan.run]
              THEN [state EXCEPT ![fan.run] = "terminal"] ELSE state
  /\ fan' = NoFan
  /\ UNCHANGED <<followers, disk, unheard, current, base, last, cursor, have, dropped,
                skipped, breaks>>

\* The finally of _drive, after the terminal event or an exception: the
\* listener is removed, whatever is still at the gate, and finish() called.
Finish(r) ==
  /\ fan.run # r /\ state[r] \in {"live", "terminal"}
  /\ state' = [state EXCEPT ![r] = "finished"]
  /\ unheard' = unheard \cup IF state[r] = "live" THEN Pending(r) ELSE {}
  /\ Publish(r, [k \in Clients |-> OfferDone(conn[k].queue)])
  /\ UNCHANGED <<followers, disk, current, base, last, cursor, fan, have, skipped,
                breaks>>

-----------------------------------------------------------------------------
\* GET /stream?after_seq=n.  A follower is subscribed before the file is read.
Request(k) ==
  /\ conn[k].at = "away"
  /\ conn' = [conn EXCEPT ![k].at = "reading", ![k].after = Newest(k),
                          ![k].sub = IF k \in followers THEN Session ELSE 0]
  /\ UNCHANGED <<runVars, fan, have, dropped, skipped, breaks>>

\* read_events, on a thread; no events is 404.
Read(k) ==
  /\ conn[k].at = "reading" /\ disk > 0
  /\ conn' = [conn EXCEPT ![k].at = "read", ![k].snap = disk]
  /\ UNCHANGED <<runVars, fan, have, dropped, skipped, breaks>>

\* MUTANT: the replay of a follower ends at the cursor of the run, too.
FollowUpto_Cursor(k) == IF InFlight = {} THEN conn[k].snap ELSE cursor[current]
FollowUpto(k) == conn[k].snap

\* The request goes on on the loop: the cursor is taken, after a subscription
\* to the run in flight; a backlog that is too long is left to a rebuild.
Open(k) ==
  LET c == conn[k]
      r == IF k \in Reconnecting /\ InFlight # {} THEN current ELSE 0
      upto == IF k \in followers THEN FollowUpto(k)
              ELSE IF r # 0 THEN cursor[r] ELSE c.snap
      truncated == c.snap - c.after > ReplayMax
      \* what the run will not enqueue any more
      past == IF r = 0 THEN {} ELSE c.after + 1 .. Max({base[r], cursor[r]})
  IN /\ c.at = "read"
     /\ conn' = [conn EXCEPT ![k] = IF truncated THEN [Away EXCEPT !.at = "rebuilding"]
                  ELSE [c EXCEPT !.at = "replaying", !.upto = upto,
                                 !.sub = IF k \in followers THEN @ ELSE r]]
     /\ skipped' = [skipped EXCEPT ![k] = @ \cup
                      IF truncated THEN {} ELSE {e \in past : e > c.snap \/ e > upto}]
     /\ UNCHANGED <<runVars, fan, have, dropped, breaks>>

\* GET /events after stream/truncated.
Rebuild(k) ==
  /\ conn[k].at = "rebuilding"
  /\ conn' = [conn EXCEPT ![k] = Away]
  /\ have' = [have EXCEPT ![k] = 1..disk]
  /\ UNCHANGED <<runVars, fan, dropped, skipped, breaks>>

Window(k) == conn[k].after + 1 .. Min({conn[k].upto, conn[k].snap})

\* The generators: first the window of the replay.
Replay(k) ==
  LET c == conn[k]
      window == Window(k)
  IN /\ c.at = "replaying"
     /\ conn' = [conn EXCEPT ![k] = IF c.sub = 0 THEN Away ELSE
                   [c EXCEPT !.at = "live",
                             !.sent = [i \in 1..Cardinality(window) |-> c.after + i]]]
     /\ have' = [have EXCEPT ![k] = @ \cup window]
     /\ UNCHANGED <<runVars, fan, dropped, skipped, breaks>>

Covered(k, event) == event <= conn[k].upto

\* Then the queue, until a sentinel.
Forward(k) ==
  LET c == conn[k]
      item == Head(c.queue)
  IN /\ c.at = "live" /\ c.queue # <<>>
     /\ IF item \in {Done, Resync}
        THEN conn' = [conn EXCEPT ![k] = Away] /\ UNCHANGED have
        ELSE IF Covered(k, item)
        THEN conn' = [conn EXCEPT ![k].queue = Tail(@)] /\ UNCHANGED have
        ELSE /\ conn' = [conn EXCEPT ![k].queue = Tail(@), ![k].sent = Append(@, item)]
             /\ have' = [have EXCEPT ![k] = @ \cup {item}]
     /\ UNCHANGED <<runVars, fan, dropped, skipped, breaks>>

\* The connection breaks; the generator's finally unsubscribes.
Break(k) ==
  /\ breaks < MaxBreaks /\ conn[k].at \in {"reading", "replaying", "live"}
  /\ conn' = [conn EXCEPT ![k] = Away]
  /\ breaks' = breaks + 1
  /\ UNCHANGED <<runVars, fan, have, dropped, skipped>>

-----------------------------------------------------------------------------
Feed == (\E r \in Runs : Enqueue(r) \/ Finish(r)) \/ FanOut \/ FanOutSession
Serve(k) == Read(k) \/ Open(k) \/ Replay(k) \/ Forward(k) \/ Rebuild(k)
World ==
  \/ \E r \in Runs : Launch(r) \/ AppendLive(r)
  \/ AppendQuiet
  \/ \E k \in Clients : Request(k) \/ Break(k)
Next == Feed \/ (\E k \in Clients : Serve(k)) \/ World

Init ==
  /\ followers \in SUBSET Clients
  /\ disk = 0 /\ unheard = {} /\ current = 0 /\ fan = NoFan /\ breaks = 0
  /\ state = [r \in Runs |-> "none"]
  /\ base = [r \in Runs |-> 0] /\ last = [r \in Runs |-> 0]
  /\ cursor = [r \in Runs |-> 0]
  /\ conn = [k \in Clients |-> Away]
  /\ have = [k \in Clients |-> {}]
  /\ dropped = [k \in Clients |-> {}] /\ skipped = [k \in Clients |-> {}]

Spec == Init /\ [][Next]_vars
\* The run goes on to its end, the server serves, and a follower whose stream
\* has ended connects again (tui/src/app.ts).
FairSpec ==
  /\ Spec /\ WF_vars(Feed)
  /\ \A k \in Clients : WF_vars(Serve(k))
  /\ \A k \in Clients : WF_vars(k \in followers /\ Request(k))

-----------------------------------------------------------------------------
TypeOK ==
  /\ followers \subseteq Clients
  /\ disk \in 0..MaxEvents /\ unheard \subseteq 1..disk /\ current \in 0..MaxRuns
  /\ state \in [Runs -> {"none", "live", "terminal", "finished"}]
  /\ {base, last, cursor} \subseteq [Runs -> 0..disk]
  /\ fan \in [run : 0..MaxRuns, event : 0..disk, to : {"nobody", "run", "session"}]
  /\ \A k \in Clients :
       /\ conn[k].at \in {"away", "reading", "read", "replaying", "live", "rebuilding"}
       /\ conn[k].sub \in 0..Session
       /\ {conn[k].after, conn[k].snap, conn[k].upto} \subseteq 0..disk
       /\ conn[k].queue \in Seq(1..disk \cup {Done, Resync})
       /\ Len(conn[k].queue) <= QueueMax
       /\ conn[k].sent \in Seq(1..disk)
       /\ have[k] \cup skipped[k] \cup dropped[k] \subseteq 1..disk
  /\ breaks \in 0..MaxBreaks

\* Whatever a client has not been shown although it has seen something later.
Gaps(k) == (1..Newest(k)) \ (have[k] \cup unheard)

\* A follower has no gap among the events of runs, across overflows, broken
\* connections and the ends of runs; a client that reconnects to a run lacks
\* what its full queue dropped and what a request neither replayed nor queued,
\* nothing else; and no connection shows an event twice or out of order:
\* replay and queue do not overlap.
NoGapNoRepeat ==
  /\ \A k \in followers : Gaps(k) = {}
  /\ \A k \in Reconnecting : Gaps(k) \subseteq dropped[k] \cup skipped[k]
  /\ \A k \in Clients : \A i, j \in DOMAIN conn[k].sent :
       i < j => conn[k].sent[i] < conn[k].sent[j]

\* The end of a run reaches every subscriber, however full its queue.
StreamEnds ==
  \A k \in Clients : \A r \in Runs :
    (conn[k].sub = r /\ state[r] = "finished") ~> conn[k].sub # r

\* In the end a follower has been shown every event of every run.
FollowerCatchesUp ==
  <>[](\A k \in followers :
         UNION {(base[r] + 1 .. cursor[r]) \ unheard : r \in Runs} \subseteq have[k])
=============================================================================
