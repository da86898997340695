---------------------------- MODULE WorkspaceLease ----------------------------
(***************************************************************************)
(* The right of one task to write to a directory, and the durable queue of *)
(* the tasks that wait for it (workspace/lease.py over lease_store.py).    *)
(* A session is a task; a directory is its normalised key.  Both tables    *)
(* survive a restart, nothing is cached.  The commands of the manager are  *)
(* serialised by its write lock, so that each is one action, except        *)
(* cancel_queued, whose two transactions can be cut apart.  Deleting a     *)
(* session leaves its rows to the reconciliation of the next start.        *)
(***************************************************************************)
EXTENDS Naturals, SequencesExt

CONSTANTS Sessions, Dirs,
          Overlap,   \* pairs of different keys of which one contains the other
          Clients,   \* sessions that can have a client present; none with
                     \* NoPresenceReader, which web/app.py assembles
          NoOne, NoDir

ASSUME LeaseAssumption ==
    /\ Overlap \subseteq Dirs \X Dirs
    /\ \A d, e \in Dirs : <<d, e>> \in Overlap => d # e /\ <<e, d>> \in Overlap
    /\ Clients \subseteq Sessions
    /\ NoOne \notin Sessions /\ NoDir \notin Dirs

VARIABLES lease,     \* workspace_leases: at most one row for each key
          queue,     \* workspace_lease_queue: the rows in state waiting
          up,        \* requests are served: ensure_stores is done
          dropping,  \* cancel_queued between its transactions
          exists,    \* sessions that have a log
          present,   \* has_present_client
          torn,      \* history: keys whose queue lost its last row unnoticed
          deserted   \* history: keys whose holder's row was deleted at a start

vars == <<lease, queue, up, dropping, exists, present, torn, deserted>>

Held(s)  == [state |-> "held", by |-> s]
Awaiting == [state |-> "awaiting_presence", by |-> NoOne]
Free     == [state |-> "free", by |-> NoOne]  \* no row

TypeOK ==
    /\ lease \in [Dirs -> {Held(s) : s \in Sessions} \cup {Awaiting, Free}]
    /\ queue \in Seq([session : Sessions, dir : Dirs])
    /\ up \in BOOLEAN
    /\ dropping \in Dirs \cup {NoDir}
    /\ exists \subseteq Sessions /\ present \subseteq Clients
    /\ torn \subseteq Dirs /\ deserted \subseteq Dirs

Init ==
    /\ lease = [d \in Dirs |-> Free] /\ queue = <<>>
    /\ up = TRUE /\ dropping = NoDir
    /\ exists = Sessions /\ present = {}
    /\ torn = {} /\ deserted = {}
-----------------------------------------------------------------------------
Rows      == {d \in Dirs : lease[d] # Free}
HeldBy(s) == {d \in Dirs : lease[d] = Held(s)}

Places(d)  == {i \in DOMAIN queue : queue[i].dir = d}
PlaceOf(s) == {i \in DOMAIN queue : queue[i].session = s}
Waiters(d) == {queue[i].session : i \in Places(d)}
IsHead(s, d) ==
    \E i \in Places(d) : queue[i].session = s /\ \A j \in Places(d) : i <= j

(* A waiting row leaves the queue: granted, cancelled or deleted.           *)
Leaves(s) ==
    \/ \E i \in PlaceOf(s) : queue' = RemoveAt(queue, i)
    \/ PlaceOf(s) = {} /\ UNCHANGED queue

(* The write lock is free, and requests are served.                         *)
Idle == up /\ dropping = NoDir

\* MUTANT: only directories that somebody holds are looked at.
Independent_Held(d) ==
    \A e \in Dirs : <<d, e>> \in Overlap => lease[e] \in {Free, Awaiting}
(* No row of a parent or a child directory.                                 *)
Independent(d) == \A e \in Rows : <<d, e>> \notin Overlap

Available(d) == lease[d] = Free
-----------------------------------------------------------------------------
(* The transactions *)

(* insert_waiting: at the end.                                              *)
InsertWaiting(s, d) == queue' = Append(queue, [session |-> s, dir |-> d])

(* The head of the queue takes the directory over, in one transaction.  The *)
(* unique index refuses a session that holds another one.                   *)
HandOver(d, h) ==
    /\ IsHead(h, d)
    /\ HeldBy(h) \subseteq {d}
    /\ lease' = [lease EXCEPT ![d] = Held(h)]
    /\ Leaves(h)

(* grant_awaiting                                                           *)
GrantAwaiting(d, h) ==
    /\ lease[d] = Awaiting
    /\ h \in present
    /\ HandOver(d, h)

(* _grant_awaited_locked does nothing.                                      *)
NothingToGrant(d) ==
    lease[d] = Awaiting => \E h \in Waiters(d) \ present : IsHead(h, d)
-----------------------------------------------------------------------------
(* The commands *)

(* acquire: a free directory is taken, for another one the session waits.   *)
(* A path that overlaps a row, a session that holds or waits for another    *)
(* directory and an awaited directory without a head are refused.           *)
Acquire(s, d) ==
    /\ Idle
    /\ HeldBy(s) = {}
    /\ NothingToGrant(d)
    /\ Independent(d)
    /\ \/ /\ Available(d)
          /\ lease' = [lease EXCEPT ![d] = Held(s)]
          /\ UNCHANGED queue
       \/ /\ ~Available(d)
          /\ PlaceOf(s) = {}
          /\ InsertWaiting(s, d)
          /\ UNCHANGED lease
    /\ UNCHANGED <<up, dropping, exists, present, torn, deserted>>

(* acquire of an awaited directory whose head has come back: it is granted  *)
(* to the head first, and another session then waits for that one.          *)
AcquireAwaited(s, d) ==
    /\ Idle
    /\ HeldBy(s) = {}
    /\ \E h \in present :
         /\ lease[d] = Awaiting /\ IsHead(h, d) /\ HeldBy(h) = {}
         /\ lease' = [lease EXCEPT ![d] = Held(h)]
         /\ \E i \in PlaceOf(h) :
              queue' = IF s # h /\ PlaceOf(s) = {} /\ Independent(d)
                       THEN Append(RemoveAt(queue, i), [session |-> s, dir |-> d])
                       ELSE RemoveAt(queue, i)
    /\ UNCHANGED <<up, dropping, exists, present, torn, deserted>>

(* grant_awaited: meant for the event that a client is present again.       *)
GrantAwaited(d) ==
    /\ Idle
    /\ \E h \in present : GrantAwaiting(d, h)
    /\ UNCHANGED <<up, dropping, exists, present, torn, deserted>>

\* MUTANT: any waiting session that is present is promoted.
Release_Anyone(s) ==
    /\ Idle
    /\ \E d \in HeldBy(s) :
         \/ /\ \E h \in Waiters(d) \cap present :
                 /\ lease' = [lease EXCEPT ![d] = Held(h)]
                 /\ Leaves(h)
         \/ /\ Waiters(d) # {} /\ Waiters(d) \cap present = {}
            /\ lease' = [lease EXCEPT ![d] = Awaiting]
            /\ UNCHANGED queue
         \/ /\ Waiters(d) = {}
            /\ lease' = [lease EXCEPT ![d] = Free]
            /\ UNCHANGED queue
    /\ UNCHANGED <<up, dropping, exists, present, torn, deserted>>

(* release: the head takes over if a client of it is present, the directory *)
(* waits for it if not, and is free when nobody waits.  One transaction,    *)
(* rolled back when the unique index refuses the head.                      *)
Release(s) ==
    /\ Idle
    /\ \E d \in HeldBy(s) :
         \/ \E h \in present : HandOver(d, h)
         \/ /\ \E h \in Waiters(d) \ present : IsHead(h, d)
            /\ lease' = [lease EXCEPT ![d] = Awaiting]
            /\ UNCHANGED queue
         \/ /\ Waiters(d) = {}
            /\ lease' = [lease EXCEPT ![d] = Free]
            /\ UNCHANGED queue
    /\ UNCHANGED <<up, dropping, exists, present, torn, deserted>>

\* MUTANT: the awaited directory of an empty queue is forgotten.
CancelQueued_Forgets(s) ==
    /\ Idle
    /\ PlaceOf(s) # {}
    /\ Leaves(s)
    /\ UNCHANGED <<lease, up, dropping, exists, present, torn, deserted>>

(* cancel_queued: the row is cancelled, and if the directory was awaiting   *)
(* this session only, a second transaction is to free it.                   *)
CancelQueued(s) ==
    /\ Idle
    /\ \E i \in PlaceOf(s) :
         LET d == queue[i].dir IN
           /\ queue' = RemoveAt(queue, i)
           /\ dropping' = IF lease[d] = Awaiting /\ Places(d) = {i} THEN d ELSE NoDir
    /\ UNCHANGED <<lease, up, exists, present, torn, deserted>>

(* drop_awaiting                                                            *)
DropAwaiting ==
    /\ up /\ dropping # NoDir
    /\ lease' = [lease EXCEPT ![dropping] = Free]
    /\ dropping' = NoDir
    /\ UNCHANGED <<queue, up, exists, present, torn, deserted>>

Torn == torn' = torn \cup ({dropping} \ {NoDir})

(* The second transaction fails, or the request is cancelled before it.     *)
DropFails ==
    /\ up /\ dropping # NoDir
    /\ dropping' = NoDir
    /\ Torn
    /\ UNCHANGED <<lease, queue, up, exists, present, deserted>>
-----------------------------------------------------------------------------
(* Sessions, clients and restarts *)

(* delete_session does not look at leases.                                  *)
DeleteSession(s) ==
    /\ up
    /\ s \in exists
    /\ exists' = exists \ {s}
    /\ present' = present \ {s}
    /\ UNCHANGED <<lease, queue, up, dropping, torn, deserted>>

ComesOrGoes(s) ==
    /\ up /\ s \in Clients \cap exists
    /\ present' = IF s \in present THEN present \ {s} ELSE present \cup {s}
    /\ UNCHANGED <<lease, queue, up, dropping, exists, torn, deserted>>

Crash ==
    /\ up
    /\ up' = FALSE /\ dropping' = NoDir /\ present' = {}
    /\ Torn
    /\ UNCHANGED <<lease, queue, exists, deserted>>

HasRows(s) == HeldBy(s) # {} \/ PlaceOf(s) # {}

(* reconcile_on_restart, drop_session_rows of a session that was deleted.   *)
DropSessionRows(s) ==
    /\ ~up
    /\ s \notin exists /\ HasRows(s)
    /\ lease' = [d \in Dirs |-> IF d \in HeldBy(s) THEN Free ELSE lease[d]]
    /\ Leaves(s)
    /\ deserted' = deserted \cup HeldBy(s)
    /\ torn' = torn \cup {d \in Dirs : Waiters(d) = {s}}
    /\ UNCHANGED <<up, dropping, exists, present>>

(* ... and its last part: it raises, and the application does not start, if *)
(* an awaited directory has no waiting session.                             *)
Start ==
    /\ ~up
    /\ \A s \in Sessions \ exists : ~HasRows(s)
    /\ \A d \in Dirs : lease[d] = Awaiting => Waiters(d) # {}
    /\ up' = TRUE
    /\ UNCHANGED <<lease, queue, dropping, exists, present, torn, deserted>>
-----------------------------------------------------------------------------
Command(s) == Release(s) \/ CancelQueued(s)
                \/ \E d \in Dirs : Acquire(s, d) \/ AcquireAwaited(s, d)

Next ==
    \/ \E s \in Sessions : Command(s) \/ DeleteSession(s) \/ ComesOrGoes(s) \/ DropSessionRows(s)
    \/ \E d \in Dirs : GrantAwaited(d)
    \/ DropAwaiting \/ DropFails \/ Crash \/ Start

Spec == Init /\ [][Next]_vars

-----------------------------------------------------------------------------
(* Properties *)

(* Two tasks never have rows, held or awaited, on directories of which one  *)
(* contains the other, so that no hand-over can put two writers there.      *)
OneWriterPerTree == \A d, e \in Rows : <<d, e>> \notin Overlap

(* While sessions wait for a directory, only the first of them takes it     *)
(* over: whoever releases, cancels, comes back, asks anew or dies.  The     *)
(* exception is a directory whose holder was deleted: the reconciliation    *)
(* frees it over the heads of those who wait, and the next to ask has it.   *)
TakesOver(s, d) == lease'[d] = Held(s) /\ lease[d] # Held(s)
ServedInOrder ==
    [][\A s \in Sessions, d \in Dirs :
         TakesOver(s, d) /\ Waiters(d) # {} =>
             IsHead(s, d) \/ (lease[d] = Free /\ d \in deserted)]_vars

(* A directory that awaits somebody has somebody waiting for it, unless the *)
(* second transaction of a cancellation was cut off or the sessions that    *)
(* waited were deleted.  Without one nobody can ever have it again.         *)
Unattended(d) == lease[d] = Awaiting /\ Waiters(d) = {} /\ dropping # d
AwaitingIsExplained == \A d \in Dirs : Unattended(d) => d \in torn
=============================================================================
