---------------------------- MODULE ExclusionProofs ----------------------------
(***************************************************************************)
(* What excludes what, for any number of everything.                       *)
(*                                                                         *)
(* WorkspaceLease: two tasks never get at one tree of directories, those   *)
(* who wait are served in their order and no awaited directory is left     *)
(* without somebody who waits for it, but for the causes named: for any    *)
(* sessions and directories and any relation of overlap.                   *)
(*                                                                         *)
(* ResourceLocks: a resource has one user, a free lock is never left with  *)
(* sleeping waiters, and no circle of calls waits for itself, for any      *)
(* calls and keys.  The last fact needs only that a call holds smaller     *)
(* keys than the ones it still wants; the first two need what a woken      *)
(* waiter may rely on until it runs.                                       *)
(***************************************************************************)
EXTENDS WorkspaceLease, ResourceLocks, TLAPS

(* What the invariant says of a queue, as operators of any sequence.        *)
QueueRows   == [session : Sessions, dir : Dirs]
WaitersOf(q, d) == {q[i].session : i \in {j \in DOMAIN q : q[j].dir = d}}
OneEach(q)  == \A i, j \in DOMAIN q : q[i].session = q[j].session => i = j

-----------------------------------------------------------------------------
(* The invariant *)

(* A session waits in one place only (workspace_lease_queue_waiting).       *)
OnePlace == OneEach(queue)

(* Between its transactions cancel_queued has taken away the last row.      *)
DroppingIsLast ==
    dropping # NoDir => lease[dropping] = Awaiting /\ Waiters(dropping) = {}

(* A free directory that somebody waits for has lost its holder's row.      *)
FreeIsExplained ==
    \A d \in Dirs : lease[d] = Free /\ Waiters(d) # {} => d \in deserted

LeaseInv ==
    /\ TypeOK
    /\ OnePlace
    /\ DroppingIsLast
    /\ FreeIsExplained
    /\ OneWriterPerTree
    /\ AwaitingIsExplained
-----------------------------------------------------------------------------
(* The queue *)

(* Leaving a place out moves the later ones up.                             *)
LEMMA PlacesLeft ==
    ASSUME NEW q \in Seq(QueueRows), NEW i \in DOMAIN q
    PROVE  /\ RemoveAt(q, i) \in Seq(QueueRows)
           /\ Len(RemoveAt(q, i)) = Len(q) - 1
           /\ \A k \in 1 .. Len(q) - 1 :
                RemoveAt(q, i)[k] = IF k < i THEN q[k] ELSE q[k + 1]
<1> DEFINE a == SubSeq(q, 1, i - 1)
           b == SubSeq(q, i + 1, Len(q))
<1>1. i \in 1 .. Len(q) /\ Len(q) \in Nat /\ i \in Nat
  OBVIOUS
<1>2. a \in Seq(QueueRows) /\ Len(a) = i - 1 /\ \A k \in 1 .. i - 1 : a[k] = q[k]
  BY <1>1
<1>3. b \in Seq(QueueRows) /\ Len(b) = Len(q) - i /\ \A k \in 1 .. Len(q) - i : b[k] = q[k + i]
  BY <1>1
<1> HIDE DEF a, b
<1>4. a \o b \in Seq(QueueRows) /\ Len(a \o b) = Len(q) - 1
  BY <1>1, <1>2, <1>3
<1>5. ASSUME NEW k \in 1 .. Len(q) - 1
      PROVE  (a \o b)[k] = IF k < i THEN q[k] ELSE q[k + 1]
  <2>1. CASE k < i
    BY <1>1, <1>2, <1>3, <2>1
  <2>2. CASE ~(k < i)
    <3>1. k - (i - 1) \in 1 .. Len(q) - i
      BY <1>1, <2>2
    <3>2. (a \o b)[k] = b[k - (i - 1)]
      BY <1>1, <1>2, <1>3, <2>2
    <3> QED  BY <1>1, <1>3, <2>2, <3>1, <3>2
  <2> QED  BY <2>1, <2>2
<1> QED  BY <1>4, <1>5 DEF RemoveAt, a, b

(* The session that leaves is missed at its directory, and nobody else is.  *)
LEMMA Leaving ==
    ASSUME NEW q \in Seq(QueueRows), OneEach(q), NEW i \in DOMAIN q
    PROVE  /\ RemoveAt(q, i) \in Seq(QueueRows)
           /\ OneEach(RemoveAt(q, i))
           /\ \A k \in DOMAIN RemoveAt(q, i) :
                RemoveAt(q, i)[k].session # q[i].session
           /\ \A d : WaitersOf(RemoveAt(q, i), d) = WaitersOf(q, d) \ {q[i].session}
<1> DEFINE r == RemoveAt(q, i)
<1>1. /\ r \in Seq(QueueRows) /\ Len(r) = Len(q) - 1
      /\ \A k \in 1 .. Len(q) - 1 : r[k] = IF k < i THEN q[k] ELSE q[k + 1]
  BY PlacesLeft
<1> HIDE DEF r
<1>2. i \in 1 .. Len(q) /\ DOMAIN q = 1 .. Len(q) /\ Len(q) \in Nat
      /\ DOMAIN r = 1 .. Len(q) - 1
  BY <1>1
<1>3. ASSUME NEW k \in DOMAIN r
      PROVE  \E j \in DOMAIN q : j # i /\ r[k] = q[j] /\ j = IF k < i THEN k ELSE k + 1
  BY <1>1, <1>2
<1>4. ASSUME NEW j \in DOMAIN q, j # i
      PROVE  \E k \in DOMAIN r : r[k] = q[j]
  <2>1. CASE j < i
    <3>1. j \in DOMAIN r /\ r[j] = q[j]
      BY <1>1, <1>2, <2>1
    <3> QED  BY <3>1
  <2>2. CASE j > i
    <3>1. j - 1 \in DOMAIN r /\ ~(j - 1 < i) /\ (j - 1) + 1 = j
      BY <1>2, <2>2
    <3>2. r[j - 1] = q[j]
      BY <1>1, <1>2, <3>1
    <3> QED  BY <3>1, <3>2
  <2> QED  BY <1>2, <1>4, <2>1, <2>2
<1>5. OneEach(r)
  <2> SUFFICES ASSUME NEW k \in DOMAIN r, NEW l \in DOMAIN r, r[k].session = r[l].session
               PROVE  k = l
    BY DEF OneEach
  <2>1. PICK j \in DOMAIN q : r[k] = q[j] /\ j = IF k < i THEN k ELSE k + 1
    BY <1>3
  <2>2. PICK m \in DOMAIN q : r[l] = q[m] /\ m = IF l < i THEN l ELSE l + 1
    BY <1>3
  <2>3. j = m
    BY <2>1, <2>2 DEF OneEach
  <2> QED  BY <1>2, <2>1, <2>2, <2>3
<1>6. \A k \in DOMAIN r : r[k].session # q[i].session
  BY <1>3 DEF OneEach
<1>7. ASSUME NEW d PROVE WaitersOf(r, d) = WaitersOf(q, d) \ {q[i].session}
  <2>1. ASSUME NEW s \in WaitersOf(r, d) PROVE s \in WaitersOf(q, d) \ {q[i].session}
    BY <1>3, <1>6 DEF WaitersOf
  <2>2. ASSUME NEW s \in WaitersOf(q, d), s # q[i].session PROVE s \in WaitersOf(r, d)
    <3>1. PICK j \in DOMAIN q : q[j].dir = d /\ q[j].session = s
      BY DEF WaitersOf
    <3>2. PICK k \in DOMAIN r : r[k] = q[j]
      BY <1>4, <2>2, <3>1
    <3> QED  BY <3>1, <3>2 DEF WaitersOf
  <2> QED  BY <2>1, <2>2
<1> QED  BY <1>1, <1>5, <1>6, <1>7 DEF r

(* A session that waits nowhere queues up at the end.                       *)
LEMMA Joining ==
    ASSUME NEW q \in Seq(QueueRows), OneEach(q), NEW s \in Sessions, NEW e \in Dirs,
           \A k \in DOMAIN q : q[k].session # s
    PROVE  LET r == Append(q, [session |-> s, dir |-> e]) IN
             /\ r \in Seq(QueueRows)
             /\ OneEach(r)
             /\ \A d : d # e => WaitersOf(r, d) = WaitersOf(q, d)
             /\ s \in WaitersOf(r, e)
<1> DEFINE row == [session |-> s, dir |-> e]
           r == Append(q, row)
<1>1. row \in QueueRows /\ row.session = s /\ row.dir = e
  BY DEF QueueRows
<1> HIDE DEF row
<1>2. /\ r \in Seq(QueueRows) /\ DOMAIN q = 1 .. Len(q) /\ Len(q) \in Nat
      /\ DOMAIN r = 1 .. Len(q) + 1
      /\ \A k \in 1 .. Len(q) : r[k] = q[k]
      /\ r[Len(q) + 1] = row
  BY <1>1
<1> HIDE DEF r
<1>3. OneEach(r)
  BY <1>1, <1>2 DEF OneEach
<1>4. ASSUME NEW d, d # e PROVE WaitersOf(r, d) = WaitersOf(q, d)
  <2>1. {j \in DOMAIN r : r[j].dir = d} = {j \in DOMAIN q : q[j].dir = d}
    BY <1>1, <1>2, <1>4
  <2> QED  BY <1>2, <2>1 DEF WaitersOf
<1>5. s \in WaitersOf(r, e)
  BY <1>1, <1>2 DEF WaitersOf
<1> QED  BY <1>2, <1>3, <1>4, <1>5 DEF r, row
-----------------------------------------------------------------------------
(* The rows *)

LEMMA ThreeStates ==
    /\ Awaiting # Free
    /\ \A s : Held(s) # Free /\ Held(s) # Awaiting
    /\ \A s, t : Held(s) = Held(t) => s = t
  BY DEF Held, Awaiting, Free

(* The named sets of the model are those of the operators above.            *)
LEMMA WaitersAre == \A d : Waiters(d) = WaitersOf(queue, d)
  BY DEF Waiters, Places, WaitersOf

LEMMA WaitersAreThen == \A d : Waiters(d)' = WaitersOf(queue', d)
  BY DEF Waiters, Places, WaitersOf

(* A session that leaves the queue leaves it at its one place.              *)
LEMMA LeavesOnce ==
    ASSUME queue \in Seq(QueueRows), OnePlace,
           NEW i \in DOMAIN queue, queue' = RemoveAt(queue, i)
    PROVE  /\ queue' \in Seq(QueueRows)
           /\ OnePlace'
           /\ \A d : Waiters(d)' = Waiters(d) \ {queue[i].session}
           /\ \A d : d # queue[i].dir => Waiters(d)' = Waiters(d)
<1>1. /\ queue' \in Seq(QueueRows) /\ OneEach(queue')
      /\ \A d : WaitersOf(queue', d) = WaitersOf(queue, d) \ {queue[i].session}
  BY Leaving DEF OnePlace
<1>2. \A d : d # queue[i].dir => queue[i].session \notin WaitersOf(queue, d)
  BY DEF OnePlace, OneEach, WaitersOf
<1> QED  BY <1>1, <1>2, WaitersAre, WaitersAreThen DEF OnePlace

(* What a step that only moves rows of the queue and lets some leases pass  *)
(* from one owner to another has to keep.                                   *)
LEMMA HandOverKeeps ==
    ASSUME LeaseInv, Idle, NEW d \in Dirs, NEW h \in Sessions,
           lease[d] # Free, HandOver(d, h),
           UNCHANGED <<up, dropping, exists, present, torn, deserted>>
    PROVE  LeaseInv'
<1> USE DEF LeaseInv
<1>1. PICK i \in Places(d) : queue[i].session = h
  BY DEF HandOver, IsHead
<1>2. i \in DOMAIN queue /\ queue[i].dir = d /\ i \in PlaceOf(h)
  BY <1>1 DEF Places, PlaceOf
<1>3. queue' = RemoveAt(queue, i)
  <2>1. \A j \in PlaceOf(h) : j = i
    BY <1>1, <1>2 DEF PlaceOf, OnePlace, OneEach
  <2> QED  BY <1>2, <2>1 DEF HandOver, Leaves
<1>4. queue \in Seq(QueueRows)
  BY DEF TypeOK, QueueRows
<1>5. /\ queue' \in Seq(QueueRows) /\ OnePlace'
      /\ \A e : Waiters(e)' \subseteq Waiters(e)
      /\ \A e : e # d => Waiters(e)' = Waiters(e)
  BY <1>2, <1>3, <1>4, LeavesOnce
<1>6. /\ lease' = [lease EXCEPT ![d] = Held(h)]
      /\ lease'[d] = Held(h) /\ \A e \in Dirs : e # d => lease'[e] = lease[e]
  BY DEF HandOver, TypeOK
<1>7. TypeOK'
  BY <1>5, <1>6 DEF TypeOK, QueueRows
<1>8. DroppingIsLast'
  BY DEF Idle, DroppingIsLast
<1>9. FreeIsExplained'
  BY <1>5, <1>6, ThreeStates DEF FreeIsExplained
<1>10. OneWriterPerTree'
  <2>1. Rows' = Rows
    BY <1>6, ThreeStates DEF Rows
  <2> QED  BY <2>1 DEF OneWriterPerTree
<1>11. AwaitingIsExplained'
  BY <1>5, <1>6, ThreeStates DEF AwaitingIsExplained, Unattended
<1> QED  BY <1>5, <1>7, <1>8, <1>9, <1>10, <1>11
-----------------------------------------------------------------------------
(* The commands *)

LEMMA InitHolds == Init => LeaseInv
<1> SUFFICES ASSUME Init PROVE LeaseInv
  OBVIOUS
<1> USE DEF Init
<1>1. DOMAIN queue = {} /\ queue \in Seq(QueueRows)
  OBVIOUS
<1>2. \A d : Waiters(d) = {}
  BY <1>1 DEF Waiters, Places
<1>3. TypeOK
  BY <1>1 DEF TypeOK, QueueRows
<1> QED
  BY <1>1, <1>2, <1>3, ThreeStates, LeaseAssumption
  DEF LeaseInv, OnePlace, OneEach, DroppingIsLast, FreeIsExplained, OneWriterPerTree,
      AwaitingIsExplained, Unattended, Rows

LEMMA AcquireKeeps ==
    ASSUME LeaseInv, NEW s \in Sessions, NEW d \in Dirs, Acquire(s, d)
    PROVE  LeaseInv'
<1> USE DEF LeaseInv
<1>1. CASE /\ Available(d)
           /\ lease' = [lease EXCEPT ![d] = Held(s)]
           /\ UNCHANGED queue
  <2>1. lease'[d] = Held(s) /\ \A e \in Dirs : e # d => lease'[e] = lease[e]
    BY <1>1 DEF TypeOK
  <2>2. Rows' = Rows \cup {d}
    BY <2>1, ThreeStates DEF Rows
  <2>3. OneWriterPerTree'
    BY <2>2, LeaseAssumption DEF OneWriterPerTree, Acquire, Independent
  <2>4. \A e : Waiters(e)' = Waiters(e)
    BY <1>1 DEF Waiters, Places
  <2>5. TypeOK' /\ OnePlace'
    BY <1>1, <2>1 DEF TypeOK, OnePlace, Acquire
  <2> QED
    BY <2>1, <2>3, <2>4, <2>5, ThreeStates
    DEF Acquire, Idle, DroppingIsLast, FreeIsExplained, AwaitingIsExplained, Unattended
<1>2. CASE /\ ~Available(d)
           /\ PlaceOf(s) = {}
           /\ InsertWaiting(s, d)
           /\ UNCHANGED lease
  <2>1. queue \in Seq(QueueRows) /\ OneEach(queue)
    BY DEF TypeOK, QueueRows, OnePlace
  <2>2. \A k \in DOMAIN queue : queue[k].session # s
    BY <1>2 DEF PlaceOf
  <2>3. /\ queue' \in Seq(QueueRows) /\ OneEach(queue')
        /\ \A e : e # d => Waiters(e)' = Waiters(e)
        /\ Waiters(d)' # {}
    BY <1>2, <2>1, <2>2, Joining, WaitersAre, WaitersAreThen DEF InsertWaiting
  <2>4. TypeOK' /\ OnePlace'
    BY <1>2, <2>3 DEF TypeOK, QueueRows, OnePlace, Acquire
  <2>5. OneWriterPerTree'
    BY <1>2 DEF OneWriterPerTree, Rows
  <2> QED
    BY <1>2, <2>3, <2>4, <2>5
    DEF Acquire, Idle, Available, DroppingIsLast, FreeIsExplained, AwaitingIsExplained,
        Unattended
<1> QED  BY <1>1, <1>2 DEF Acquire

LEMMA AcquireAwaitedKeeps ==
    ASSUME LeaseInv, NEW s \in Sessions, NEW d \in Dirs, AcquireAwaited(s, d)
    PROVE  LeaseInv'
<1> USE DEF LeaseInv
<1>1. PICK h \in present :
        /\ lease[d] = Awaiting
        /\ lease' = [lease EXCEPT ![d] = Held(h)]
        /\ IsHead(h, d)
        /\ \E i \in PlaceOf(h) :
             queue' = IF s # h /\ PlaceOf(s) = {} /\ Independent(d)
                      THEN Append(RemoveAt(queue, i), [session |-> s, dir |-> d])
                      ELSE RemoveAt(queue, i)
  BY DEF AcquireAwaited
<1>2. PICK i \in PlaceOf(h) :
        queue' = IF s # h /\ PlaceOf(s) = {} /\ Independent(d)
                 THEN Append(RemoveAt(queue, i), [session |-> s, dir |-> d])
                 ELSE RemoveAt(queue, i)
  BY <1>1
<1>3. h \in Sessions
  BY LeaseAssumption DEF TypeOK
<1>4. /\ i \in DOMAIN queue /\ queue[i].session = h
      /\ queue \in Seq(QueueRows) /\ OneEach(queue)
  BY DEF PlaceOf, TypeOK, QueueRows, OnePlace
<1>5. queue[i].dir = d
  <2>1. PICK j \in Places(d) : queue[j].session = h
    BY <1>1 DEF IsHead
  <2> QED  BY <1>4, <2>1 DEF Places, OneEach
<1> DEFINE r == RemoveAt(queue, i)
<1>6. /\ r \in Seq(QueueRows) /\ OneEach(r)
      /\ \A e : WaitersOf(r, e) = WaitersOf(queue, e) \ {h}
  BY <1>4, Leaving
<1>7. \A e : e # d => h \notin WaitersOf(queue, e)
  BY <1>4, <1>5 DEF OneEach, WaitersOf
<1>8. /\ queue' \in Seq(QueueRows) /\ OneEach(queue')
      /\ \A e : e # d => WaitersOf(queue', e) = WaitersOf(r, e)
  <2>1. CASE s # h /\ PlaceOf(s) = {} /\ Independent(d)
    <3>1. \A k \in DOMAIN r : r[k].session # s
      <4>1. \A e : s \notin WaitersOf(queue, e)
        BY <2>1 DEF PlaceOf, WaitersOf
      <4>2. \A k \in DOMAIN r : r[k].session \in WaitersOf(r, r[k].dir)
        BY DEF WaitersOf
      <4> QED  BY <1>6, <4>1, <4>2
    <3> HIDE DEF r
    <3>2. queue' = Append(r, [session |-> s, dir |-> d])
      BY <1>2, <2>1 DEF r
    <3> QED  BY <1>6, <3>1, <3>2, Joining
  <2>2. CASE ~(s # h /\ PlaceOf(s) = {} /\ Independent(d))
    BY <1>2, <1>6, <2>2
  <2> QED  BY <2>1, <2>2
<1>9. \A e : e # d => Waiters(e)' = Waiters(e)
  BY <1>6, <1>7, <1>8, WaitersAre, WaitersAreThen
<1>10. lease'[d] = Held(h) /\ \A e \in Dirs : e # d => lease'[e] = lease[e]
  BY <1>1 DEF TypeOK
<1>11. TypeOK' /\ OnePlace'
  BY <1>1, <1>3, <1>8 DEF TypeOK, QueueRows, OnePlace, AcquireAwaited
<1>12. OneWriterPerTree'
  <2>1. Rows' = Rows
    BY <1>1, <1>10, ThreeStates DEF Rows
  <2> QED  BY <2>1 DEF OneWriterPerTree
<1> QED
  BY <1>9, <1>10, <1>11, <1>12, ThreeStates
  DEF AcquireAwaited, Idle, DroppingIsLast, FreeIsExplained, AwaitingIsExplained, Unattended

LEMMA GrantKeeps ==
    ASSUME LeaseInv, NEW d \in Dirs, GrantAwaited(d)
    PROVE  LeaseInv'
<1>1. PICK h \in present : GrantAwaiting(d, h)
  BY DEF GrantAwaited
<1>2. h \in Sessions
  BY LeaseAssumption DEF LeaseInv, TypeOK
<1> QED
  BY <1>1, <1>2, HandOverKeeps, ThreeStates DEF GrantAwaited, GrantAwaiting

LEMMA ReleaseKeeps ==
    ASSUME LeaseInv, NEW s \in Sessions, Release(s)
    PROVE  LeaseInv'
<1> USE DEF LeaseInv
<1>1. PICK d \in HeldBy(s) :
        \/ \E h \in present : HandOver(d, h)
        \/ /\ \E h \in Waiters(d) \ present : IsHead(h, d)
           /\ lease' = [lease EXCEPT ![d] = Awaiting]
           /\ UNCHANGED queue
        \/ /\ Waiters(d) = {}
           /\ lease' = [lease EXCEPT ![d] = Free]
           /\ UNCHANGED queue
  BY DEF Release
<1>2. d \in Dirs /\ lease[d] = Held(s)
  BY DEF HeldBy
<1>3. ASSUME NEW h \in present, HandOver(d, h) PROVE LeaseInv'
  <2>1. h \in Sessions
    BY LeaseAssumption DEF TypeOK
  <2> QED  BY <1>2, <1>3, <2>1, HandOverKeeps, ThreeStates DEF Release
<1>4. ASSUME NEW new \in {Awaiting, Free},
             lease' = [lease EXCEPT ![d] = new], UNCHANGED queue,
             new = Awaiting => Waiters(d) # {},
             new = Free => Waiters(d) = {}
      PROVE  LeaseInv'
  <2>1. lease'[d] = new /\ \A e \in Dirs : e # d => lease'[e] = lease[e]
    BY <1>2, <1>4 DEF TypeOK
  <2>2. \A e : Waiters(e)' = Waiters(e)
    BY <1>4 DEF Waiters, Places
  <2>3. Rows' \subseteq Rows
    BY <1>2, <2>1, ThreeStates DEF Rows
  <2>4. TypeOK' /\ OnePlace'
    BY <1>4 DEF TypeOK, OnePlace, Release
  <2> QED
    BY <1>4, <2>1, <2>2, <2>3, <2>4, ThreeStates
    DEF Release, Idle, DroppingIsLast, FreeIsExplained, OneWriterPerTree,
        AwaitingIsExplained, Unattended
<1> QED  BY <1>1, <1>3, <1>4, ThreeStates

LEMMA CancelQueuedKeeps ==
    ASSUME LeaseInv, NEW s \in Sessions, CancelQueued(s)
    PROVE  LeaseInv'
<1> USE DEF LeaseInv
<1>1. PICK i \in PlaceOf(s) :
        /\ queue' = RemoveAt(queue, i)
        /\ dropping' = IF lease[queue[i].dir] = Awaiting /\ Places(queue[i].dir) = {i}
                       THEN queue[i].dir ELSE NoDir
  BY DEF CancelQueued
<1>2. i \in DOMAIN queue /\ queue \in Seq(QueueRows) /\ queue[i] \in QueueRows
  <2>1. i \in DOMAIN queue /\ queue \in Seq(QueueRows)
    BY DEF PlaceOf, TypeOK, QueueRows
  <2> QED  BY <2>1
<1> PICK d \in Dirs : d = queue[i].dir
  BY <1>2 DEF QueueRows
<1>3. /\ queue' \in Seq(QueueRows) /\ OnePlace'
      /\ \A e : Waiters(e)' = Waiters(e) \ {queue[i].session}
      /\ \A e : e # d => Waiters(e)' = Waiters(e)
  BY <1>1, <1>2, LeavesOnce
<1>4. Places(d) = {i} => Waiters(d)' = {}
  BY <1>3 DEF Waiters
<1>5. Places(d) # {i} => Waiters(d)' # {}
  <2> SUFFICES ASSUME Places(d) # {i} PROVE Waiters(d)' # {}
    OBVIOUS
  <2>1. PICK j \in Places(d) : j # i
    BY <1>2 DEF Places
  <2>2. queue[j].session # queue[i].session /\ queue[j].session \in Waiters(d)
    BY <1>2, <2>1 DEF Places, Waiters, OnePlace, OneEach
  <2> QED  BY <1>3, <2>2
<1>6. lease' = lease /\ dropping = NoDir /\ UNCHANGED <<up, exists, present, torn, deserted>>
  BY DEF CancelQueued, Idle
<1>7. TypeOK'
  BY <1>1, <1>2, <1>3, <1>6 DEF TypeOK, QueueRows
<1>8. DroppingIsLast'
  BY <1>1, <1>4, <1>6 DEF DroppingIsLast
<1>9. FreeIsExplained' /\ OneWriterPerTree'
  BY <1>3, <1>6 DEF FreeIsExplained, OneWriterPerTree, Rows
<1>10. AwaitingIsExplained'
  <2> SUFFICES ASSUME NEW e \in Dirs, Unattended(e)' PROVE e \in torn
    BY <1>6 DEF AwaitingIsExplained
  <2>1. CASE e = d
    BY <1>1, <1>5, <1>6, <2>1 DEF Unattended
  <2>2. CASE e # d
    <3>1. Waiters(e)' = Waiters(e)
      BY <1>3, <2>2
    <3>2. Unattended(e)
      BY <1>6, <3>1, LeaseAssumption DEF Unattended
    <3> QED  BY <3>2 DEF AwaitingIsExplained
  <2> QED  BY <2>1, <2>2
<1> QED  BY <1>3, <1>7, <1>8, <1>9, <1>10

LEMMA DropAwaitingKeeps ==
    ASSUME LeaseInv, DropAwaiting
    PROVE  LeaseInv'
<1> USE DEF LeaseInv
<1>1. /\ dropping \in Dirs /\ Waiters(dropping) = {} /\ lease[dropping] = Awaiting
      /\ lease'[dropping] = Free
      /\ \A e \in Dirs : e # dropping => lease'[e] = lease[e]
  BY DEF DropAwaiting, TypeOK, DroppingIsLast
<1>2. \A e : Waiters(e)' = Waiters(e)
  BY DEF DropAwaiting, Waiters, Places
<1>3. TypeOK' /\ OnePlace' /\ DroppingIsLast'
  BY DEF DropAwaiting, TypeOK, OnePlace, DroppingIsLast
<1>4. Rows' \subseteq Rows
  BY <1>1, ThreeStates DEF Rows
<1> QED
  BY <1>1, <1>2, <1>3, <1>4, ThreeStates
  DEF DropAwaiting, FreeIsExplained, OneWriterPerTree, AwaitingIsExplained, Unattended
-----------------------------------------------------------------------------
(* Failures, deletions and the next start *)

(* Where the leases and the queue stay, more may be explained.              *)
LEMMA RowsStay ==
    ASSUME LeaseInv, TypeOK', UNCHANGED <<lease, queue, deserted>>, torn \subseteq torn',
           \/ dropping' = dropping
           \/ dropping' = NoDir /\ dropping \in torn' \cup {NoDir}
    PROVE  LeaseInv'
<1>1. \A e : Waiters(e)' = Waiters(e)
  BY DEF Waiters, Places
<1>2. OnePlace' /\ OneWriterPerTree' /\ FreeIsExplained'
  BY <1>1 DEF LeaseInv, OnePlace, OneWriterPerTree, Rows, FreeIsExplained
<1> QED
  BY <1>1, <1>2 DEF LeaseInv, DroppingIsLast, AwaitingIsExplained, Unattended

LEMMA QuietStepsKeep ==
    ASSUME LeaseInv,
           \/ DropFails \/ Crash \/ Start
           \/ \E s \in Sessions : DeleteSession(s) \/ ComesOrGoes(s)
    PROVE  LeaseInv'
<1>1. ASSUME DropFails \/ Crash PROVE LeaseInv'
  <2>1. TypeOK'
    BY <1>1 DEF LeaseInv, TypeOK, DropFails, Crash, Torn
  <2> QED  BY <1>1, <2>1, RowsStay DEF DropFails, Crash, Torn
<1>2. ASSUME Start PROVE LeaseInv'
  <2>1. TypeOK'
    BY <1>2 DEF LeaseInv, TypeOK, Start
  <2> QED  BY <1>2, <2>1, RowsStay DEF Start
<1>3. ASSUME NEW s \in Sessions, DeleteSession(s) \/ ComesOrGoes(s) PROVE LeaseInv'
  <2>1. TypeOK'
    BY <1>3 DEF LeaseInv, TypeOK, DeleteSession, ComesOrGoes
  <2> QED  BY <1>3, <2>1, RowsStay DEF DeleteSession, ComesOrGoes
<1> QED  BY <1>1, <1>2, <1>3

LEMMA DropSessionRowsKeeps ==
    ASSUME LeaseInv, NEW s \in Sessions, DropSessionRows(s)
    PROVE  LeaseInv'
<1> USE DEF LeaseInv
<1>1. queue \in Seq(QueueRows)
  BY DEF TypeOK, QueueRows
<1>2. queue' \in Seq(QueueRows) /\ OnePlace' /\ \A e : Waiters(e)' = Waiters(e) \ {s}
  <2>1. ASSUME NEW i \in PlaceOf(s), queue' = RemoveAt(queue, i)
        PROVE  queue' \in Seq(QueueRows) /\ OnePlace' /\ \A e : Waiters(e)' = Waiters(e) \ {s}
    <3>1. i \in DOMAIN queue /\ queue[i].session = s
      BY DEF PlaceOf
    <3> QED  BY <1>1, <2>1, <3>1, LeavesOnce
  <2>2. ASSUME PlaceOf(s) = {}, UNCHANGED queue
        PROVE  queue' \in Seq(QueueRows) /\ OnePlace' /\ \A e : Waiters(e)' = Waiters(e) \ {s}
    <3>1. \A e : s \notin Waiters(e) /\ Waiters(e)' = Waiters(e)
      BY <2>2 DEF PlaceOf, Waiters, Places
    <3> QED  BY <1>1, <2>2, <3>1 DEF OnePlace
  <2> QED  BY <2>1, <2>2 DEF DropSessionRows, Leaves
<1>3. \A e \in Dirs : lease'[e] = IF e \in HeldBy(s) THEN Free ELSE lease[e]
  BY DEF DropSessionRows
<1>4. TypeOK'
  <2>1. HeldBy(s) \subseteq Dirs /\ {d \in Dirs : Waiters(d) = {s}} \subseteq Dirs
    BY DEF HeldBy
  <2>2. lease' \in [Dirs -> {Held(t) : t \in Sessions} \cup {Awaiting, Free}]
    BY DEF TypeOK, DropSessionRows
  <2> QED  BY <1>2, <2>1, <2>2 DEF TypeOK, QueueRows, DropSessionRows
<1>5. DroppingIsLast'
  <2>1. dropping # NoDir => dropping \in Dirs /\ dropping \notin HeldBy(s)
    BY ThreeStates DEF TypeOK, DroppingIsLast, HeldBy
  <2> QED  BY <1>2, <1>3, <2>1 DEF DroppingIsLast, DropSessionRows
<1>6. FreeIsExplained'
  BY <1>2, <1>3 DEF FreeIsExplained, DropSessionRows
<1>7. OneWriterPerTree'
  <2>1. Rows' \subseteq Rows
    BY <1>3 DEF Rows
  <2> QED  BY <2>1 DEF OneWriterPerTree
<1>8. AwaitingIsExplained'
  <2> SUFFICES ASSUME NEW d \in Dirs, Unattended(d)' PROVE d \in torn'
    BY DEF AwaitingIsExplained
  <2>1. lease[d] = Awaiting /\ dropping # d /\ Waiters(d) \subseteq {s}
    BY <1>2, <1>3, ThreeStates DEF Unattended, DropSessionRows
  <2> QED  BY <2>1 DEF AwaitingIsExplained, Unattended, DropSessionRows
<1> QED  BY <1>2, <1>4, <1>5, <1>6, <1>7, <1>8

LEMMA NextKeeps == LeaseInv /\ [Next]_vars => LeaseInv'
<1> SUFFICES ASSUME LeaseInv, [Next]_vars PROVE LeaseInv'
  OBVIOUS
<1>1. CASE UNCHANGED vars
  <2>1. TypeOK'
    BY <1>1 DEF LeaseInv, TypeOK, vars
  <2> QED  BY <1>1, <2>1, RowsStay DEF vars
<1>2. ASSUME NEW s \in Sessions, Command(s) PROVE LeaseInv'
  BY <1>2, AcquireKeeps, AcquireAwaitedKeeps, ReleaseKeeps, CancelQueuedKeeps DEF Command
<1>3. ASSUME NEW d \in Dirs, GrantAwaited(d) PROVE LeaseInv'
  BY <1>3, GrantKeeps
<1>4. ASSUME NEW s \in Sessions, DropSessionRows(s) PROVE LeaseInv'
  BY <1>4, DropSessionRowsKeeps
<1>5. CASE DropAwaiting
  BY <1>5, DropAwaitingKeeps
<1> QED  BY <1>1, <1>2, <1>3, <1>4, <1>5, QuietStepsKeep DEF Next

THEOREM LeaseInvHolds == Spec => []LeaseInv
  BY InitHolds, NextKeeps, PTL DEF Spec
-----------------------------------------------------------------------------
(* The theorems *)

(* No two tasks have rows on directories of which one contains the other    *)
(* (workspace/lease.py, acquire), whatever directories there are.           *)
THEOREM TreesAreApart == Spec => []OneWriterPerTree
  BY LeaseInvHolds, PTL DEF LeaseInv

(* A directory is left unattended only by a cancellation that was cut off   *)
(* or by the deletion of all that waited for it (workspace/lease.py,        *)
(* cancel_queued and reconcile_on_restart).                                 *)
THEOREM NobodyAwaitedInVain == Spec => []AwaitingIsExplained
  BY LeaseInvHolds, PTL DEF LeaseInv

(* Whatever step gives a directory to a session while others wait gives it  *)
(* to the first of them, unless its holder was deleted before a start       *)
(* (workspace/lease.py, release, acquire and grant_awaited).                *)
THEOREM QueueIsServedInOrder == Spec => ServedInOrder
<1>1. LeaseInv /\ [Next]_vars =>
        [\A s \in Sessions, d \in Dirs :
           TakesOver(s, d) /\ Waiters(d) # {} =>
             IsHead(s, d) \/ (lease[d] = Free /\ d \in deserted)]_vars
  <2> SUFFICES ASSUME LeaseInv, Next, NEW s \in Sessions, NEW d \in Dirs,
                      TakesOver(s, d), Waiters(d) # {}
               PROVE  IsHead(s, d) \/ (lease[d] = Free /\ d \in deserted)
    OBVIOUS
  <2>1. lease \in [Dirs -> {Held(t) : t \in Sessions} \cup {Awaiting, Free}]
        /\ lease'[d] = Held(s) /\ lease[d] # Held(s)
    BY DEF LeaseInv, TypeOK, TakesOver
  <2>2. ASSUME NEW t \in Sessions, NEW e \in Dirs, Acquire(t, e)
        PROVE  lease[d] = Free /\ d \in deserted
    <3>1. Available(e) /\ lease' = [lease EXCEPT ![e] = Held(t)]
      BY <2>1, <2>2 DEF Acquire
    <3>2. lease[d] = Free
      BY <2>1, <3>1 DEF Available
    <3> QED  BY <3>2 DEF LeaseInv, FreeIsExplained
  <2>3. ASSUME NEW h, NEW e \in Dirs, IsHead(h, e), lease' = [lease EXCEPT ![e] = Held(h)]
        PROVE  IsHead(s, d)
    <3>1. e = d /\ h = s
      BY <2>1, <2>3, ThreeStates
    <3> QED  BY <2>3, <3>1
  <2>4. ASSUME NEW t \in Sessions, NEW e \in Dirs, AcquireAwaited(t, e) PROVE IsHead(s, d)
    BY <2>3, <2>4 DEF AcquireAwaited
  <2>5. ASSUME NEW e \in Dirs, GrantAwaited(e) PROVE IsHead(s, d)
    BY <2>3, <2>5 DEF GrantAwaited, GrantAwaiting, HandOver
  <2>6. ASSUME NEW t \in Sessions, Release(t) PROVE IsHead(s, d)
    <3>1. PICK e \in HeldBy(t) :
            \/ \E h \in present : HandOver(e, h)
            \/ lease' = [lease EXCEPT ![e] = Awaiting]
            \/ lease' = [lease EXCEPT ![e] = Free]
      BY <2>6 DEF Release
    <3>2. e \in Dirs /\ lease'[d] \notin {Awaiting, Free}
      BY <2>1, ThreeStates DEF HeldBy
    <3>3. \E h \in present : HandOver(e, h)
      BY <2>1, <3>1, <3>2
    <3> QED  BY <2>3, <3>2, <3>3 DEF HandOver
  <2>7. ASSUME NEW t \in Sessions, DropSessionRows(t) PROVE FALSE
    BY <2>1, <2>7, ThreeStates DEF DropSessionRows
  <2>8. ASSUME DropAwaiting PROVE FALSE
    BY <2>1, <2>8, ThreeStates DEF DropAwaiting
  <2>9. ASSUME UNCHANGED lease PROVE FALSE
    BY <2>1, <2>9
  <2> QED
    BY <2>2, <2>4, <2>5, <2>6, <2>7, <2>8, <2>9
    DEF Next, Command, CancelQueued, DeleteSession, ComesOrGoes, DropFails, Crash, Start
<1> QED  BY <1>1, LeaseInvHolds, PTL DEF Spec, ServedInOrder

-----------------------------------------------------------------------------
(* The locks of resources                                                   *)

(* A call takes its keys from below.                                        *)
Ascending == \A t \in Tasks : \A h \in held[t], w \in want[t] : h < w

Wanting ==
    \A t \in Tasks :
        /\ at[t] \in {"taking", "queued"} => want[t] # {}
        /\ at[t] = "out" => want[t] = {} /\ held[t] = {}

Disjoint == \A t, u \in Tasks : t # u => held[t] \cap held[u] = {}

(* ahead is the order of arrival of the tasks that wait for the same key.   *)
QueueOrder ==
    /\ \A t, u \in Tasks :
          u \in ahead[t] => /\ u # t /\ at[t] = "queued" /\ at[u] = "queued"
                            /\ NextKey(u) = NextKey(t)
    /\ \A t, u \in Tasks :
          t # u /\ at[t] = "queued" /\ at[u] = "queued" /\ NextKey(t) = NextKey(u)
              => t \in ahead[u] \/ u \in ahead[t]

(* A waiter that was woken is the first one and finds the lock free.        *)
Futures ==
    \A t \in Tasks :
        /\ future[t] # "none" => at[t] = "queued"
        /\ stopping[t] => at[t] = "queued" /\ future[t] # "none"
        /\ future[t] = "woken" => ahead[t] = {} /\ ~Locked(NextKey(t))

LocksInv ==
    /\ LocksTypeOK /\ Ascending /\ Wanting /\ Disjoint /\ QueueOrder /\ Futures
    /\ NoLostWakeup
-----------------------------------------------------------------------------
LEMMA NextKeyIsLeast ==
  ASSUME NEW t, want[t] \in SUBSET Keys, want[t] # {}
  PROVE  NextKey(t) \in want[t] /\ \A j \in want[t] : NextKey(t) <= j
  BY KeyAssumption DEF NextKey

(* NextKey is a function of want alone.                                     *)
LEMMA SameWantSameKey ==
  ASSUME NEW t, want'[t] = want[t]
  PROVE  NextKey(t)' = NextKey(t)
  BY DEF NextKey

LEMMA LocksTypeHolds == LocksInit => LocksTypeOK
  BY DEF LocksInit, LocksTypeOK


(* One more key in a call's hands, and one less to want.                    *)
LEMMA TakeFacts ==
  ASSUME LocksInv, NEW t \in Tasks, at[t] \in {"taking", "queued"},
         Take(t, NextKey(t))
  PROVE  /\ NextKey(t) \in want[t] /\ want[t] \subseteq Keys
         /\ held' \in [Tasks -> SUBSET Keys] /\ want' \in [Tasks -> SUBSET Keys]
         /\ at' \in [Tasks -> {"out", "taking", "queued", "inside"}]
         /\ at'[t] \in {"taking", "inside"} /\ (at'[t] = "taking" => want'[t] # {})
         /\ held'[t] = held[t] \cup {NextKey(t)}
         /\ want'[t] = want[t] \ {NextKey(t)}
         /\ \A q \in Tasks \ {t} : /\ held'[q] = held[q] /\ want'[q] = want[q]
                                   /\ at'[q] = at[q] /\ NextKey(q)' = NextKey(q)
<1>1. want[t] # {} /\ want[t] \in SUBSET Keys
  BY DEF LocksInv, Wanting, LocksTypeOK
<1>2. NextKey(t) \in want[t]
  BY <1>1, NextKeyIsLeast
<1>3. /\ held' \in [Tasks -> SUBSET Keys] /\ want' \in [Tasks -> SUBSET Keys]
      /\ at' \in [Tasks -> {"out", "taking", "queued", "inside"}]
  BY <1>1, <1>2 DEF LocksInv, LocksTypeOK, Take
<1>4. /\ held'[t] = held[t] \cup {NextKey(t)}
      /\ want'[t] = want[t] \ {NextKey(t)}
      /\ at'[t] = IF want[t] = {NextKey(t)} THEN "inside" ELSE "taking"
      /\ \A q \in Tasks \ {t} :
            held'[q] = held[q] /\ want'[q] = want[q] /\ at'[q] = at[q]
  BY DEF LocksInv, LocksTypeOK, Take
<1>5. at'[t] = "taking" => want'[t] # {}
  BY <1>1, <1>2, <1>4
<1>6. \A q \in Tasks \ {t} : NextKey(q)' = NextKey(q)
  BY <1>4, SameWantSameKey
<1>. QED  BY <1>1, <1>2, <1>3, <1>4, <1>5, <1>6

(* A free lock whose waiters are not woken may be taken by whoever wants it *)
(* next, from outside the queue or from its head.                           *)
LEMMA TakeKeeps ==
  ASSUME LocksInv, NEW t \in Tasks, at[t] \in {"taking", "queued"},
         Take(t, NextKey(t)), ~Locked(NextKey(t)),
         \A q \in Tasks \ {t} : WaitsFor(q, NextKey(t)) => future[q] # "woken",
         ahead' = Unqueued(t), future' = [future EXCEPT ![t] = "none"],
         ~stopping[t], stopping' = stopping
  PROVE  LocksInv'
<1>. DEFINE k == NextKey(t)
<1>1. /\ k \in want[t] /\ want[t] \subseteq Keys
      /\ held' \in [Tasks -> SUBSET Keys] /\ want' \in [Tasks -> SUBSET Keys]
      /\ at' \in [Tasks -> {"out", "taking", "queued", "inside"}]
      /\ at'[t] \in {"taking", "inside"} /\ (at'[t] = "taking" => want'[t] # {})
      /\ held'[t] = held[t] \cup {k} /\ want'[t] = want[t] \ {k}
      /\ \A q \in Tasks \ {t} : /\ held'[q] = held[q] /\ want'[q] = want[q]
                                /\ at'[q] = at[q] /\ NextKey(q)' = NextKey(q)
  BY TakeFacts
<1>2. /\ ahead'[t] = {} /\ future'[t] = "none"
      /\ \A q \in Tasks \ {t} : ahead'[q] = ahead[q] \ {t} /\ future'[q] = future[q]
      /\ ~stopping'[t] /\ stopping' = stopping
  BY DEF LocksInv, LocksTypeOK, Unqueued
<1>3. LocksTypeOK'
  BY <1>1, <1>2 DEF LocksInv, LocksTypeOK, Unqueued
<1>4. Ascending'
  <2>1. \A w \in want[t] : k <= w
    BY <1>1, NextKeyIsLeast
  <2>2. k \in Nat /\ want[t] \subseteq Nat
    BY <1>1, KeyAssumption
  <2>3. \A w \in want'[t] : k < w
    BY <1>1, <2>1, <2>2
  <2>. QED  BY <1>1, <2>3 DEF Ascending, LocksInv
<1>5. Wanting'
  BY <1>1 DEF Wanting, LocksInv
<1>6. Disjoint'
  <2>1. \A q \in Tasks : k \notin held[q]
    BY DEF Locked
  <2>. QED  BY <1>1, <2>1 DEF Disjoint, LocksInv
<1>7. QueueOrder'
  <2>1. \A q, r \in Tasks :
           r \in ahead'[q] => /\ q # t /\ r # t /\ r # q /\ at[q] = "queued"
                              /\ at[r] = "queued" /\ NextKey(r) = NextKey(q)
    BY <1>2 DEF LocksInv, QueueOrder
  <2>2. \A q, r \in Tasks :
           r \in ahead'[q] => /\ r # q /\ at'[q] = "queued" /\ at'[r] = "queued"
                              /\ NextKey(r)' = NextKey(q)'
    BY <2>1, <1>1
  <2>3. \A q, r \in Tasks :
           q # r /\ at'[q] = "queued" /\ at'[r] = "queued" /\ NextKey(q)' = NextKey(r)'
              => /\ q # t /\ r # t /\ at[q] = "queued" /\ at[r] = "queued"
                 /\ NextKey(q) = NextKey(r)
    BY <1>1
  <2>4. \A q, r \in Tasks :
           q # r /\ at'[q] = "queued" /\ at'[r] = "queued" /\ NextKey(q)' = NextKey(r)'
              => q \in ahead'[r] \/ r \in ahead'[q]
    BY <2>3, <1>2 DEF LocksInv, QueueOrder
  <2>. QED  BY <2>2, <2>4 DEF QueueOrder
<1>8. \A j : Locked(j)' <=> Locked(j) \/ j = k
  BY <1>1 DEF Locked
<1>9. Futures'
  <2>. SUFFICES ASSUME NEW q \in Tasks
                PROVE  /\ future'[q] # "none" => at'[q] = "queued"
                       /\ stopping'[q] => at'[q] = "queued" /\ future'[q] # "none"
                       /\ future'[q] = "woken" => ahead'[q] = {} /\ ~Locked(NextKey(q))'
    BY DEF Futures
  <2>1. CASE q = t
    BY <2>1, <1>2
  <2>2. CASE q # t
    <3>1. /\ future[q] # "none" => at[q] = "queued"
          /\ stopping[q] => at[q] = "queued" /\ future[q] # "none"
          /\ future[q] = "woken" => ahead[q] = {} /\ ~Locked(NextKey(q))
      BY DEF LocksInv, Futures
    <3>2. future[q] = "woken" => NextKey(q) # k
      BY <2>2, <3>1 DEF WaitsFor
    <3>3. NextKey(q)' = NextKey(q)
      BY <2>2, <1>1
    <3>4. future[q] = "woken" => ~Locked(NextKey(q))'
      BY <3>1, <3>2, <3>3, <1>8
    <3>. QED  BY <2>2, <3>1, <3>4, <1>1, <1>2
  <2>. QED  BY <2>1, <2>2
<1>10. NoLostWakeup'
  <2>. SUFFICES ASSUME NEW q \in Tasks, at'[q] = "queued", ahead'[q] = {},
                       ~Locked(NextKey(q))', future'[q] = "none"
                PROVE  FALSE
    BY DEF NoLostWakeup
  <2>1. q # t /\ NextKey(q)' = NextKey(q) /\ at[q] = "queued" /\ future[q] = "none"
    BY <1>1, <1>2
  <2>2. ~Locked(NextKey(q)) /\ NextKey(q) # k
    BY <2>1, <1>8
  <2>3. t \notin ahead[q]
    BY <2>1, <2>2 DEF LocksInv, QueueOrder
  <2>4. ahead[q] = {}
    BY <2>1, <2>3, <1>2
  <2>. QED  BY <2>1, <2>2, <2>4 DEF LocksInv, NoLostWakeup
<1>. QED  BY <1>3, <1>4, <1>5, <1>6, <1>7, <1>9, <1>10 DEF LocksInv

LEMMA BeginKeeps ==
  ASSUME LocksInv, NEW t \in Tasks, NEW S \in SUBSET Keys, Begin(t, S)
  PROVE  LocksInv'
<1>1. /\ at[t] = "out" /\ at'[t] = "taking" /\ want'[t] = S /\ S # {}
      /\ held' = held /\ ahead' = ahead /\ future' = future /\ stopping' = stopping
      /\ \A q \in Tasks \ {t} : at'[q] = at[q] /\ want'[q] = want[q]
  BY DEF LocksInv, LocksTypeOK, Begin
<1>2. \A q \in Tasks \ {t} : NextKey(q)' = NextKey(q)
  BY <1>1, SameWantSameKey
<1>3. LocksTypeOK'
  BY DEF LocksInv, LocksTypeOK, Begin
<1>4. Ascending' /\ Wanting' /\ Disjoint'
  BY <1>1 DEF LocksInv, Ascending, Wanting, Disjoint
<1>5. QueueOrder'
  BY <1>1, <1>2 DEF LocksInv, QueueOrder
<1>6. \A j : Locked(j)' <=> Locked(j)
  BY <1>1 DEF Locked
<1>7. Futures' /\ NoLostWakeup'
  BY <1>1, <1>2, <1>6 DEF LocksInv, Futures, NoLostWakeup
<1>. QED  BY <1>3, <1>4, <1>5, <1>7 DEF LocksInv

LEMMA WaitKeeps ==
  ASSUME LocksInv, NEW t \in Tasks, Wait(t)
  PROVE  LocksInv'
<1>. DEFINE k == NextKey(t)
<1>1. /\ at[t] = "taking" /\ at'[t] = "queued" /\ ~CanTake(k)
      /\ want' = want /\ held' = held /\ future' = future /\ stopping' = stopping
      /\ ahead'[t] = Queue(k)
      /\ \A q \in Tasks \ {t} : at'[q] = at[q] /\ ahead'[q] = ahead[q]
  BY DEF LocksInv, LocksTypeOK, Wait
<1>2. \A q \in Tasks : NextKey(q)' = NextKey(q)
  BY <1>1, SameWantSameKey
<1>3. future[t] = "none" /\ ~stopping[t] /\ t \notin Queue(k)
  BY <1>1 DEF LocksInv, Futures, Queue, WaitsFor
<1>4. LocksTypeOK'
  BY DEF LocksInv, LocksTypeOK, Wait, Queue
<1>5. Ascending' /\ Wanting' /\ Disjoint'
  BY <1>1 DEF LocksInv, Ascending, Wanting, Disjoint
<1>6. QueueOrder'
  BY <1>1, <1>2, <1>3 DEF LocksInv, QueueOrder, Queue, WaitsFor
<1>7. \A j : Locked(j)' <=> Locked(j)
  BY <1>1 DEF Locked
<1>8. Futures'
  BY <1>1, <1>2, <1>3, <1>7 DEF LocksInv, Futures
<1>9. Queue(k) = {} => Locked(k)
  BY <1>1 DEF CanTake
<1>10. NoLostWakeup'
  BY <1>1, <1>2, <1>7, <1>9 DEF LocksInv, NoLostWakeup
<1>. QED  BY <1>4, <1>5, <1>6, <1>8, <1>10 DEF LocksInv

LEMMA TakeFreeKeeps ==
  ASSUME LocksInv, NEW t \in Tasks, TakeFree(t)
  PROVE  LocksInv'
<1>1. /\ at[t] = "taking" /\ ~Locked(NextKey(t)) /\ Take(t, NextKey(t))
      /\ \A q \in Tasks \ {t} : WaitsFor(q, NextKey(t)) => future[q] # "woken"
      /\ ahead' = ahead /\ future' = future /\ stopping' = stopping
  BY DEF TakeFree, CanTake, Queue
<1>2. future[t] = "none" /\ ~stopping[t]
  BY <1>1 DEF LocksInv, Futures
<1>3. ahead[t] = {} /\ \A q \in Tasks : t \notin ahead[q]
  BY <1>1 DEF LocksInv, QueueOrder, LocksTypeOK
<1>4. ahead' = Unqueued(t)
  BY <1>1, <1>3 DEF LocksInv, LocksTypeOK, Unqueued
<1>5. future' = [future EXCEPT ![t] = "none"]
  BY <1>1, <1>2 DEF LocksInv, LocksTypeOK
<1>. QED  BY <1>1, <1>2, <1>4, <1>5, TakeKeeps

LEMMA WakeKeeps ==
  ASSUME LocksInv, NEW t \in Tasks, Wake(t)
  PROVE  LocksInv'
<1>1. /\ at[t] = "queued" /\ future[t] = "woken" /\ ~stopping[t]
      /\ Take(t, NextKey(t)) /\ ahead' = Unqueued(t)
      /\ future' = [future EXCEPT ![t] = "none"] /\ stopping' = stopping
  BY DEF Wake
<1>2. ahead[t] = {} /\ ~Locked(NextKey(t))
  BY <1>1 DEF LocksInv, Futures
<1>3. \A q \in Tasks \ {t} : WaitsFor(q, NextKey(t)) => future[q] # "woken"
  BY <1>1, <1>2 DEF LocksInv, Futures, QueueOrder, WaitsFor
<1>. QED  BY <1>1, <1>2, <1>3, TakeKeeps

LEMMA CancelKeeps ==
  ASSUME LocksInv, NEW t \in Tasks, Cancel(t)
  PROVE  LocksInv'
<1>1. /\ at[t] = "queued" /\ stopping'[t] /\ future'[t] # "none"
      /\ (future'[t] = "woken" => future[t] = "woken")
      /\ at' = at /\ want' = want /\ held' = held /\ ahead' = ahead
      /\ \A q \in Tasks \ {t} : future'[q] = future[q] /\ stopping'[q] = stopping[q]
  BY DEF LocksInv, LocksTypeOK, Cancel
<1>2. \A q \in Tasks : NextKey(q)' = NextKey(q)
  BY <1>1, SameWantSameKey
<1>3. LocksTypeOK'
  BY DEF LocksInv, LocksTypeOK, Cancel
<1>4. Ascending' /\ Wanting' /\ Disjoint'
  BY <1>1 DEF LocksInv, Ascending, Wanting, Disjoint
<1>5. QueueOrder'
  BY <1>1, <1>2 DEF LocksInv, QueueOrder
<1>6. \A j : Locked(j)' <=> Locked(j)
  BY <1>1 DEF Locked
<1>7. Futures' /\ NoLostWakeup'
  BY <1>1, <1>2, <1>6 DEF LocksInv, Futures, NoLostWakeup
<1>. QED  BY <1>3, <1>4, <1>5, <1>7 DEF LocksInv

(* Letting go frees what the call held, and wakes the first waiter of each  *)
(* key that is free now: nobody else held it, and the place of the call in  *)
(* its own queue is gone.                                                   *)
LEMMA LetGoKeeps ==
  ASSUME LocksInv, NEW t \in Tasks, LetGo(t)
  PROVE  LocksInv'
<1>1. /\ held'[t] = {} /\ want'[t] = {} /\ at'[t] = "out" /\ ~stopping'[t]
      /\ future'[t] = "none" /\ ahead'[t] = {}
      /\ \A q \in Tasks \ {t} :
            /\ held'[q] = held[q] /\ want'[q] = want[q] /\ at'[q] = at[q]
            /\ stopping'[q] = stopping[q] /\ ahead'[q] = ahead[q] \ {t}
            /\ future'[q] = IF q \in Roused(t) THEN "woken" ELSE future[q]
  BY DEF LocksInv, LocksTypeOK, LetGo, Unqueued
<1>2. \A q \in Tasks \ {t} : NextKey(q)' = NextKey(q)
  BY <1>1, SameWantSameKey
<1>3. LocksTypeOK'
  BY DEF LocksInv, LocksTypeOK, LetGo, Unqueued
<1>4. Ascending' /\ Wanting' /\ Disjoint'
  BY <1>1 DEF LocksInv, Ascending, Wanting, Disjoint
<1>5. QueueOrder'
  BY <1>1, <1>2 DEF LocksInv, QueueOrder
<1>6. \A j : Locked(j)' => Locked(j)
  BY <1>1 DEF Locked
<1>7. \A j \in Freed(t) : ~Locked(j)'
  <2>1. \A j \in held[t] : ~Locked(j)'
    BY <1>1 DEF LocksInv, Disjoint, Locked
  <2>. QED  BY <2>1, <1>6 DEF Freed
<1>8. Futures'
  <2>. SUFFICES ASSUME NEW q \in Tasks
                PROVE  /\ future'[q] # "none" => at'[q] = "queued"
                       /\ stopping'[q] => at'[q] = "queued" /\ future'[q] # "none"
                       /\ future'[q] = "woken" => ahead'[q] = {} /\ ~Locked(NextKey(q))'
    BY DEF Futures
  <2>1. CASE q = t
    BY <2>1, <1>1
  <2>2. CASE q # t /\ q \in Roused(t)
    <3>1. at[q] = "queued" /\ NextKey(q) \in Freed(t) /\ ahead[q] \subseteq {t}
      BY <2>2 DEF Roused
    <3>2. NextKey(q)' \in Freed(t)
      BY <2>2, <3>1, <1>2
    <3>3. ~Locked(NextKey(q))'
      BY <2>2, <3>1, <1>2, <1>7
    <3>. QED  BY <2>2, <3>1, <3>3, <1>1
  <2>3. CASE q # t /\ q \notin Roused(t)
    BY <2>3, <1>1, <1>2, <1>6 DEF LocksInv, Futures
  <2>. QED  BY <2>1, <2>2, <2>3
<1>9. NoLostWakeup'
  <2>. SUFFICES ASSUME NEW q \in Tasks, at'[q] = "queued", ahead'[q] = {},
                       ~Locked(NextKey(q))', future'[q] = "none"
                PROVE  FALSE
    BY DEF NoLostWakeup
  <2>1. /\ q # t /\ q \notin Roused(t) /\ future[q] = "none" /\ at[q] = "queued"
        /\ ahead[q] \subseteq {t} /\ NextKey(q)' = NextKey(q)
    BY <1>1, <1>2
  <2>2. NextKey(q) \notin Freed(t)
    BY <2>1 DEF Roused
  <2>3. ~Locked(NextKey(q))
    BY <2>1, <2>2, <1>1 DEF Locked, Freed
  <2>4. ahead[q] # {}
    BY <2>1, <2>3 DEF LocksInv, NoLostWakeup
  <2>5. t \in ahead[q]
    BY <2>1, <2>4
  <2>6. at[t] = "queued" /\ NextKey(t) = NextKey(q)
    BY <2>1, <2>5 DEF LocksInv, QueueOrder
  <2>. QED  BY <2>2, <2>3, <2>6 DEF Freed
<1>. QED  BY <1>3, <1>4, <1>5, <1>8, <1>9 DEF LocksInv

LEMMA NothingMoves == ASSUME LocksInv, UNCHANGED lockVars PROVE LocksInv'
<1>1. \A q \in Tasks : NextKey(q)' = NextKey(q)
  BY DEF lockVars, NextKey
<1>2. LocksTypeOK' /\ Ascending' /\ Wanting' /\ Disjoint'
  BY DEF lockVars, LocksInv, LocksTypeOK, Ascending, Wanting, Disjoint
<1>3. QueueOrder'
  BY <1>1 DEF lockVars, LocksInv, QueueOrder
<1>4. \A j : Locked(j)' <=> Locked(j)
  BY DEF lockVars, Locked
<1>5. Futures' /\ NoLostWakeup'
  BY <1>1, <1>4 DEF lockVars, LocksInv, Futures, NoLostWakeup
<1>. QED  BY <1>2, <1>3, <1>5 DEF LocksInv

LEMMA LocksInitHolds == LocksInit => LocksInv
<1>. SUFFICES ASSUME LocksInit PROVE LocksInv
  OBVIOUS
<1>1. LocksTypeOK
  BY LocksTypeHolds
<1>2. Ascending /\ Wanting /\ Disjoint /\ QueueOrder /\ Futures /\ NoLostWakeup
  BY DEF LocksInit, Ascending, Wanting, Disjoint, QueueOrder, Futures, NoLostWakeup
<1>. QED  BY <1>1, <1>2 DEF LocksInv

LEMMA LocksStepHolds == LocksInv /\ [LocksNext]_lockVars => LocksInv'
<1>. SUFFICES ASSUME LocksInv, [LocksNext]_lockVars PROVE LocksInv'
  OBVIOUS
<1>1. ASSUME NEW t \in Tasks, NEW S \in SUBSET Keys, Begin(t, S) PROVE LocksInv'
  BY <1>1, BeginKeeps
<1>2. ASSUME NEW t \in Tasks, TakeFree(t) PROVE LocksInv'
  BY <1>2, TakeFreeKeeps
<1>3. ASSUME NEW t \in Tasks, Wait(t) PROVE LocksInv'
  BY <1>3, WaitKeeps
<1>4. ASSUME NEW t \in Tasks, Wake(t) PROVE LocksInv'
  BY <1>4, WakeKeeps
<1>5. ASSUME NEW t \in Tasks, Cancel(t) PROVE LocksInv'
  BY <1>5, CancelKeeps
<1>6. ASSUME NEW t \in Tasks, Abandon(t) PROVE LocksInv'
  BY <1>6, LetGoKeeps DEF Abandon
<1>7. ASSUME NEW t \in Tasks, Leave(t) PROVE LocksInv'
  BY <1>7, LetGoKeeps DEF Leave
<1>8. CASE UNCHANGED lockVars
  BY <1>8, NothingMoves
<1>. QED  BY <1>1, <1>2, <1>3, <1>4, <1>5, <1>6, <1>7, <1>8 DEF LocksNext
-----------------------------------------------------------------------------
(* The variables keep their types.                                          *)
THEOREM LocksTypeCorrect == LocksSpec => []LocksTypeOK
<1>1. LocksInv => LocksTypeOK
  BY DEF LocksInv
<1>. QED  BY <1>1, LocksInitHolds, LocksStepHolds, PTL DEF LocksSpec

(* A key is held by one call, and a call that has left hold() has no lock   *)
(* and stands in no queue, whichever way it left.                           *)
THEOREM OneCallPerResource == LocksSpec => []Exclusion
<1>1. LocksInv => Exclusion
  BY DEF LocksInv, Exclusion, Disjoint, Wanting, QueueOrder
<1>. QED  BY <1>1, LocksInitHolds, LocksStepHolds, PTL DEF LocksSpec

(* The first waiter of a free lock is awake or on its way out.              *)
THEOREM FreeLockIsPassedOn == LocksSpec => []NoLostWakeup
<1>1. LocksInv => NoLostWakeup
  BY DEF LocksInv
<1>. QED  BY <1>1, LocksInitHolds, LocksStepHolds, PTL DEF LocksSpec

(* The call of the set that wants the greatest key does not wait for a key  *)
(* that another call of the set holds: whoever holds that key wants a       *)
(* greater one.                                                             *)
LEMMA GreatestDoesNotWait == LocksInv => NoCircularWait
<1>. SUFFICES ASSUME LocksInv, NEW D \in SUBSET Tasks, D # {},
                     \A t \in D : \E u \in D : at[t] = "queued" /\ NextKey(t) \in held[u]
              PROVE  FALSE
  BY DEF NoCircularWait
<1>. DEFINE Wanted == {NextKey(t) : t \in D}
<1>1. \A t \in D : at[t] = "queued" /\ want[t] # {} /\ want[t] \in SUBSET Keys
  BY DEF LocksInv, Wanting, LocksTypeOK
<1>2. \A t \in D : NextKey(t) \in want[t] /\ NextKey(t) \in Keys
  BY <1>1, NextKeyIsLeast
<1>3. Wanted \in SUBSET Keys /\ Wanted # {}
  BY <1>2
<1>4. PICK t \in D : \A u \in D : NextKey(u) <= NextKey(t)
  <2>1. PICK m \in Wanted : \A j \in Wanted : j <= m
    BY ONLY <1>3, KeyAssumption
  <2>. QED  BY ONLY <2>1
<1>5. PICK u \in D : NextKey(t) \in held[u]
  OBVIOUS
<1>6. NextKey(t) < NextKey(u)
  BY <1>2, <1>5 DEF LocksInv, Ascending
<1>7. NextKey(u) <= NextKey(t) /\ NextKey(u) \in Nat /\ NextKey(t) \in Nat
  BY <1>2, <1>4, KeyAssumption
<1>. QED  BY <1>6, <1>7

(* No set of calls waits for itself.                                        *)
THEOREM NoDeadlock == LocksSpec => []NoCircularWait
  BY LocksInitHolds, LocksStepHolds, GreatestDoesNotWait, PTL DEF LocksSpec
=============================================================================
