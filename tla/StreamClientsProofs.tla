------------------------- MODULE StreamClientsProofs -------------------------
(***************************************************************************)
(* No client of a session's event stream misses an event or sees one       *)
(* twice, but for what the model names: for any number of clients and      *)
(* runs, any lengths of queue and backlog.                                 *)
(*                                                                         *)
(* What was offered to a client so far is a stretch of the numbers of      *)
(* events (Offered, OfferedAll).  The invariant says where each of them    *)
(* is: shown, in the window of the replay, in the queue, or lost in one    *)
(* of the named ways; and that the parts follow one another in order, so   *)
(* that what is forwarded next is next.                                    *)
(***************************************************************************)
EXTENDS StreamClients, TLAPS, FiniteSetTheorems, WellFoundedInduction

(* Front(r) is how far run r has let its subscribers come, Reached how far  *)
(* the followers; what they were offered is all before that, but for the    *)
(* event of a fan-out under way and those that no listener was called with. *)
Front(r)    == IF base[r] > cursor[r] THEN base[r] ELSE cursor[r]
Reached     == IF current = 0 THEN 0 ELSE Front(current)
Held(r, e)  == fan.to = "run" /\ fan.run = r /\ fan.event = e
HeldBack(e) == fan.to # "nobody" /\ fan.event = e
Offered(r, e) == e \in 1..Front(r) /\ e \notin unheard /\ ~Held(r, e)
OfferedAll(e) == e \in 1..Reached /\ e \notin unheard /\ ~HeldBack(e)

RangeOf(s) == {s[i] : i \in DOMAIN s}
InOrder(s) == \A i, j \in DOMAIN s : i < j /\ s[i] \in Nat /\ s[j] \in Nat => s[i] < s[j]
Items(k)   == RangeOf(conn[k].queue)
Events(k)  == Items(k) \cap Nat
Ahead(k)   == {e \in Events(k) : e > conn[k].upto}
Sent(k)    == RangeOf(conn[k].sent)
Due(k)     == IF conn[k].at = "replaying" THEN Window(k) ELSE {}
Lost(k)    == IF k \in followers THEN {} ELSE dropped[k] \cup skipped[k]

Stages == {"away", "reading", "read", "replaying", "live", "rebuilding"}
Connections ==
    [at : Stages, sub : 0..Session, queue : Seq(Nat \cup {Done, Resync}), after : Nat,
     snap : Nat, upto : Nat, sent : Seq(Nat)]
Ended == {"terminal", "finished"}

Types ==
    /\ followers \subseteq Clients
    /\ disk \in 0..MaxEvents /\ unheard \subseteq 1..disk /\ current \in 0..MaxRuns
    /\ state \in [Runs -> {"none", "live"} \cup Ended]
    /\ base \in [Runs -> 0..disk] /\ last \in [Runs -> 0..disk] /\ cursor \in [Runs -> 0..disk]
    /\ fan \in [run : 0..MaxRuns, event : 0..disk, to : {"nobody", "run", "session"}]
    /\ conn \in [Clients -> Connections]
    /\ have \in [Clients -> SUBSET Nat] /\ dropped \in [Clients -> SUBSET Nat]
    /\ skipped \in [Clients -> SUBSET Nat]
    /\ breaks \in 0..MaxBreaks

(* One run is live at most, the newest.  Without one, what was not offered  *)
(* will never be.                                                           *)
RunFits(r) ==
    /\ state[r] = "none" <=> r > current
    /\ state[r] = "live" => r = current /\ (last[r] # 0 => last[r] = disk)
    /\ r > current => base[r] = 0 /\ cursor[r] = 0 /\ last[r] = 0
RunsFit ==
    /\ \A r \in Runs : RunFits(r)
    /\ (current # 0 => state[current] # "live") => Reached + 1 .. disk \subseteq unheard

FanFits ==
    /\ fan.to = "nobody" => fan = NoFan
    /\ fan.to # "nobody" =>
         /\ fan.run = current /\ current # 0 /\ state[current] = "live"
         /\ fan.event = cursor[current] /\ base[current] < cursor[current]

(* A queue is in order and holds what was offered to its client.            *)
QueueFits(k) ==
    LET c == conn[k] IN
    /\ Len(c.queue) <= QueueMax /\ InOrder(c.queue)
    /\ Resync \in Items(k) => k \in followers /\ c.queue[1] = Resync
    /\ Done \in Items(k) => k \notin followers /\ c.sub \in Runs /\ state[c.sub] = "finished"
    /\ c.sub = 0 => c.queue = <<>>
    /\ c.sub \in Runs => \A e \in Events(k) : e \in 1..cursor[c.sub] /\ ~Held(c.sub, e)
    /\ c.sub = Session => \A e \in Events(k) : e \in 1..Reached /\ ~HeldBack(e)

(* The subscription and the frames fit the stage of the request.            *)
StageFits(k) ==
    LET c == conn[k] IN
    /\ c.at \in {"away", "rebuilding"} => c.sub = 0 /\ c.upto = 0 /\ c.after = 0 /\ c.snap = 0
    /\ k \in followers => c.sub = IF c.at \in {"away", "rebuilding"} THEN 0 ELSE Session
    /\ k \notin followers => c.sub \in 0..current
    /\ k \notin followers /\ c.at \in {"reading", "read"} => c.sub = 0
    /\ c.at = "live" => c.sub # 0
    /\ c.at # "live" => c.sent = <<>>
    /\ c.after # 0 => c.after \in have[k]
    /\ c.at \in {"reading", "read", "replaying"} => \A h \in have[k] : h <= c.after
    /\ c.after <= disk /\ c.snap <= disk /\ c.upto <= disk
    /\ c.at \in {"read", "replaying", "live"} => c.after <= c.snap
    /\ c.at \in {"replaying", "live"} =>
         IF c.sub \in Runs THEN c.upto <= cursor[c.sub] ELSE c.upto = c.snap

(* What was sent is before what is still to be forwarded.                   *)
SentFits(k) ==
    LET c == conn[k] IN
    /\ InOrder(c.sent) /\ Sent(k) \subseteq have[k]
    /\ \A s \in Sent(k), e \in Ahead(k) : s < e
    /\ \A s \in Sent(k) : s > c.upto =>
         /\ c.sub \in Runs => s <= cursor[c.sub] /\ ~Held(c.sub, s)
    /\ k \in followers /\ c.at = "live" =>
         \A h \in have[k] : /\ \A e \in Ahead(k) : h < e
                            /\ h > c.upto => h <= Reached /\ ~HeldBack(h)

(* Nothing that was offered has been missed: it was shown, is due from the  *)
(* replay, is in the queue, or is accounted for.                            *)
Whole(k) ==
    LET c == conn[k] IN
    /\ k \in followers /\ c.at \in {"read", "replaying", "live"} /\ Resync \notin Items(k) =>
         \A e : OfferedAll(e) /\ e > c.snap => e \in have[k] \cup Events(k)
    /\ k \in followers /\ c.at = "live" => 1..c.snap \subseteq have[k] \cup unheard
    /\ c.sub \in Runs =>
         \A e : Offered(c.sub, e) /\ e > c.after =>
                  e \in have[k] \cup Lost(k) \cup Events(k) \cup Due(k)
    /\ c.sub \in Runs => c.after + 1 .. c.upto \subseteq have[k] \cup Lost(k) \cup Due(k)

NoGap(k) ==
    /\ have[k] \cup dropped[k] \cup skipped[k] \subseteq 1..disk
    /\ \A h \in have[k] : 1..h \subseteq have[k] \cup unheard \cup Lost(k)

ClientFits(k) == QueueFits(k) /\ StageFits(k) /\ SentFits(k) /\ Whole(k) /\ NoGap(k)

StreamInv == Types /\ RunsFit /\ FanFits /\ \A k \in Clients : ClientFits(k)

-----------------------------------------------------------------------------
(* Queues                                                                   *)

QueueItems == Nat \cup {Done, Resync}

LEMMA Sentinels == Done \notin Nat /\ Resync \notin Nat /\ Done # Resync
  BY SentinelAssumption

LEMMA RunsAndSession ==
  /\ Session \in Nat /\ Session \notin Runs /\ Session # 0 /\ 0 \notin Runs
  /\ \A r \in Runs : r \in Nat /\ r > 0 /\ r < Session
  BY StreamBoundAssumption DEF Runs, Session

LEMMA AppendedItem ==
  ASSUME NEW T, NEW q \in Seq(T), NEW x \in T
  PROVE  /\ Append(q, x) \in Seq(T) /\ Len(Append(q, x)) = Len(q) + 1
         /\ RangeOf(Append(q, x)) = RangeOf(q) \cup {x}
         /\ (InOrder(q) /\ (x \in Nat => \A e \in RangeOf(q) \cap Nat : e < x))
              => InOrder(Append(q, x))
         /\ q # <<>> => Append(q, x)[1] = q[1]
         /\ q = <<>> => Append(q, x)[1] = x
         /\ Append(q, x) # <<>>
<1>1. /\ Append(q, x) \in Seq(T) /\ Len(q) \in Nat
      /\ Len(Append(q, x)) = Len(q) + 1 /\ Append(q, x)[Len(q) + 1] = x
      /\ \A i \in 1..Len(q) : Append(q, x)[i] = q[i]
      /\ DOMAIN q = 1..Len(q) /\ DOMAIN Append(q, x) = 1..Len(q) + 1
  OBVIOUS
<1>2. 1..Len(q) + 1 = 1..Len(q) \cup {Len(q) + 1}
  BY <1>1
<1>3. RangeOf(Append(q, x)) = RangeOf(q) \cup {x}
  BY <1>1, <1>2 DEF RangeOf
<1>4. ASSUME InOrder(q), x \in Nat => \A e \in RangeOf(q) \cap Nat : e < x
      PROVE  InOrder(Append(q, x))
  <2>. SUFFICES ASSUME NEW i \in DOMAIN Append(q, x), NEW j \in DOMAIN Append(q, x), i < j,
                       Append(q, x)[i] \in Nat, Append(q, x)[j] \in Nat
                PROVE  Append(q, x)[i] < Append(q, x)[j]
    BY DEF InOrder
  <2>1. i \in 1..Len(q)
    BY <1>1
  <2>2. CASE j \in 1..Len(q)
    BY <1>1, <1>4, <2>1, <2>2 DEF InOrder
  <2>3. CASE j = Len(q) + 1
    BY <1>1, <1>4, <2>1, <2>3 DEF RangeOf
  <2>. QED  BY <1>1, <1>2, <2>2, <2>3
<1>5. q = <<>> => Len(q) = 0
  OBVIOUS
<1>6. q # <<>> => 1 \in 1..Len(q)
  OBVIOUS
<1>7. Append(q, x) # <<>>
  OBVIOUS
<1>. QED  BY <1>1, <1>3, <1>4, <1>5, <1>6, <1>7

LEMMA TakenItem ==
  ASSUME NEW T, NEW q \in Seq(T), q # <<>>
  PROVE  /\ Tail(q) \in Seq(T) /\ Len(Tail(q)) = Len(q) - 1 /\ Head(q) \in T
         /\ RangeOf(q) = RangeOf(Tail(q)) \cup {Head(q)} /\ Head(q) = q[1]
         /\ InOrder(q) =>
              /\ InOrder(Tail(q))
              /\ Head(q) \in Nat => \A e \in RangeOf(Tail(q)) \cap Nat : Head(q) < e
<1>1. /\ Tail(q) \in Seq(T) /\ Len(q) \in Nat \ {0} /\ Len(Tail(q)) = Len(q) - 1
      /\ Head(q) = q[1] /\ Head(q) \in T
      /\ \A i \in 1..Len(q) - 1 : Tail(q)[i] = q[i + 1] /\ i + 1 \in 1..Len(q) /\ i \in Int
      /\ DOMAIN q = 1..Len(q) /\ DOMAIN Tail(q) = 1..Len(q) - 1
  OBVIOUS
<1>2. \A j \in 1..Len(q) : j = 1 \/ (j - 1 \in 1..Len(q) - 1 /\ (j - 1) + 1 = j)
  BY <1>1
<1>3. RangeOf(q) = RangeOf(Tail(q)) \cup {Head(q)}
  <2>1. 1 \in 1..Len(q)
    BY <1>1
  <2>2. ASSUME NEW x \in RangeOf(q) PROVE x \in RangeOf(Tail(q)) \cup {Head(q)}
    <3>1. PICK j \in 1..Len(q) : x = q[j]
      BY <1>1 DEF RangeOf
    <3>2. CASE j = 1
      BY <1>1, <3>1, <3>2
    <3>3. CASE j # 1
      <4>1. PICK i \in 1..Len(q) - 1 : j = i + 1
        BY <1>2, <3>3
      <4>. QED  BY <1>1, <3>1, <4>1 DEF RangeOf
    <3>. QED  BY <3>2, <3>3
  <2>3. \A x \in RangeOf(Tail(q)) \cup {Head(q)} : x \in RangeOf(q)
    BY <1>1, <2>1 DEF RangeOf
  <2>. QED  BY <2>2, <2>3
<1>4. ASSUME InOrder(q) PROVE InOrder(Tail(q))
  <2>. SUFFICES ASSUME NEW i \in 1..Len(q) - 1, NEW j \in 1..Len(q) - 1, i < j,
                       Tail(q)[i] \in Nat, Tail(q)[j] \in Nat
                PROVE  Tail(q)[i] < Tail(q)[j]
    BY <1>1 DEF InOrder
  <2>1. i + 1 < j + 1 /\ i + 1 \in DOMAIN q /\ j + 1 \in DOMAIN q
    BY <1>1
  <2>. QED  BY <1>1, <1>4, <2>1 DEF InOrder
<1>5. ASSUME InOrder(q), Head(q) \in Nat, NEW e \in RangeOf(Tail(q)) \cap Nat PROVE Head(q) < e
  <2>1. PICK i \in 1..Len(q) - 1 : e = q[i + 1]
    BY <1>1, <1>5 DEF RangeOf
  <2>2. 1 < i + 1 /\ i + 1 \in DOMAIN q /\ 1 \in DOMAIN q
    BY <1>1
  <2>. QED  BY <1>1, <1>5, <2>1, <2>2 DEF InOrder
<1>. QED  BY <1>1, <1>3, <1>4, <1>5

(* An item is put into a queue of bounded length.                           *)
LEMMA OfferedItem ==
  ASSUME NEW q \in Seq(QueueItems), Len(q) <= QueueMax, InOrder(q), NEW x \in QueueItems,
         x \in Nat => \A e \in RangeOf(q) \cap Nat : e < x
  PROVE  /\ Offer(q, x) \in Seq(QueueItems) /\ Len(Offer(q, x)) <= QueueMax
         /\ InOrder(Offer(q, x)) /\ x \in RangeOf(Offer(q, x))
         /\ RangeOf(Offer(q, x)) \subseteq RangeOf(q) \cup {x}
         /\ RangeOf(q) \subseteq RangeOf(Offer(q, x)) \cup IF Full(q) THEN {Head(q)} ELSE {}
         /\ Full(q) => Head(q) \in RangeOf(q)
<1>. DEFINE p == IF Full(q) THEN Tail(q) ELSE q
<1>1. QueueMax \in Nat \ {0} /\ Len(q) \in Nat
  BY StreamBoundAssumption
<1>2. Full(q) => q # <<>>
  <2>1. Len(<<>>) = 0
    OBVIOUS
  <2>. QED  BY <1>1, <2>1 DEF Full
<1>3. /\ p \in Seq(QueueItems) /\ Len(p) < QueueMax /\ Len(p) \in Nat /\ InOrder(p)
      /\ RangeOf(p) \subseteq RangeOf(q)
      /\ RangeOf(q) \subseteq RangeOf(p) \cup IF Full(q) THEN {Head(q)} ELSE {}
      /\ Full(q) => Head(q) \in RangeOf(q)
  <2>1. CASE Full(q)
    BY <1>1, <1>2, <2>1, TakenItem DEF Full
  <2>2. CASE ~Full(q)
    BY <1>1, <2>2 DEF Full
  <2>. QED  BY <2>1, <2>2
<1>4. Offer(q, x) = Append(p, x)
  BY DEF Offer
<1>. HIDE DEF p
<1>5. \A e \in RangeOf(p) \cap Nat : x \in Nat => e < x
  BY <1>3
<1>6. /\ Append(p, x) \in Seq(QueueItems) /\ Len(Append(p, x)) = Len(p) + 1
      /\ RangeOf(Append(p, x)) = RangeOf(p) \cup {x} /\ InOrder(Append(p, x))
  BY <1>3, <1>5, AppendedItem
<1>. QED  BY <1>1, <1>3, <1>4, <1>6

-----------------------------------------------------------------------------
(* A client that a step leaves alone                                        *)

(* The runs go on: nothing that was reached or has ended is taken back.     *)
GoesOn ==
    /\ followers' = followers /\ disk' >= disk /\ unheard \subseteq unheard'
    /\ current' >= current /\ Reached' >= Reached
    /\ \A r \in Runs : /\ cursor'[r] >= cursor[r]
                       /\ state[r] = "finished" => state'[r] = "finished"

(* The step offers nothing to the subscribers of r, nothing to followers.   *)
NoOffer(r) ==
    /\ \A e : Offered(r, e)' => Offered(r, e)
    /\ \A e \in 1..cursor[r] : Held(r, e)' => Held(r, e)
NoOfferToAll ==
    /\ \A e : OfferedAll(e)' => OfferedAll(e)
    /\ \A e \in 1..Reached : HeldBack(e)' => HeldBack(e)

Untouched(k) ==
    conn'[k] = conn[k] /\ have'[k] = have[k] /\ dropped'[k] = dropped[k] /\ skipped'[k] = skipped[k]

LEMMA ClientTypes ==
  ASSUME Types, NEW k \in Clients
  PROVE  /\ conn[k] \in Connections /\ conn[k].at \in Stages /\ conn[k].sub \in 0..Session
         /\ conn[k].queue \in Seq(QueueItems) /\ conn[k].sent \in Seq(Nat)
         /\ conn[k].after \in Nat /\ conn[k].snap \in Nat /\ conn[k].upto \in Nat
         /\ have[k] \in SUBSET Nat /\ dropped[k] \in SUBSET Nat /\ skipped[k] \in SUBSET Nat
         /\ disk \in Nat /\ current \in Nat
<1>1. conn[k] \in Connections
  BY DEF Types
<1>2. have[k] \in SUBSET Nat /\ dropped[k] \in SUBSET Nat /\ skipped[k] \in SUBSET Nat
  BY DEF Types
<1>3. disk \in Nat /\ current \in Nat
  BY StreamBoundAssumption DEF Types
<1>. QED  BY <1>1, <1>2, <1>3 DEF Connections, QueueItems

LEMMA RunTypes ==
  ASSUME Types
  PROVE  /\ disk \in Nat /\ current \in Nat /\ (current # 0 => current \in Runs)
         /\ Reached \in Nat
         /\ \A r \in Runs : /\ base[r] \in Nat /\ cursor[r] \in Nat /\ last[r] \in Nat
                            /\ base[r] <= disk /\ cursor[r] <= disk /\ last[r] <= disk
                            /\ Front(r) \in Nat /\ Front(r) <= disk
                            /\ base[r] <= Front(r) /\ cursor[r] <= Front(r)
<1>1. disk \in Nat /\ current \in Nat /\ (current # 0 => current \in Runs)
  BY StreamBoundAssumption DEF Types, Runs
<1>2. \A r \in Runs : base[r] \in 0..disk /\ cursor[r] \in 0..disk /\ last[r] \in 0..disk
  BY DEF Types
<1>3. \A r \in Runs : Front(r) \in 0..disk /\ base[r] <= Front(r) /\ cursor[r] <= Front(r)
  BY <1>1, <1>2 DEF Front
<1>. QED  BY <1>1, <1>2, <1>3 DEF Reached

LEMMA ClientStays ==
  ASSUME StreamInv, Types', GoesOn, NEW k \in Clients, Untouched(k),
         NEW r, r = conn[k].sub, r \in Runs => NoOffer(r), r = Session => NoOfferToAll
  PROVE  ClientFits(k)'
<1>. USE DEF Untouched
<1>1. /\ Types /\ QueueFits(k) /\ StageFits(k) /\ SentFits(k) /\ Whole(k) /\ NoGap(k)
      /\ (k \in followers)' <=> k \in followers
  BY DEF StreamInv, ClientFits, GoesOn
<1>2. /\ Items(k)' = Items(k) /\ Events(k)' = Events(k) /\ Ahead(k)' = Ahead(k)
      /\ Sent(k)' = Sent(k) /\ Due(k)' = Due(k) /\ Lost(k)' = Lost(k)
  BY <1>1 DEF Items, Events, Ahead, Sent, Due, Window, Lost
<1>3. /\ disk \in Nat /\ disk' \in Nat /\ current \in Nat /\ current' \in Nat
      /\ Reached \in Nat /\ Reached' \in Nat /\ current <= current' /\ Reached <= Reached'
      /\ disk <= disk' /\ unheard \subseteq unheard'
      /\ r \in Runs => cursor[r] \in Nat /\ cursor'[r] \in Nat /\ cursor[r] <= cursor'[r]
  <2>1. Reached \in Nat /\ disk \in Nat /\ current \in Nat
    BY <1>1, RunTypes
  <2>2. /\ disk' \in Nat /\ current' \in Nat
        /\ cursor' \in [Runs -> 0..disk'] /\ base' \in [Runs -> 0..disk']
    BY StreamBoundAssumption DEF Types
  <2>3. Reached' \in Nat
    <3>1. current' # 0 => current' \in Runs
      BY StreamBoundAssumption DEF Types, Runs
    <3>. QED  BY <2>2, <3>1 DEF Reached, Front
  <2>. QED  BY <1>1, <2>1, <2>2, <2>3, RunTypes DEF GoesOn
<1>4. QueueFits(k)'
  <2>1. r \in Runs => \A e \in Events(k) : e \in 1..cursor'[r] /\ ~Held(r, e)'
    BY <1>1, <1>3 DEF QueueFits, NoOffer
  <2>2. r = Session => \A e \in Events(k) : e \in 1..Reached' /\ ~HeldBack(e)'
    <3>1. r = Session => k \in followers
      <4>1. current \in 0..MaxRuns /\ MaxRuns \in Nat
        BY <1>1, StreamBoundAssumption DEF Types
      <4>2. Session \notin 0..current
        BY <4>1 DEF Session
      <4>. QED  BY <1>1, <4>2 DEF StageFits
    <3>. QED  BY <1>1, <1>3, <3>1 DEF QueueFits, NoOfferToAll
  <2>. QED  BY <1>1, <1>2, <2>1, <2>2 DEF QueueFits, GoesOn
<1>5. StageFits(k)'
  BY <1>1, <1>3, ClientTypes DEF StageFits
<1>9. k \in followers /\ conn[k].at \notin {"away", "rebuilding"} => r = Session
  BY <1>1 DEF StageFits
<1>6. SentFits(k)'
  <2>1. \A s \in Sent(k) : s > conn[k].upto =>
          (r \in Runs => s <= cursor'[r] /\ ~Held(r, s)')
    <3>1. \A s \in Sent(k) : s \in Nat
      BY <1>1, ClientTypes DEF Sent, RangeOf
    <3>. QED  BY <1>1, <1>3, <3>1, ClientTypes DEF SentFits, NoOffer
  <2>2. k \in followers /\ conn[k].at = "live" =>
          \A h \in have[k] : h > conn[k].upto => h <= Reached' /\ ~HeldBack(h)'
    <3>1. \A h \in have[k] : h \in Nat
      BY <1>1, ClientTypes
    <3>. QED  BY <1>1, <1>3, <1>9, <3>1, ClientTypes DEF SentFits, NoOfferToAll
  <2>. QED  BY <1>1, <1>2, <2>1, <2>2 DEF SentFits
<1>7. Whole(k)'
  BY <1>1, <1>2, <1>3, <1>9 DEF Whole, NoOffer, NoOfferToAll
<1>8. NoGap(k)'
  BY <1>1, <1>2, <1>3 DEF NoGap
<1>. QED  BY <1>4, <1>5, <1>6, <1>7, <1>8 DEF ClientFits

-----------------------------------------------------------------------------
(* The steps of the run                                                     *)

LEMMA LeastNumber ==
  ASSUME NEW S \in SUBSET Nat, S # {}
  PROVE  \E n \in S : \A m \in S : n <= m
<1>1. IsWellFoundedOn(OpToRel(<, Nat), Nat)
  BY NatLessThanWellFounded
<1>2. PICK n \in S : \A m \in S : ~(<<m, n>> \in OpToRel(<, Nat))
  BY <1>1, WFMin
<1>3. \A m \in S : ~(m < n)
  BY <1>2 DEF OpToRel
<1>. QED  BY <1>3

LEMMA SmallestOf ==
  ASSUME NEW n \in Nat, NEW S \in SUBSET (1..n), S # {}
  PROVE  Min(S) \in S /\ \A e \in S : Min(S) <= e
<1>1. PICK m \in S : \A e \in S : m <= e
  <2>1. S \in SUBSET Nat
    OBVIOUS
  <2>. QED  BY <2>1, LeastNumber
<1>. QED  BY <1>1 DEF Min

LEMMA LaunchKeeps ==
  ASSUME StreamInv, NEW r \in Runs, Launch(r)
  PROVE  StreamInv'
<1>1. /\ Types /\ RunsFit /\ FanFits
      /\ state[r] = "none" /\ r = current + 1 /\ current' = r
      /\ state' = [state EXCEPT ![r] = "live"] /\ base' = [base EXCEPT ![r] = disk]
      /\ UNCHANGED <<followers, disk, unheard, last, cursor, fan, clientVars>>
  BY DEF StreamInv, Launch
<1>2. /\ r \in 0..MaxRuns /\ r # 0 /\ current \in 0..MaxRuns /\ MaxRuns \in Nat
      /\ current # 0 => current \in Runs /\ state[current] # "live"
  <2>1. current # 0 => current \in Runs
    BY <1>1, RunTypes
  <2>. QED  BY <1>1, <2>1, StreamBoundAssumption DEF Runs, Launch, InFlight, Types
<1>3. fan = NoFan
  BY <1>1, <1>2 DEF FanFits, Types, NoFan
<1>4. Types'
  BY <1>1, <1>2 DEF Types, clientVars, Ended
<1>5. /\ \A q \in Runs : q # r => /\ base'[q] = base[q] /\ state'[q] = state[q]
                                  /\ Front(q)' = Front(q)
      /\ base'[r] = disk /\ state'[r] = "live" /\ cursor[r] = 0 /\ last[r] = 0
      /\ Reached' = disk /\ Reached <= disk
  <2>1. \A q \in Runs : q # r => base'[q] = base[q] /\ state'[q] = state[q]
    BY <1>1 DEF Types
  <2>2. base'[r] = disk /\ state'[r] = "live"
    BY <1>1 DEF Types
  <2>3. cursor[r] = 0 /\ last[r] = 0
    BY <1>1, <1>2 DEF RunFits, RunsFit
  <2>4. Reached' = disk /\ disk \in Nat
    BY <1>1, <1>2, <2>2, <2>3, RunTypes DEF Reached, Front
  <2>5. Reached <= disk
    BY <1>1, RunTypes DEF Reached
  <2>. QED  BY <1>1, <2>1, <2>2, <2>3, <2>4, <2>5 DEF Front
<1>6. RunsFit'
  <2>1. \A q \in Runs : RunFits(q)'
    <3>. SUFFICES ASSUME NEW q \in Runs PROVE RunFits(q)'
      OBVIOUS
    <3>1. CASE q = r
      BY <1>1, <1>2, <1>5, <3>1 DEF RunFits
    <3>2. CASE q # r
      <4>1. (q > current' <=> q > current) /\ state'[q] = state[q] /\ state[q] # "live"
        BY <1>1, <1>2, <1>5, <3>2, RunsAndSession DEF RunFits, RunsFit
      <4>. QED  BY <1>1, <1>5, <3>2, <4>1 DEF RunFits, RunsFit
    <3>. QED  BY <3>1, <3>2
  <2>2. current' # 0 /\ state'[current'] = "live"
    BY <1>1, <1>2, <1>5
  <2>. QED  BY <2>1, <2>2 DEF RunsFit
<1>7. FanFits'
  BY <1>1, <1>3 DEF FanFits, NoFan
<1>8. GoesOn
  BY <1>1, <1>2, <1>5, RunTypes DEF GoesOn
<1>9. \A q \in Runs : q # r => NoOffer(q)
  BY <1>1, <1>3, <1>5 DEF NoOffer, Offered, Held, NoFan
<1>10. NoOfferToAll
  <2>1. ASSUME NEW e, OfferedAll(e)' PROVE OfferedAll(e)
    BY <1>1, <1>2, <1>3, <1>5, <2>1, RunTypes DEF OfferedAll, HeldBack, RunFits, RunsFit, NoFan
  <2>. QED  BY <1>1, <1>3, <2>1 DEF NoOfferToAll, HeldBack, NoFan
<1>11. ASSUME NEW k \in Clients PROVE ClientFits(k)'
  <2>1. conn[k].sub \in Runs => conn[k].sub # r
    BY <1>1, <1>2, ClientTypes, RunsAndSession DEF StreamInv, ClientFits, StageFits
  <2>. QED  BY <1>1, <1>4, <1>8, <1>9, <1>10, <2>1, ClientStays DEF Untouched, clientVars
<1>. QED  BY <1>4, <1>6, <1>7, <1>11 DEF StreamInv

LEMMA AppendLiveKeeps ==
  ASSUME StreamInv, NEW r \in Runs, AppendLive(r)
  PROVE  StreamInv'
<1>1. /\ Types /\ RunsFit /\ FanFits
      /\ state[r] = "live" /\ last[r] = 0 /\ disk' = disk + 1 /\ disk < MaxEvents
      /\ unheard' \in {unheard, unheard \cup {disk + 1}}
      /\ last' \in {last, [last EXCEPT ![r] = disk + 1]}
      /\ UNCHANGED <<followers, current, state, base, cursor, fan, clientVars>>
  BY DEF StreamInv, AppendLive
<1>2. disk \in Nat /\ MaxEvents \in Nat
  BY <1>1, StreamBoundAssumption DEF Types
<1>3. Types'
  BY <1>1, <1>2 DEF Types, clientVars
<1>4. /\ Reached' = Reached /\ Reached \in Nat
      /\ \A q \in Runs : Front(q)' = Front(q)
      /\ \A q \in Runs : q # r => last'[q] = last[q]
      /\ last'[r] \in {0, disk'} /\ r = current /\ r # 0
  BY <1>1, RunTypes, RunsAndSession DEF Reached, Front, Types, RunFits, RunsFit
<1>5. RunsFit'
  <2>1. \A q \in Runs : RunFits(q)'
    BY <1>1, <1>4, RunTypes DEF RunFits, RunsFit
  <2>2. current' # 0 /\ state'[current'] = "live"
    BY <1>1, <1>4
  <2>. QED  BY <2>1, <2>2 DEF RunsFit
<1>6. FanFits'
  BY <1>1 DEF FanFits, NoFan
<1>7. GoesOn
  BY <1>1, <1>2, <1>4, RunTypes DEF GoesOn
<1>8. \A q \in Runs : NoOffer(q)
  BY <1>1, <1>4 DEF NoOffer, Offered, Held
<1>9. NoOfferToAll
  BY <1>1, <1>4 DEF NoOfferToAll, OfferedAll, HeldBack
<1>10. ASSUME NEW k \in Clients PROVE ClientFits(k)'
  BY <1>1, <1>3, <1>7, <1>8, <1>9, ClientStays DEF Untouched, clientVars
<1>. QED  BY <1>3, <1>5, <1>6, <1>10 DEF StreamInv

LEMMA AppendQuietKeeps ==
  ASSUME StreamInv, AppendQuiet
  PROVE  StreamInv'
<1>1. /\ Types /\ RunsFit /\ FanFits /\ InFlight = {}
      /\ disk' = disk + 1 /\ disk < MaxEvents /\ unheard' = unheard \cup {disk + 1}
      /\ UNCHANGED <<followers, current, state, base, last, cursor, fan, clientVars>>
  BY DEF StreamInv, AppendQuiet
<1>2. disk \in Nat /\ MaxEvents \in Nat /\ \A q \in Runs : state[q] # "live"
  BY <1>1, StreamBoundAssumption DEF Types, RunFits, RunsFit, InFlight
<1>3. Types'
  BY <1>1, <1>2 DEF Types, clientVars
<1>4. /\ Reached' = Reached /\ Reached \in Nat
      /\ \A q \in Runs : Front(q)' = Front(q)
  BY <1>1, RunTypes DEF Reached, Front
<1>5. RunsFit'
  <2>1. \A q \in Runs : RunFits(q)'
    BY <1>1, <1>2 DEF RunFits, RunsFit
  <2>2. Reached' + 1 .. disk' \subseteq unheard'
    <3>1. Reached + 1 .. disk \subseteq unheard
      BY <1>1, <1>2, RunTypes DEF RunFits, RunsFit
    <3>. QED  BY <1>1, <1>2, <1>4, <3>1
  <2>. QED  BY <2>1, <2>2 DEF RunsFit
<1>6. FanFits'
  BY <1>1 DEF FanFits, NoFan
<1>7. GoesOn
  BY <1>1, <1>2, <1>4, RunTypes DEF GoesOn
<1>8. \A q \in Runs : NoOffer(q)
  BY <1>1, <1>4 DEF NoOffer, Offered, Held
<1>9. NoOfferToAll
  BY <1>1, <1>4 DEF NoOfferToAll, OfferedAll, HeldBack
<1>10. ASSUME NEW k \in Clients PROVE ClientFits(k)'
  BY <1>1, <1>3, <1>7, <1>8, <1>9, ClientStays DEF Untouched, clientVars
<1>. QED  BY <1>3, <1>5, <1>6, <1>10 DEF StreamInv

LEMMA EnqueueKeeps ==
  ASSUME StreamInv, NEW r \in Runs, Enqueue(r)
  PROVE  StreamInv'
<1>. DEFINE event == Min(Pending(r))
<1>1. /\ Types /\ RunsFit /\ FanFits /\ fan = NoFan /\ state[r] = "live" /\ Pending(r) # {}
      /\ cursor' = [cursor EXCEPT ![r] = event]
      /\ fan' = [run |-> r, event |-> event, to |-> "run"]
      /\ UNCHANGED <<followers, disk, unheard, current, state, base, last, clientVars>>
  BY DEF StreamInv, Enqueue
<1>2. r = current /\ r # 0 /\ r \in 0..MaxRuns
  BY <1>1, RunsAndSession, StreamBoundAssumption DEF RunFits, RunsFit, Runs
<1>3. /\ base[r] \in Nat /\ cursor[r] \in Nat /\ disk \in Nat
      /\ Front(r) \in Nat /\ base[r] <= Front(r) /\ cursor[r] <= Front(r)
      /\ Front(r) = base[r] \/ Front(r) = cursor[r]
  BY <1>1, RunTypes DEF Front
<1>4. event \in Pending(r) /\ \A e \in Pending(r) : event <= e
  <2>1. Pending(r) \subseteq 1..disk
    BY <1>3 DEF Pending
  <2>. QED  BY <1>1, <1>3, <2>1, SmallestOf
<1>5. /\ event \in 1..disk /\ event \in Nat /\ event > base[r] /\ event > cursor[r]
      /\ event > Front(r)
      /\ \A e \in 1..event : e > Front(r) /\ e \notin unheard => e = event
  BY <1>3, <1>4 DEF Pending
<1>. HIDE DEF event
<1>6. Types'
  BY <1>1, <1>2, <1>3, <1>5 DEF Types, clientVars
<1>7. /\ cursor'[r] = event /\ Front(r)' = event /\ Reached' = event /\ Reached = Front(r)
      /\ \A q \in Runs : q # r => cursor'[q] = cursor[q] /\ Front(q)' = Front(q)
  <2>1. cursor'[r] = event /\ \A q \in Runs : q # r => cursor'[q] = cursor[q]
    BY <1>1 DEF Types
  <2>2. Front(r)' = event
    BY <1>1, <1>3, <1>5, <2>1 DEF Front
  <2>. QED  BY <1>1, <1>2, <2>1, <2>2 DEF Front, Reached
<1>8. RunsFit'
  <2>1. \A q \in Runs : RunFits(q)'
    BY <1>1, <1>2, <1>7, RunsAndSession DEF RunFits, RunsFit
  <2>2. current' # 0 /\ state'[current'] = "live"
    BY <1>1, <1>2
  <2>. QED  BY <2>1, <2>2 DEF RunsFit
<1>9. FanFits'
  BY <1>1, <1>2, <1>5, <1>7 DEF FanFits
<1>10. GoesOn
  BY <1>1, <1>3, <1>5, <1>7, RunTypes DEF GoesOn
<1>11. \A q \in Runs : NoOffer(q)
  <2>. SUFFICES ASSUME NEW q \in Runs PROVE NoOffer(q)
    OBVIOUS
  <2>1. CASE q # r
    BY <1>1, <1>7, <2>1 DEF NoOffer, Offered, Held, NoFan
  <2>2. CASE q = r
    <3>1. ASSUME NEW e, Offered(q, e)' PROVE Offered(q, e)
      BY <1>1, <1>3, <1>5, <1>7, <2>2, <3>1 DEF Offered, Held, NoFan
    <3>2. \A e \in 1..cursor[q] : ~Held(q, e)'
      BY <1>1, <1>3, <1>5, <2>2 DEF Held
    <3>. QED  BY <3>1, <3>2 DEF NoOffer
  <2>. QED  BY <2>1, <2>2
<1>12. NoOfferToAll
  <2>1. ASSUME NEW e, OfferedAll(e)' PROVE OfferedAll(e)
    BY <1>1, <1>3, <1>5, <1>7, <2>1 DEF OfferedAll, HeldBack, NoFan
  <2>2. \A e \in 1..Reached : ~HeldBack(e)'
    BY <1>1, <1>3, <1>5, <1>7 DEF HeldBack
  <2>. QED  BY <2>1, <2>2 DEF NoOfferToAll
<1>13. ASSUME NEW k \in Clients PROVE ClientFits(k)'
  BY <1>1, <1>6, <1>10, <1>11, <1>12, ClientStays DEF Untouched, clientVars
<1>. QED  BY <1>6, <1>8, <1>9, <1>13 DEF StreamInv

LEMMA ActiveFan ==
  ASSUME Types, FanFits, fan.to # "nobody"
  PROVE  /\ fan.run = current /\ current \in Runs /\ state[current] = "live"
         /\ fan.event = cursor[current] /\ fan.event \in Nat /\ fan.event > 0
         /\ Front(current) = fan.event /\ Reached = fan.event
         /\ fan.event <= disk /\ base[current] < fan.event
<1>1. /\ fan.run = current /\ current # 0 /\ state[current] = "live"
      /\ fan.event = cursor[current] /\ base[current] < cursor[current]
  BY DEF FanFits
<1>2. /\ current \in Runs /\ base[current] \in Nat /\ cursor[current] \in Nat
      /\ cursor[current] <= disk
  BY <1>1, RunTypes
<1>. QED  BY <1>1, <1>2 DEF Front, Reached

(* A subscriber of a live run, or of one that ends, has only events in its  *)
(* queue.                                                                   *)
LEMMA SubscriberQueue ==
  ASSUME StreamInv, NEW k \in Clients, NEW r \in Runs, conn[k].sub = r, state[r] # "finished"
  PROVE  /\ Items(k) \subseteq Nat /\ Events(k) = Items(k) /\ k \notin followers
         /\ \A e \in Items(k) : e \in 1..cursor[r] /\ ~Held(r, e)
<1>1. Types /\ QueueFits(k) /\ StageFits(k)
  BY DEF StreamInv, ClientFits
<1>2. k \notin followers
  BY <1>1, RunsAndSession DEF StageFits
<1>3. Items(k) \subseteq QueueItems
  BY <1>1, ClientTypes DEF Items, RangeOf
<1>4. Done \notin Items(k) /\ Resync \notin Items(k)
  BY <1>1, <1>2 DEF QueueFits
<1>5. Items(k) \subseteq Nat /\ Events(k) = Items(k)
  BY <1>3, <1>4 DEF QueueItems, Events
<1>. QED  BY <1>1, <1>2, <1>5 DEF QueueFits

LEMMA PublishedTypes ==
  ASSUME StreamInv, NEW r \in Runs, state[r] # "finished", NEW x \in QueueItems,
         Publish(r, [k \in Clients |-> Offer(conn[k].queue, x)]),
         x \in Nat => \A e \in 1..cursor[r] : ~Held(r, e) => e < x
  PROVE  /\ conn' \in [Clients -> Connections] /\ dropped' \in [Clients -> SUBSET Nat]
         /\ \A k \in Clients :
              IF conn[k].sub = r
              THEN /\ conn'[k] = [conn[k] EXCEPT !.queue = Offer(conn[k].queue, x)]
                   /\ dropped[k] \subseteq dropped'[k]
                   /\ dropped'[k] \subseteq dropped[k] \cup Items(k)
                   /\ Items(k) \subseteq Items(k)' \cup dropped'[k]
                   /\ Items(k)' \subseteq Items(k) \cup {x} /\ x \in Items(k)'
                   /\ Len(conn'[k].queue) <= QueueMax /\ InOrder(conn'[k].queue)
              ELSE conn'[k] = conn[k] /\ dropped'[k] = dropped[k]
<1>1. Types
  BY DEF StreamInv
<1>2. ASSUME NEW k \in Clients, conn[k].sub = r
      PROVE  /\ conn'[k] = [conn[k] EXCEPT !.queue = Offer(conn[k].queue, x)]
             /\ conn'[k] \in Connections /\ dropped'[k] \in SUBSET Nat
             /\ dropped[k] \subseteq dropped'[k]
             /\ dropped'[k] \subseteq dropped[k] \cup Items(k)
             /\ Items(k) \subseteq Items(k)' \cup dropped'[k]
             /\ Items(k)' \subseteq Items(k) \cup {x} /\ x \in Items(k)'
             /\ Len(conn'[k].queue) <= QueueMax /\ InOrder(conn'[k].queue)
  <2>. DEFINE q == conn[k].queue
  <2>1. /\ conn'[k] = [conn[k] EXCEPT !.queue = Offer(q, x)]
        /\ dropped'[k] = dropped[k] \cup IF Full(q) THEN {Head(q)} ELSE {}
    BY <1>2 DEF Publish
  <2>2. conn[k] \in Connections /\ q \in Seq(QueueItems) /\ dropped[k] \in SUBSET Nat
    BY <1>1, ClientTypes
  <2>3. Items(k) \subseteq Nat /\ \A e \in Items(k) : x \in Nat => e < x
    BY <1>2, SubscriberQueue
  <2>4. Len(q) <= QueueMax /\ InOrder(q)
    BY DEF StreamInv, ClientFits, QueueFits
  <2>5. /\ Offer(q, x) \in Seq(QueueItems) /\ Len(Offer(q, x)) <= QueueMax
        /\ InOrder(Offer(q, x)) /\ x \in RangeOf(Offer(q, x))
        /\ RangeOf(Offer(q, x)) \subseteq RangeOf(q) \cup {x}
        /\ RangeOf(q) \subseteq RangeOf(Offer(q, x)) \cup IF Full(q) THEN {Head(q)} ELSE {}
        /\ Full(q) => Head(q) \in RangeOf(q)
    BY <2>2, <2>3, <2>4, OfferedItem DEF Items
  <2>6. conn'[k].queue = Offer(q, x) /\ conn'[k] \in Connections
    BY <2>1, <2>2, <2>5 DEF Connections, QueueItems
  <2>7. Items(k)' = RangeOf(Offer(q, x)) /\ Items(k) = RangeOf(q)
    BY <2>6 DEF Items
  <2>. HIDE DEF q
  <2>. QED  BY <2>1, <2>2, <2>3, <2>5, <2>6, <2>7 DEF q
<1>3. ASSUME NEW k \in Clients, conn[k].sub # r
      PROVE  /\ conn'[k] = conn[k] /\ dropped'[k] = dropped[k]
             /\ conn'[k] \in Connections /\ dropped'[k] \in SUBSET Nat
  BY <1>1, <1>3, ClientTypes DEF Publish
<1>4. conn' \in [Clients -> Connections] /\ dropped' \in [Clients -> SUBSET Nat]
  <2>1. \A k \in Clients : conn'[k] \in Connections /\ dropped'[k] \in SUBSET Nat
    BY <1>2, <1>3
  <2>. QED  BY <2>1 DEF Publish
<1>. QED  BY <1>2, <1>3, <1>4

(* A subscriber of r is served: with an event, or with the end of the run.  *)
LEMMA SubscriberServed ==
  ASSUME StreamInv, Types', GoesOn, NEW r \in Runs, state[r] # "finished",
         NEW x \in Nat \cup {Done}, x = Done => state'[r] = "finished",
         x \in Nat => x \in 1..cursor[r] /\ ~Held(r, x)',
         x \in Nat => \A e \in 1..cursor[r] : ~Held(r, e) => e < x,
         \A e : Offered(r, e)' => Offered(r, e) \/ e = x,
         \A e \in 1..cursor[r] : Held(r, e)' => Held(r, e),
         Publish(r, [k \in Clients |-> Offer(conn[k].queue, x)]),
         UNCHANGED <<have, skipped>>, NEW k \in Clients, conn[k].sub = r
  PROVE  ClientFits(k)'
<1>. DEFINE c == conn[k]
<1>1. /\ Types /\ QueueFits(k) /\ StageFits(k) /\ SentFits(k) /\ Whole(k) /\ NoGap(k)
      /\ k \notin followers /\ (k \notin followers)'
      /\ Items(k) \subseteq Nat /\ Events(k) = Items(k)
      /\ \A e \in Items(k) : e \in 1..cursor[r] /\ ~Held(r, e)
  BY SubscriberQueue DEF StreamInv, ClientFits, GoesOn
<1>2. /\ conn'[k] = [c EXCEPT !.queue = Offer(c.queue, x)]
      /\ dropped[k] \subseteq dropped'[k] /\ dropped'[k] \subseteq dropped[k] \cup Items(k)
      /\ Items(k) \subseteq Items(k)' \cup dropped'[k]
      /\ Items(k)' \subseteq Items(k) \cup {x} /\ x \in Items(k)'
      /\ Len(conn'[k].queue) <= QueueMax /\ InOrder(conn'[k].queue)
  <2>1. x \in QueueItems
    BY DEF QueueItems
  <2>2. \A w \in Clients :
          IF conn[w].sub = r
          THEN /\ conn'[w] = [conn[w] EXCEPT !.queue = Offer(conn[w].queue, x)]
               /\ dropped[w] \subseteq dropped'[w]
               /\ dropped'[w] \subseteq dropped[w] \cup Items(w)
               /\ Items(w) \subseteq Items(w)' \cup dropped'[w]
               /\ Items(w)' \subseteq Items(w) \cup {x} /\ x \in Items(w)'
               /\ Len(conn'[w].queue) <= QueueMax /\ InOrder(conn'[w].queue)
          ELSE conn'[w] = conn[w] /\ dropped'[w] = dropped[w]
    BY <2>1, PublishedTypes
  <2>. QED  BY <2>2
<1>3. c \in Connections /\ c.upto \in Nat /\ c.sub = r /\ r \in Nat /\ r # 0 /\ r # Session
  BY <1>1, ClientTypes, RunsAndSession
<1>4. /\ conn'[k].at = c.at /\ conn'[k].sub = r /\ conn'[k].after = c.after
      /\ conn'[k].snap = c.snap /\ conn'[k].upto = c.upto /\ conn'[k].sent = c.sent
  BY <1>2, <1>3 DEF Connections
<1>5. /\ Events(k)' = Items(k)' \cap Nat
      /\ Ahead(k)' = {e \in Events(k)' : e > c.upto}
      /\ Sent(k)' = Sent(k) /\ Due(k)' = Due(k) /\ Lost(k) \subseteq Lost(k)'
  BY <1>1, <1>2, <1>4 DEF Events, Ahead, Sent, Due, Window, Lost
<1>6. /\ disk \in Nat /\ disk' \in Nat /\ disk <= disk' /\ cursor[r] \in Nat /\ cursor'[r] \in Nat
      /\ cursor[r] <= cursor'[r] /\ current \in Nat /\ current' \in Nat /\ current <= current'
      /\ unheard \subseteq unheard' /\ cursor[r] <= disk
  BY <1>1, RunTypes, StreamBoundAssumption DEF GoesOn, Types
<1>7. QueueFits(k)'
  <2>1. Resync \notin Items(k)'
    BY <1>1, <1>2, Sentinels
  <2>2. Done \in Items(k)' => state'[r] = "finished"
    BY <1>1, <1>2, Sentinels
  <2>3. \A e \in Events(k)' : e \in 1..cursor'[r] /\ ~Held(r, e)'
    <3>. SUFFICES ASSUME NEW e \in Nat, e \in Items(k)'
                  PROVE  e \in 1..cursor'[r] /\ ~Held(r, e)'
      BY <1>5
    <3>1. CASE e \in Items(k)
      BY <1>1, <1>6, <3>1
    <3>2. CASE e = x
      BY <1>6, <3>2
    <3>. QED  BY <1>2, <3>1, <3>2
  <2>. QED  BY <1>1, <1>2, <1>3, <1>4, <2>1, <2>2, <2>3 DEF QueueFits
<1>8. StageFits(k)'
  BY <1>1, <1>3, <1>4, <1>6, ClientTypes DEF StageFits
<1>9. SentFits(k)'
  <2>1. \A s \in Sent(k) : s \in Nat
    BY <1>1, ClientTypes DEF Sent, RangeOf
  <2>2. \A s \in Sent(k), e \in Ahead(k)' : s < e
    <3>. SUFFICES ASSUME NEW s \in Sent(k), NEW e \in Nat, e \in Items(k)', e > c.upto
                  PROVE  s < e
      BY <1>5
    <3>1. CASE e \in Items(k)
      <4>1. e \in Ahead(k)
        BY <1>1, <3>1 DEF Ahead
      <4>. QED  BY <1>1, <4>1 DEF SentFits
    <3>2. CASE e = x
      <4>1. CASE s > c.upto
        <5>1. s \in 1..cursor[r] /\ ~Held(r, s)
          BY <1>1, <1>3, <1>6, <2>1, <4>1 DEF SentFits
        <5>. QED  BY <3>2, <5>1
      <4>2. CASE s <= c.upto
        BY <1>3, <2>1, <3>2, <4>2
      <4>. QED  BY <1>3, <2>1, <4>1, <4>2
    <3>. QED  BY <1>2, <3>1, <3>2
  <2>3. \A s \in Sent(k) : s > c.upto => s <= cursor'[r] /\ ~Held(r, s)'
    BY <1>1, <1>3, <1>6, <2>1 DEF SentFits
  <2>. QED  BY <1>1, <1>3, <1>4, <1>5, <2>2, <2>3 DEF SentFits
<1>10. Whole(k)'
  <2>1. ASSUME NEW e, Offered(r, e)', e > c.after
        PROVE  e \in have[k] \cup Lost(k)' \cup Events(k)' \cup Due(k)
    <3>1. CASE e = x
      BY <1>2, <1>5, <2>1, <3>1 DEF Offered
    <3>2. CASE Offered(r, e)
      <4>1. e \in have[k] \cup Lost(k) \cup Items(k) \cup Due(k)
        BY <1>1, <1>3, <2>1, <3>2 DEF Whole
      <4>2. e \in Items(k) => e \in Events(k)' \cup Lost(k)'
        BY <1>1, <1>2, <1>5 DEF Lost
      <4>. QED  BY <1>5, <4>1, <4>2
    <3>. QED  BY <2>1, <3>1, <3>2
  <2>2. c.after + 1 .. c.upto \subseteq have[k] \cup Lost(k)' \cup Due(k)
    BY <1>1, <1>3, <1>5 DEF Whole
  <2>. QED  BY <1>1, <1>3, <1>4, <1>5, <2>1, <2>2 DEF Whole
<1>11. NoGap(k)'
  <2>1. dropped'[k] \subseteq 1..disk'
    BY <1>1, <1>2, <1>6 DEF NoGap
  <2>. QED  BY <1>1, <1>5, <1>6, <2>1 DEF NoGap
<1>. QED  BY <1>7, <1>8, <1>9, <1>10, <1>11 DEF ClientFits

LEMMA FanOutKeeps ==
  ASSUME StreamInv, FanOut
  PROVE  StreamInv'
<1>0. PICK r, x : r = fan.run /\ x = fan.event
  OBVIOUS
<1>1. /\ Types /\ RunsFit /\ FanFits /\ fan.to = "run"
      /\ Publish(r, [k \in Clients |-> Offer(conn[k].queue, x)])
      /\ fan' = [fan EXCEPT !.to = "session"]
      /\ UNCHANGED <<followers, disk, unheard, current, state, base, last, cursor, have,
                     skipped, breaks>>
  BY <1>0 DEF StreamInv, FanOut, runVars
<1>2. /\ r = current /\ r \in Runs /\ state[r] = "live" /\ x = cursor[r]
      /\ x \in Nat /\ x > 0 /\ Front(r) = x /\ Reached = x
  BY <1>0, <1>1, ActiveFan
<1>3. /\ fan \in [run : 0..MaxRuns, event : 0..disk, to : {"nobody", "run", "session"}]
      /\ fan'.run = r /\ fan'.event = x /\ fan'.to = "session"
      /\ fan' \in [run : 0..MaxRuns, event : 0..disk, to : {"nobody", "run", "session"}]
  BY <1>0, <1>1 DEF Types
<1>4. /\ \A e : Held(r, e) <=> e = x
      /\ \A q, e : ~Held(q, e)'
      /\ \A e : HeldBack(e)' <=> HeldBack(e)
  BY <1>0, <1>1, <1>3 DEF Held, HeldBack
<1>5. x \in QueueItems /\ \A e \in 1..cursor[r] : ~Held(r, e) => e < x
  BY <1>2, <1>4 DEF QueueItems
<1>6. /\ conn' \in [Clients -> Connections] /\ dropped' \in [Clients -> SUBSET Nat]
      /\ \A k \in Clients : conn[k].sub # r => conn'[k] = conn[k] /\ dropped'[k] = dropped[k]
  BY <1>1, <1>2, <1>5, PublishedTypes
<1>7. Types'
  BY <1>1, <1>3, <1>6 DEF Types
<1>8. RunsFit'
  BY <1>1 DEF RunFits, RunsFit, Reached, Front
<1>9. FanFits'
  <2>1. r # 0 /\ base[r] < cursor[r]
    BY <1>0, <1>1, <1>2, ActiveFan, RunsAndSession
  <2>. QED  BY <1>1, <1>2, <1>3, <2>1 DEF FanFits
<1>10. GoesOn
  BY <1>1, RunTypes DEF GoesOn, Reached, Front
<1>11. /\ \A q, e : Offered(q, e)' <=> e \in 1..Front(q) /\ e \notin unheard
       /\ \A q \in Runs : q # r => NoOffer(q)
       /\ NoOfferToAll
  <2>1. \A q, e : Offered(q, e)' <=> e \in 1..Front(q) /\ e \notin unheard
    BY <1>1, <1>4 DEF Offered, Front
  <2>2. \A q, e : q # r => ~Held(q, e)
    BY <1>0 DEF Held
  <2>3. \A e : OfferedAll(e)' <=> OfferedAll(e)
    BY <1>1, <1>4 DEF OfferedAll, Reached, Front
  <2>. QED  BY <1>4, <2>1, <2>2, <2>3 DEF NoOffer, NoOfferToAll, Offered
<1>12. ASSUME NEW k \in Clients PROVE ClientFits(k)'
  <2>1. CASE conn[k].sub = r
    <3>1. \A e : Offered(r, e)' => Offered(r, e) \/ e = x
      BY <1>4, <1>11 DEF Offered
    <3>. QED  BY <1>1, <1>2, <1>4, <1>5, <1>7, <1>10, <2>1, <3>1, Sentinels, SubscriberServed
  <2>2. CASE conn[k].sub # r
    BY <1>1, <1>6, <1>7, <1>10, <1>11, <2>2, ClientStays DEF Untouched
  <2>. QED  BY <2>1, <2>2
<1>. QED  BY <1>7, <1>8, <1>9, <1>12 DEF StreamInv

LEMMA FinishKeeps ==
  ASSUME StreamInv, NEW r \in Runs, Finish(r)
  PROVE  StreamInv'
<1>1. /\ Types /\ RunsFit /\ FanFits /\ fan.run # r /\ state[r] \in {"live", "terminal"}
      /\ state' = [state EXCEPT ![r] = "finished"]
      /\ unheard' = unheard \cup IF state[r] = "live" THEN Pending(r) ELSE {}
      /\ Publish(r, [k \in Clients |-> Offer(conn[k].queue, Done)])
      /\ UNCHANGED <<followers, disk, current, base, last, cursor, fan, have, skipped, breaks>>
  BY DEF StreamInv, Finish, OfferDone
<1>2. state[r] # "finished" /\ Done \in QueueItems /\ Done \notin Nat
  BY <1>1, Sentinels DEF QueueItems
<1>3. /\ conn' \in [Clients -> Connections] /\ dropped' \in [Clients -> SUBSET Nat]
      /\ \A k \in Clients : conn[k].sub # r => conn'[k] = conn[k] /\ dropped'[k] = dropped[k]
  <2>1. PICK x : x = Done
    OBVIOUS
  <2>2. Publish(r, [k \in Clients |-> Offer(conn[k].queue, x)])
    BY <1>1, <2>1
  <2>3. x \in QueueItems /\ x \notin Nat
    BY <1>2, <2>1
  <2>4. x \in Nat => \A e \in 1..cursor[r] : ~Held(r, e) => e < x
    BY <2>3
  <2>5. x \in QueueItems /\ state[r] # "finished"
    BY <1>2, <2>3
  <2>6. /\ conn' \in [Clients -> Connections] /\ dropped' \in [Clients -> SUBSET Nat]
        /\ \A k \in Clients :
              IF conn[k].sub = r
              THEN /\ conn'[k] = [conn[k] EXCEPT !.queue = Offer(conn[k].queue, x)]
                   /\ dropped[k] \subseteq dropped'[k]
                   /\ dropped'[k] \subseteq dropped[k] \cup Items(k)
                   /\ Items(k) \subseteq Items(k)' \cup dropped'[k]
                   /\ Items(k)' \subseteq Items(k) \cup {x} /\ x \in Items(k)'
                   /\ Len(conn'[k].queue) <= QueueMax /\ InOrder(conn'[k].queue)
              ELSE conn'[k] = conn[k] /\ dropped'[k] = dropped[k]
    BY <2>2, <2>4, <2>5, PublishedTypes
  <2>. QED  BY <2>6
<1>4. /\ disk \in Nat /\ base[r] \in Nat /\ cursor[r] \in Nat /\ Front(r) \in Nat
      /\ Front(r) = base[r] \/ Front(r) = cursor[r]
      /\ Pending(r) \subseteq 1..disk
  BY <1>1, RunTypes DEF Pending, Front
<1>5. Types'
  BY <1>1, <1>3, <1>4 DEF Types, Ended
<1>6. /\ Reached' = Reached /\ \A q \in Runs : Front(q)' = Front(q)
      /\ \A q \in Runs : q # r => state'[q] = state[q]
      /\ state'[r] = "finished"
  BY <1>1 DEF Reached, Front, Types
<1>7. RunsFit'
  <2>1. \A q \in Runs : RunFits(q)'
    BY <1>1, <1>2, <1>6 DEF RunFits, RunsFit
  <2>2. (current' # 0 => state'[current'] # "live") => Reached' + 1 .. disk' \subseteq unheard'
    <3>1. CASE r = current /\ state[r] = "live"
      <4>1. current # 0 /\ Reached = Front(r)
        BY <3>1, RunsAndSession DEF Reached
      <4>2. \A e \in Front(r) + 1 .. disk : e \in Pending(r) \cup unheard
        BY <1>1, <1>4, RunTypes DEF Pending
      <4>. QED  BY <1>1, <1>6, <3>1, <4>1, <4>2
    <3>2. CASE ~(r = current /\ state[r] = "live")
      <4>1. state'[current] # "live" /\ current # 0 => state[current] # "live"
        BY <1>1, <1>6, <3>2, RunTypes
      <4>. QED  BY <1>1, <1>6, <4>1 DEF RunFits, RunsFit
    <3>. QED  BY <3>1, <3>2
  <2>. QED  BY <2>1, <2>2 DEF RunsFit
<1>8. FanFits'
  BY <1>1, <1>6, ActiveFan DEF FanFits, NoFan
<1>9. GoesOn
  BY <1>1, <1>4, <1>6, RunTypes DEF GoesOn
<1>10. /\ \A q \in Runs : NoOffer(q)
       /\ NoOfferToAll
  BY <1>1, <1>6 DEF NoOffer, NoOfferToAll, Offered, OfferedAll, Held, HeldBack
<1>11. ASSUME NEW k \in Clients PROVE ClientFits(k)'
  <2>1. CASE conn[k].sub = r
    BY <1>1, <1>2, <1>5, <1>6, <1>9, <1>10, <2>1, SubscriberServed DEF NoOffer
  <2>2. CASE conn[k].sub # r
    BY <1>1, <1>3, <1>5, <1>9, <1>10, <2>2, ClientStays DEF Untouched
  <2>. QED  BY <2>1, <2>2
<1>. QED  BY <1>5, <1>7, <1>8, <1>11 DEF StreamInv

(* The queue of a follower is offered an event.                             *)
LEMMA OfferedFollower ==
  ASSUME NEW q \in Seq(QueueItems), Len(q) <= QueueMax, InOrder(q), NEW x \in Nat,
         \A e \in RangeOf(q) \cap Nat : e < x,
         Resync \in RangeOf(q) => q[1] = Resync
  PROVE  /\ OfferFollower(q, x) \in Seq(QueueItems) /\ Len(OfferFollower(q, x)) <= QueueMax
         /\ InOrder(OfferFollower(q, x))
         /\ RangeOf(OfferFollower(q, x)) \subseteq RangeOf(q) \cup {x, Resync}
         /\ Resync \in RangeOf(OfferFollower(q, x)) => OfferFollower(q, x)[1] = Resync
         /\ Resync \notin RangeOf(OfferFollower(q, x)) =>
              Resync \notin RangeOf(q) /\ RangeOf(q) \cup {x} \subseteq RangeOf(OfferFollower(q, x))
<1>. DEFINE p == OfferFollower(q, x)
<1>1. QueueMax \in Nat \ {0} /\ Len(q) \in Nat /\ x # Resync /\ x \in QueueItems
  BY StreamBoundAssumption, Sentinels DEF QueueItems
<1>2. CASE Full(q)
  <2>1. /\ p = <<Resync>> /\ p \in Seq(QueueItems) /\ Len(p) = 1 /\ p[1] = Resync
        /\ DOMAIN p = {1}
    BY <1>2 DEF OfferFollower, QueueItems
  <2>2. RangeOf(p) = {Resync}
    BY <2>1 DEF RangeOf
  <2>3. InOrder(p)
    BY <2>1, Sentinels DEF InOrder
  <2>. QED  BY <1>1, <2>1, <2>2, <2>3
<1>3. CASE ~Full(q)
  <2>1. p = Append(q, x) /\ Len(q) < QueueMax
    BY <1>1, <1>3 DEF OfferFollower, Full
  <2>2. /\ Append(q, x) \in Seq(QueueItems) /\ Len(Append(q, x)) = Len(q) + 1
        /\ RangeOf(Append(q, x)) = RangeOf(q) \cup {x} /\ InOrder(Append(q, x))
        /\ q # <<>> => Append(q, x)[1] = q[1]
    BY <1>1, AppendedItem
  <2>3. Resync \in RangeOf(q) => q # <<>>
    BY DEF RangeOf
  <2>. HIDE DEF p
  <2>. QED  BY <1>1, <2>1, <2>2, <2>3 DEF p
<1>. QED  BY <1>2, <1>3

(* A follower is served with an event.                                      *)
LEMMA FollowerServed ==
  ASSUME StreamInv, Types', GoesOn, NEW x \in Nat, x \in 1..Reached, Reached' = Reached,
         \A e \in 1..Reached : ~HeldBack(e) => e < x,
         \A e : ~HeldBack(e)',
         \A e : OfferedAll(e)' => OfferedAll(e) \/ e = x,
         UNCHANGED <<have, dropped, skipped>>, NEW k \in Clients, conn[k].sub = Session,
         conn'[k] = [conn[k] EXCEPT !.queue = OfferFollower(conn[k].queue, x)]
  PROVE  ClientFits(k)'
<1>. DEFINE c == conn[k]
<1>1. /\ Types /\ QueueFits(k) /\ StageFits(k) /\ SentFits(k) /\ Whole(k) /\ NoGap(k)
      /\ Reached \in Nat
  BY RunTypes DEF StreamInv, ClientFits
<1>2. c \in Connections /\ c.upto \in Nat /\ c.sub = Session
  BY <1>1, ClientTypes
<1>3. k \in followers /\ (k \in followers)' /\ Session \notin Runs /\ Session # 0
  <2>1. current \in 0..MaxRuns /\ MaxRuns \in Nat
    BY <1>1, StreamBoundAssumption DEF Types
  <2>2. Session \notin 0..current
    BY <2>1 DEF Session
  <2>. QED  BY <1>1, <2>2, RunsAndSession DEF StageFits, GoesOn
<1>4. /\ conn'[k].at = c.at /\ conn'[k].sub = Session /\ conn'[k].after = c.after
      /\ conn'[k].snap = c.snap /\ conn'[k].upto = c.upto /\ conn'[k].sent = c.sent
      /\ conn'[k].queue = OfferFollower(c.queue, x)
  BY <1>2 DEF Connections
<1>5. Done \notin Items(k) /\ \A e \in Events(k) : e \in 1..Reached /\ ~HeldBack(e) /\ e < x
  BY <1>1, <1>2, <1>3 DEF QueueFits
<1>6. /\ Len(conn'[k].queue) <= QueueMax /\ InOrder(conn'[k].queue)
      /\ Items(k)' \subseteq Items(k) \cup {x, Resync}
      /\ Resync \in Items(k)' => conn'[k].queue[1] = Resync
      /\ Resync \notin Items(k)' => Resync \notin Items(k) /\ Items(k) \cup {x} \subseteq Items(k)'
  <2>1. /\ c.queue \in Seq(QueueItems) /\ Len(c.queue) <= QueueMax /\ InOrder(c.queue)
        /\ \A e \in RangeOf(c.queue) \cap Nat : e < x
        /\ Resync \in RangeOf(c.queue) => c.queue[1] = Resync
    BY <1>1, <1>5, ClientTypes DEF QueueFits, Items, Events
  <2>2. RangeOf(conn'[k].queue) = Items(k)' /\ RangeOf(c.queue) = Items(k)
    BY DEF Items
  <2>. HIDE DEF c
  <2>. QED  BY <1>4, <2>1, <2>2, OfferedFollower
<1>7. /\ Events(k)' = Items(k)' \cap Nat /\ Events(k) = Items(k) \cap Nat
      /\ Events(k)' \subseteq Events(k) \cup {x}
      /\ Ahead(k)' = {e \in Events(k)' : e > c.upto}
      /\ Ahead(k)' \subseteq Ahead(k) \cup {e \in {x} : e > c.upto}
      /\ Sent(k)' = Sent(k) /\ Due(k)' = Due(k) /\ Lost(k)' = Lost(k)
      /\ Done \notin Items(k)'
  BY <1>3, <1>4, <1>5, <1>6, Sentinels DEF Events, Ahead, Sent, Due, Window, Lost
<1>8. /\ disk \in Nat /\ disk' \in Nat /\ disk <= disk' /\ unheard \subseteq unheard'
  BY <1>1, RunTypes, StreamBoundAssumption DEF GoesOn, Types
<1>9. QueueFits(k)'
  <2>1. \A e \in Events(k)' : e \in 1..Reached' /\ ~HeldBack(e)'
    BY <1>5, <1>7
  <2>. QED  BY <1>3, <1>4, <1>6, <1>7, <2>1 DEF QueueFits
<1>10. StageFits(k)'
  BY <1>1, <1>3, <1>4, <1>8, ClientTypes DEF StageFits
<1>11. ASSUME c.at = "live", NEW h \in have[k]
       PROVE  /\ \A e \in Ahead(k)' : h < e
              /\ h > c.upto => h <= Reached'
  <2>1. h \in Nat /\ h > c.upto => h <= Reached /\ ~HeldBack(h)
    BY <1>1, <1>3, <1>11 DEF SentFits
  <2>2. h \in Nat
    BY <1>1, <1>11, ClientTypes
  <2>3. h > c.upto => h < x
    BY <1>1, <1>2, <2>1, <2>2
  <2>4. \A e \in Ahead(k) : h < e
    BY <1>1, <1>3, <1>11 DEF SentFits
  <2>. QED  BY <1>1, <1>2, <1>7, <2>1, <2>2, <2>3, <2>4
<1>12. SentFits(k)'
  <2>1. Sent(k) \subseteq have[k] /\ (c.at # "live" => Sent(k) = {})
    BY <1>1 DEF SentFits, StageFits, Sent, RangeOf
  <2>2. \A s \in Sent(k), e \in Ahead(k)' : s < e
    BY <1>11, <2>1
  <2>. QED  BY <1>1, <1>3, <1>4, <1>7, <1>11, <2>1, <2>2 DEF SentFits
<1>13. Whole(k)'
  BY <1>1, <1>3, <1>4, <1>6, <1>7, <1>8 DEF Whole
<1>14. NoGap(k)'
  BY <1>1, <1>7, <1>8 DEF NoGap
<1>. QED  BY <1>9, <1>10, <1>12, <1>13, <1>14 DEF ClientFits

LEMMA FanOutSessionKeeps ==
  ASSUME StreamInv, FanOutSession
  PROVE  StreamInv'
<1>0. PICK r, x : r = fan.run /\ x = fan.event
  OBVIOUS
<1>1. /\ Types /\ RunsFit /\ FanFits /\ fan.to = "session" /\ fan' = NoFan
      /\ conn' = [k \in Clients |-> IF conn[k].sub = Session
                    THEN [conn[k] EXCEPT !.queue = OfferFollower(@, x)] ELSE conn[k]]
      /\ state' = IF x = last[r] THEN [state EXCEPT ![r] = "terminal"] ELSE state
      /\ UNCHANGED <<followers, disk, unheard, current, base, last, cursor, have, dropped,
                     skipped, breaks>>
  BY <1>0 DEF StreamInv, FanOutSession
<1>2. /\ r = current /\ r \in Runs /\ state[r] = "live" /\ x = cursor[r]
      /\ x \in Nat /\ x > 0 /\ Front(r) = x /\ Reached = x /\ disk \in Nat
  BY <1>0, <1>1, ActiveFan, RunTypes
<1>3. /\ \A e : HeldBack(e) <=> e = x
      /\ \A q, e : ~Held(q, e) /\ ~Held(q, e)' /\ ~HeldBack(e)'
  BY <1>0, <1>1 DEF Held, HeldBack, NoFan
<1>4. /\ Reached' = Reached /\ \A q : Front(q)' = Front(q)
      /\ \A q \in Runs : q # r => state'[q] = state[q]
      /\ state'[r] \in {"live", "terminal"} /\ (state'[r] = "terminal" => x = last[r])
      /\ state' \in [Runs -> {"none", "live"} \cup Ended]
  BY <1>1, <1>2 DEF Reached, Front, Types, Ended
<1>5. ASSUME NEW k \in Clients PROVE conn'[k] \in Connections
  <2>1. CASE conn[k].sub = Session
    <3>1. /\ conn[k].queue \in Seq(QueueItems) /\ Len(conn[k].queue) <= QueueMax
          /\ InOrder(conn[k].queue)
      BY <1>1, ClientTypes DEF StreamInv, ClientFits, QueueFits
    <3>2. /\ \A e \in RangeOf(conn[k].queue) \cap Nat : e < x
          /\ Resync \in RangeOf(conn[k].queue) => conn[k].queue[1] = Resync
      BY <1>2, <1>3, <2>1 DEF StreamInv, ClientFits, QueueFits, Items, Events
    <3>3. OfferFollower(conn[k].queue, x) \in Seq(QueueItems)
      BY <1>2, <3>1, <3>2, OfferedFollower
    <3>4. conn[k] \in Connections
      BY <1>1, ClientTypes
    <3>. QED  BY <1>1, <2>1, <3>3, <3>4 DEF Connections, QueueItems
  <2>2. CASE conn[k].sub # Session
    BY <1>1, <2>2, ClientTypes
  <2>. QED  BY <2>1, <2>2
<1>6. Types'
  <2>1. conn' \in [Clients -> Connections]
    BY <1>1, <1>5
  <2>2. fan' \in [run : 0..MaxRuns, event : 0..disk, to : {"nobody", "run", "session"}]
    BY <1>1, <1>2, StreamBoundAssumption DEF NoFan
  <2>. QED  BY <1>1, <1>4, <2>1, <2>2 DEF Types
<1>7. RunsFit'
  <2>1. \A q \in Runs : RunFits(q)'
    BY <1>1, <1>2, <1>4 DEF RunFits, RunsFit
  <2>2. (current' # 0 => state'[current'] # "live") => Reached' + 1 .. disk' \subseteq unheard'
    <3>1. ASSUME state'[r] = "terminal" PROVE Reached = disk
      BY <1>1, <1>2, <1>4, <3>1 DEF RunFits, RunsFit
    <3>. QED  BY <1>1, <1>2, <1>4, <3>1, RunsAndSession
  <2>. QED  BY <2>1, <2>2 DEF RunsFit
<1>8. FanFits'
  BY <1>1 DEF FanFits, NoFan
<1>9. GoesOn
  BY <1>1, <1>2, <1>4, RunTypes DEF GoesOn
<1>10. \A q \in Runs : NoOffer(q)
  BY <1>1, <1>3, <1>4 DEF NoOffer, Offered
<1>11. ASSUME NEW k \in Clients PROVE ClientFits(k)'
  <2>1. CASE conn[k].sub = Session
    <3>1. \A e : OfferedAll(e)' => OfferedAll(e) \/ e = x
      BY <1>1, <1>3, <1>4 DEF OfferedAll
    <3>2. conn'[k] = [conn[k] EXCEPT !.queue = OfferFollower(conn[k].queue, x)]
      BY <1>1, <2>1
    <3>3. x \in 1..Reached /\ \A e \in 1..Reached : ~HeldBack(e) => e < x
      BY <1>2, <1>3
    <3>. QED  BY <1>1, <1>2, <1>3, <1>4, <1>6, <1>9, <2>1, <3>1, <3>2, <3>3, FollowerServed
  <2>2. CASE conn[k].sub # Session
    <3>1. Untouched(k)
      BY <1>1, <2>2 DEF Untouched
    <3>. QED  BY <1>6, <1>9, <1>10, <2>2, <3>1, ClientStays
  <2>. QED  BY <2>1, <2>2
<1>. QED  BY <1>6, <1>7, <1>8, <1>11 DEF StreamInv

-----------------------------------------------------------------------------
(* The steps of the clients                                                 *)

RunStays == UNCHANGED <<runVars, fan>>

LEMMA OthersStay ==
  ASSUME StreamInv, Types', RunStays, NEW k \in Clients, Untouched(k)
  PROVE  ClientFits(k)'
<1>1. UNCHANGED <<followers, disk, unheard, current, state, base, last, cursor, fan>>
  BY DEF RunStays, runVars
<1>2. Reached' = Reached /\ \A q : Front(q)' = Front(q)
  BY <1>1 DEF Reached, Front
<1>3. GoesOn
  BY <1>1, <1>2, RunTypes DEF GoesOn, StreamInv
<1>4. (\A q \in Runs : NoOffer(q)) /\ NoOfferToAll
  BY <1>1, <1>2 DEF NoOffer, NoOfferToAll, Offered, OfferedAll, Held, HeldBack
<1>. QED  BY <1>3, <1>4, ClientStays

(* One client does a step.                                                  *)
LEMMA ClientSteps ==
  ASSUME StreamInv, RunStays, NEW k \in Clients, NEW c \in Connections, NEW h \in SUBSET Nat,
         NEW s \in SUBSET Nat,
         conn' = [conn EXCEPT ![k] = c], have' = [have EXCEPT ![k] = h],
         skipped' = [skipped EXCEPT ![k] = s], dropped' = dropped, breaks' \in 0..MaxBreaks,
         (conn'[k] = c /\ have'[k] = h /\ skipped'[k] = s /\ Types') => ClientFits(k)'
  PROVE  StreamInv'
<1>1. /\ Types /\ RunsFit /\ FanFits
      /\ UNCHANGED <<followers, disk, unheard, current, state, base, last, cursor, fan>>
  BY DEF StreamInv, RunStays, runVars
<1>2. Types' /\ conn'[k] = c /\ have'[k] = h /\ skipped'[k] = s
  <2>1. conn' \in [Clients -> Connections]
    BY <1>1 DEF Types
  <2>2. have' \in [Clients -> SUBSET Nat] /\ skipped' \in [Clients -> SUBSET Nat]
    BY <1>1 DEF Types
  <2>. QED  BY <1>1, <2>1, <2>2 DEF Types
<1>3. RunsFit' /\ FanFits'
  BY <1>1 DEF RunFits, RunsFit, FanFits, Reached, Front
<1>4. ASSUME NEW w \in Clients PROVE ClientFits(w)'
  <2>1. CASE w = k
    BY <1>2, <2>1
  <2>2. CASE w # k
    <3>1. Untouched(w)
      BY <1>1, <2>2 DEF Untouched, Types
    <3>. QED  BY <1>2, <3>1, OthersStay
  <2>. QED  BY <2>1, <2>2
<1>. QED  BY <1>2, <1>3, <1>4 DEF StreamInv

Gone == {Away, [Away EXCEPT !.at = "rebuilding"]}

LEMMA GoneTypes == Gone \subseteq Connections
<1>1. <<>> \in Seq(Nat) /\ <<>> \in Seq(Nat \cup {Done, Resync}) /\ 0 \in 0..Session
  BY RunsAndSession
<1>2. \A stage \in Stages : [at |-> stage, sub |-> 0, queue |-> <<>>, after |-> 0, snap |-> 0,
                             upto |-> 0, sent |-> <<>>] \in Connections
  BY <1>1 DEF Connections
<1>3. [Away EXCEPT !.at = "rebuilding"] =
        [at |-> "rebuilding", sub |-> 0, queue |-> <<>>, after |-> 0, snap |-> 0,
         upto |-> 0, sent |-> <<>>]
  BY DEF Away
<1>. QED  BY <1>2, <1>3 DEF Gone, Away, Stages

LEMMA GoneFits ==
  ASSUME Types', NEW k \in Clients, conn'[k] \in Gone, NoGap(k)'
  PROVE  ClientFits(k)'
<1>1. /\ conn'[k].at \in {"away", "rebuilding"} /\ conn'[k].sub = 0
      /\ conn'[k].after = 0 /\ conn'[k].snap = 0 /\ conn'[k].upto = 0
      /\ conn'[k].queue = <<>> /\ conn'[k].sent = <<>>
  BY DEF Gone, Away
<1>2. /\ Items(k)' = {} /\ Sent(k)' = {} /\ Events(k)' = {} /\ Ahead(k)' = {}
  BY <1>1 DEF Items, Sent, Events, Ahead, RangeOf
<1>3. disk' \in Nat /\ current' \in Nat /\ QueueMax \in Nat
  BY StreamBoundAssumption DEF Types
<1>4. QueueFits(k)'
  BY <1>1, <1>2, <1>3, RunsAndSession DEF QueueFits, InOrder
<1>5. StageFits(k)'
  BY <1>1, <1>3 DEF StageFits
<1>6. SentFits(k)'
  BY <1>1, <1>2 DEF SentFits, InOrder
<1>7. Whole(k)'
  BY <1>1, RunsAndSession DEF Whole
<1>. QED  BY <1>4, <1>5, <1>6, <1>7 DEF ClientFits

LEMMA LargestOf ==
  ASSUME NEW n \in Nat, NEW S \in SUBSET (0..n), S # {}
  PROVE  Max(S) \in S /\ \A e \in S : e <= Max(S)
<1>. DEFINE U == {u \in Nat : \A e \in S : e <= u}
<1>1. n \in U
  OBVIOUS
<1>2. PICK m \in U : \A u \in U : m <= u
  BY <1>1, LeastNumber
<1>3. m \in S
  <2>. SUFFICES ASSUME m \notin S PROVE FALSE
    OBVIOUS
  <2>0. PICK e : e \in S
    OBVIOUS
  <2>1. e \in Nat /\ m \in Nat /\ e < m
    <3>1. e \in Nat /\ m \in Nat /\ e <= m /\ e # m
      BY <1>2, <2>0
    <3>. QED  BY <3>1
  <2>2. m - 1 \in U
    BY <1>2, <2>1
  <2>. QED  BY <1>2, <2>2
<1>4. \E x \in S : \A y \in S : x >= y
  BY <1>2, <1>3
<1>5. Max(S) \in S /\ \A y \in S : Max(S) >= y
  BY <1>4 DEF Max
<1>. QED  BY <1>5

LEMMA NewestIsShown ==
  ASSUME Types, NEW k \in Clients, have[k] \subseteq 1..disk
  PROVE  /\ Newest(k) \in 0..disk /\ \A h \in have[k] : h <= Newest(k)
         /\ Newest(k) # 0 => Newest(k) \in have[k]
<1>1. disk \in Nat
  BY RunTypes
<1>2. have[k] \cup {0} \in SUBSET (0..disk)
  BY <1>1
<1>. QED  BY <1>1, <1>2, LargestOf DEF Newest

LEMMA RequestKeeps ==
  ASSUME StreamInv, NEW k \in Clients, Request(k)
  PROVE  StreamInv'
<1>. DEFINE c == [conn[k] EXCEPT !.at = "reading", !.after = Newest(k),
                                 !.sub = IF k \in followers THEN Session ELSE 0]
<1>1. /\ Types /\ QueueFits(k) /\ StageFits(k) /\ SentFits(k) /\ Whole(k) /\ NoGap(k)
  BY DEF StreamInv, ClientFits
<1>2. /\ conn[k].at = "away" /\ conn' = [conn EXCEPT ![k] = c]
      /\ RunStays /\ UNCHANGED <<have, dropped, skipped, breaks>>
  BY DEF Request, RunStays
<1>3. /\ conn[k] \in Connections /\ conn[k].sub = 0 /\ conn[k].queue = <<>>
      /\ conn[k].sent = <<>> /\ conn[k].snap = 0 /\ conn[k].upto = 0
  BY <1>1, <1>2, ClientTypes DEF StageFits, QueueFits
<1>4. /\ Newest(k) \in 0..disk /\ disk \in Nat /\ \A h \in have[k] : h <= Newest(k)
      /\ Newest(k) # 0 => Newest(k) \in have[k]
  BY <1>1, NewestIsShown, RunTypes DEF NoGap
<1>5. /\ c.at = "reading" /\ c.sub = (IF k \in followers THEN Session ELSE 0)
      /\ c.queue = <<>> /\ c.after = Newest(k) /\ c.snap = 0 /\ c.upto = 0 /\ c.sent = <<>>
      /\ c \in Connections
  <2>1. PICK sub \in 0..Session : sub = IF k \in followers THEN Session ELSE 0
    BY RunsAndSession
  <2>2. PICK after \in Nat : after = Newest(k)
    BY <1>4
  <2>3. c = [conn[k] EXCEPT !.at = "reading", !.after = after, !.sub = sub]
    BY <2>1, <2>2
  <2>4. "reading" \in Stages
    BY DEF Stages
  <2>5. /\ c.at = "reading" /\ c.sub = sub /\ c.queue = <<>> /\ c.after = after
        /\ c.snap = 0 /\ c.upto = 0 /\ c.sent = <<>> /\ c \in Connections
    BY <1>3, <2>3, <2>4 DEF Connections
  <2>. QED  BY <2>1, <2>2, <2>5
<1>. HIDE DEF c
<1>6. ASSUME conn'[k] = c, Types' PROVE ClientFits(k)'
  <2>1. have'[k] = have[k] /\ (k \in followers)' <=> k \in followers
    BY <1>2 DEF RunStays, runVars
  <2>2. /\ disk' = disk /\ current' = current /\ current \in Nat
        /\ have'[k] = have[k] /\ followers' = followers
        /\ NoGap(k)'
    BY <1>1, <1>2, RunTypes DEF RunStays, runVars, NoGap, Lost
  <2>3. /\ Items(k)' = {} /\ Sent(k)' = {} /\ Events(k)' = {} /\ Ahead(k)' = {}
    BY <1>5, <1>6 DEF Items, Sent, Events, Ahead, RangeOf
  <2>4. QueueFits(k)'
    BY <1>5, <1>6, <2>3, StreamBoundAssumption DEF QueueFits, InOrder
  <2>5. StageFits(k)'
    BY <1>4, <1>5, <1>6, <2>2, RunsAndSession DEF StageFits
  <2>6. SentFits(k)'
    BY <1>5, <1>6, <2>3 DEF SentFits, InOrder
  <2>7. Whole(k)'
    BY <1>5, <1>6, RunsAndSession DEF Whole
  <2>. QED  BY <2>2, <2>4, <2>5, <2>6, <2>7 DEF ClientFits
<1>7. /\ have' = [have EXCEPT ![k] = have[k]] /\ skipped' = [skipped EXCEPT ![k] = skipped[k]]
      /\ have[k] \in SUBSET Nat /\ skipped[k] \in SUBSET Nat
      /\ dropped' = dropped /\ breaks' \in 0..MaxBreaks
  BY <1>1, <1>2 DEF Types
<1>. QED  BY <1>2, <1>5, <1>6, <1>7, ClientSteps

LEMMA ReadKeeps ==
  ASSUME StreamInv, NEW k \in Clients, Read(k)
  PROVE  StreamInv'
<1>. DEFINE c == [conn[k] EXCEPT !.at = "read", !.snap = disk]
<1>1. /\ Types /\ QueueFits(k) /\ StageFits(k) /\ SentFits(k) /\ Whole(k) /\ NoGap(k)
      /\ disk \in Nat /\ Reached \in Nat /\ current \in Nat /\ Reached <= disk
  BY RunTypes DEF StreamInv, ClientFits, Reached
<1>2. /\ conn[k].at = "reading" /\ conn' = [conn EXCEPT ![k] = c]
      /\ RunStays /\ UNCHANGED <<have, dropped, skipped, breaks>>
  BY DEF Read, RunStays
<1>3. /\ conn[k] \in Connections /\ conn[k].after <= disk
      /\ conn[k].sub = IF k \in followers THEN Session ELSE 0
  BY <1>1, <1>2, ClientTypes DEF StageFits
<1>4. /\ c.at = "read" /\ c.sub = conn[k].sub /\ c.queue = conn[k].queue
      /\ c.after = conn[k].after /\ c.snap = disk /\ c.upto = conn[k].upto
      /\ c.sent = conn[k].sent /\ c \in Connections
  BY <1>1, <1>3 DEF Connections, Stages
<1>. HIDE DEF c
<1>5. ASSUME conn'[k] = c, Types' PROVE ClientFits(k)'
  <2>1. /\ UNCHANGED <<followers, disk, unheard, current, state, base, cursor, fan, have,
                       dropped, skipped>>
        /\ Reached' = Reached
    BY <1>2 DEF RunStays, runVars, Reached, Front
  <2>2. /\ Items(k)' = Items(k) /\ Sent(k)' = Sent(k) /\ Events(k)' = Events(k)
        /\ Ahead(k)' = Ahead(k) /\ Lost(k)' = Lost(k)
    BY <1>4, <1>5, <2>1 DEF Items, Sent, Events, Ahead, Lost
  <2>3. NoGap(k)'
    BY <1>1, <2>1, <2>2 DEF NoGap
  <2>4. QueueFits(k)'
    BY <1>1, <1>4, <1>5, <2>1, <2>2 DEF QueueFits, Held, HeldBack
  <2>5. StageFits(k)'
    BY <1>1, <1>2, <1>3, <1>4, <1>5, <2>1 DEF StageFits
  <2>6. SentFits(k)'
    BY <1>1, <1>2, <1>4, <1>5, <2>1, <2>2 DEF SentFits, Held, HeldBack
  <2>7. Whole(k)'
    BY <1>1, <1>3, <1>4, <1>5, <2>1, <2>2, RunsAndSession DEF Whole, OfferedAll
  <2>. QED  BY <2>3, <2>4, <2>5, <2>6, <2>7 DEF ClientFits
<1>6. /\ have' = [have EXCEPT ![k] = have[k]] /\ skipped' = [skipped EXCEPT ![k] = skipped[k]]
      /\ have[k] \in SUBSET Nat /\ skipped[k] \in SUBSET Nat
      /\ dropped' = dropped /\ breaks' \in 0..MaxBreaks
  BY <1>1, <1>2 DEF Types
<1>. QED  BY <1>2, <1>4, <1>5, <1>6, ClientSteps

(* What a step that ends the connection of k leaves behind.                 *)
LEMMA GoneKeeps ==
  ASSUME StreamInv, RunStays, NEW k \in Clients, NEW c \in Gone, NEW h \in SUBSET Nat,
         conn' = [conn EXCEPT ![k] = c], have' = [have EXCEPT ![k] = h],
         h \subseteq 1..disk, \A e \in h : 1..e \subseteq h \cup unheard \cup Lost(k),
         UNCHANGED <<dropped, skipped>>, breaks' \in 0..MaxBreaks
  PROVE  StreamInv'
<1>1. /\ Types /\ NoGap(k)
      /\ UNCHANGED <<followers, disk, unheard, current, state, base, cursor, fan>>
  BY DEF StreamInv, ClientFits, RunStays, runVars
<1>2. ASSUME conn'[k] = c, have'[k] = h, Types' PROVE ClientFits(k)'
  <2>1. NoGap(k)'
    BY <1>1, <1>2 DEF NoGap, Lost
  <2>. QED  BY <1>2, <2>1, GoneFits
<1>3. /\ c \in Connections /\ skipped' = [skipped EXCEPT ![k] = skipped[k]]
      /\ skipped[k] \in SUBSET Nat
  BY <1>1, GoneTypes DEF Types
<1>. QED  BY <1>2, <1>3, ClientSteps

LEMMA BreakKeeps ==
  ASSUME StreamInv, NEW k \in Clients, Break(k)
  PROVE  StreamInv'
<1>1. /\ Types /\ NoGap(k) /\ RunStays /\ UNCHANGED <<have, dropped, skipped>>
      /\ conn' = [conn EXCEPT ![k] = Away] /\ breaks < MaxBreaks /\ breaks' = breaks + 1
  BY DEF Break, RunStays, StreamInv, ClientFits
<1>2. /\ have' = [have EXCEPT ![k] = have[k]] /\ have[k] \in SUBSET Nat
      /\ Away \in Gone /\ breaks' \in 0..MaxBreaks
      /\ have[k] \subseteq 1..disk
      /\ \A e \in have[k] : 1..e \subseteq have[k] \cup unheard \cup Lost(k)
  BY <1>1, StreamBoundAssumption DEF Types, Gone, NoGap
<1>. QED  BY <1>1, <1>2, GoneKeeps

LEMMA RebuildKeeps ==
  ASSUME StreamInv, NEW k \in Clients, Rebuild(k)
  PROVE  StreamInv'
<1>1. /\ Types /\ RunStays /\ UNCHANGED <<dropped, skipped, breaks>>
      /\ conn' = [conn EXCEPT ![k] = Away] /\ have' = [have EXCEPT ![k] = 1..disk]
  BY DEF Rebuild, RunStays, StreamInv
<1>2. /\ 1..disk \in SUBSET Nat /\ Away \in Gone /\ breaks' \in 0..MaxBreaks
      /\ \A e \in 1..disk : 1..e \subseteq 1..disk \cup unheard \cup Lost(k)
  BY <1>1, RunTypes DEF Types, Gone
<1>. QED  BY <1>1, <1>2, GoneKeeps

LEMMA OpenKeeps ==
  ASSUME StreamInv, NEW k \in Clients, Open(k)
  PROVE  StreamInv'
<1>0. PICK r, upto, past, missed, c, truncated :
        /\ r = IF k \in Reconnecting /\ InFlight # {} THEN current ELSE 0
        /\ upto = IF k \in followers THEN conn[k].snap
                  ELSE IF r # 0 THEN cursor[r] ELSE conn[k].snap
        /\ past = IF r = 0 THEN {} ELSE conn[k].after + 1 .. Max({base[r], cursor[r]})
        /\ missed = {e \in past : e > conn[k].snap \/ e > upto}
        /\ c = [conn[k] EXCEPT !.at = "replaying", !.upto = upto,
                               !.sub = IF k \in followers THEN @ ELSE r]
        /\ truncated = (conn[k].snap - conn[k].after > ReplayMax)
  OBVIOUS
<1>1. /\ Types /\ QueueFits(k) /\ StageFits(k) /\ SentFits(k) /\ Whole(k) /\ NoGap(k)
      /\ disk \in Nat /\ Reached \in Nat /\ current \in Nat
      /\ UNCHANGED <<followers, disk, unheard, current, state, base, cursor, fan>>
  BY RunTypes DEF StreamInv, ClientFits, Open, runVars
<1>2. /\ conn[k].at = "read" /\ RunStays /\ UNCHANGED <<have, dropped, breaks>>
      /\ conn' = [conn EXCEPT ![k] = IF truncated THEN [Away EXCEPT !.at = "rebuilding"] ELSE c]
      /\ skipped' = [skipped EXCEPT ![k] = skipped[k] \cup IF truncated THEN {} ELSE missed]
  BY <1>0 DEF Open, RunStays, FollowUpto
<1>3. /\ have' = [have EXCEPT ![k] = have[k]] /\ have[k] \in SUBSET Nat
      /\ breaks' \in 0..MaxBreaks /\ skipped[k] \in SUBSET Nat
  BY <1>1, <1>2 DEF Types
<1>4. CASE truncated
  <2>1. /\ conn' = [conn EXCEPT ![k] = [Away EXCEPT !.at = "rebuilding"]]
        /\ [Away EXCEPT !.at = "rebuilding"] \in Gone
        /\ skipped' = skipped
    BY <1>1, <1>2, <1>4 DEF Gone, Types
  <2>. QED  BY <1>1, <1>2, <1>3, <2>1, GoneKeeps DEF NoGap
<1>5. CASE ~truncated
  <2>1. /\ conn' = [conn EXCEPT ![k] = c]
        /\ skipped' = [skipped EXCEPT ![k] = skipped[k] \cup missed]
    BY <1>2, <1>5
  <2>2. /\ conn[k] \in Connections /\ conn[k].snap \in Nat /\ conn[k].after \in Nat
        /\ conn[k].after <= conn[k].snap /\ conn[k].snap <= disk
        /\ conn[k].sub = IF k \in followers THEN Session ELSE 0
        /\ k \notin followers => conn[k].queue = <<>>
        /\ conn[k].sent = <<>>
    BY <1>1, <1>2, ClientTypes DEF StageFits, QueueFits
  <2>3. ASSUME r # 0
        PROVE  /\ r \in Runs /\ k \notin followers /\ r \in 0..current
               /\ cursor[r] \in Nat /\ cursor[r] <= disk /\ Front(r) \in Nat /\ Front(r) <= disk
               /\ cursor[r] <= Front(r)
               /\ past = conn[k].after + 1 .. Front(r)
    <3>1. r = current /\ r \in Runs /\ k \notin followers
      BY <1>0, <1>1, <2>3, RunTypes DEF Reconnecting
    <3>2. /\ base[r] \in Nat /\ cursor[r] \in Nat /\ base[r] <= disk /\ cursor[r] <= disk
          /\ Front(r) \in Nat /\ Front(r) <= disk /\ base[r] <= Front(r) /\ cursor[r] <= Front(r)
          /\ Front(r) \in {base[r], cursor[r]}
      BY <1>1, <3>1, RunTypes DEF Front
    <3>3. /\ Max({base[r], cursor[r]}) \in {base[r], cursor[r]}
          /\ base[r] <= Max({base[r], cursor[r]}) /\ cursor[r] <= Max({base[r], cursor[r]})
      <4>1. {base[r], cursor[r]} \in SUBSET (0..disk)
        BY <1>1, <3>2
      <4>. QED  BY <1>1, <4>1, LargestOf
    <3>4. Max({base[r], cursor[r]}) = Front(r)
      BY <3>2, <3>3
    <3>. QED  BY <1>0, <1>1, <2>3, <3>1, <3>2, <3>4
  <2>4. /\ upto \in Nat /\ upto <= disk
        /\ r = 0 => upto = conn[k].snap /\ missed = {}
        /\ r # 0 => upto = cursor[r]
    BY <1>0, <2>2, <2>3
  <2>5. /\ missed \subseteq 1..disk /\ (k \in followers => missed = {})
        /\ \A e \in past : e \in missed \/ (e <= conn[k].snap /\ e <= upto)
    <3>1. past \subseteq 1..disk /\ (k \in followers => past = {})
      <4>1. CASE r = 0
        BY <1>0, <4>1
      <4>2. CASE r # 0
        BY <1>1, <2>2, <2>3, <4>2
      <4>. QED  BY <4>1, <4>2
    <3>2. \A e \in past : e \in Nat
      BY <1>1, <3>1
    <3>. QED  BY <1>0, <2>2, <2>4, <3>1, <3>2
  <2>6. /\ c.sub = (IF k \in followers THEN Session ELSE r) /\ c.sub \in 0..Session
        /\ c.at = "replaying" /\ c.queue = conn[k].queue
        /\ c.after = conn[k].after /\ c.snap = conn[k].snap /\ c.upto = upto
        /\ c.sent = <<>> /\ c \in Connections
    <3>1. PICK sub : sub = IF k \in followers THEN Session ELSE r
      OBVIOUS
    <3>2. sub \in 0..Session
      BY <2>3, <3>1, RunsAndSession
    <3>3. c = [conn[k] EXCEPT !.at = "replaying", !.upto = upto, !.sub = sub]
      BY <1>0, <2>2, <3>1
    <3>. QED  BY <2>2, <2>4, <3>1, <3>2, <3>3 DEF Connections, Stages
  <2>7. ASSUME conn'[k] = c, skipped'[k] = skipped[k] \cup missed, Types' PROVE ClientFits(k)'
    <3>1. /\ Items(k)' = Items(k) /\ Sent(k)' = {} /\ Events(k)' = Events(k)
          /\ Lost(k)' = Lost(k) \cup missed
          /\ have'[k] = have[k] /\ dropped'[k] = dropped[k] /\ Ahead(k)' \subseteq Events(k)
      <4>1. have'[k] = have[k] /\ dropped'[k] = dropped[k] /\ followers' = followers
        BY <1>1, <1>2
      <4>2. Items(k)' = Items(k) /\ Sent(k)' = {} /\ Events(k)' = Events(k)
        BY <2>6, <2>7 DEF Items, Sent, Events, RangeOf
      <4>3. Lost(k)' = Lost(k) \cup missed
        BY <2>5, <2>7, <4>1 DEF Lost
      <4>. QED  BY <4>1, <4>2, <4>3 DEF Ahead
    <3>2. NoGap(k)'
      BY <1>1, <2>5, <2>7, <3>1 DEF NoGap
    <3>3. QueueFits(k)'
      <4>1. CASE k \in followers
        <5>1. c.sub = conn[k].sub
          BY <2>2, <2>6, <4>1
        <5>. QED  BY <1>1, <2>6, <2>7, <3>1, <4>1, <5>1
              DEF QueueFits, Held, HeldBack, Reached, Front
      <4>2. CASE k \notin followers
        <5>1. /\ Items(k)' = {} /\ Events(k)' = {} /\ conn'[k].queue = <<>>
              /\ Len(<<>>) = 0 /\ QueueMax \in Nat
          BY <2>2, <2>6, <2>7, <4>2, StreamBoundAssumption DEF Items, Events, RangeOf
        <5>. QED  BY <5>1 DEF QueueFits, InOrder
      <4>. QED  BY <4>1, <4>2
    <3>4. StageFits(k)'
      <4>1. k \notin followers => c.sub \in 0..current
        BY <1>1, <2>3, <2>6
      <4>2. IF c.sub \in Runs THEN c.upto <= cursor[c.sub] ELSE c.upto = c.snap
        <5>1. CASE r = 0
          BY <2>4, <2>6, <5>1, RunsAndSession
        <5>2. CASE r # 0
          BY <2>3, <2>4, <2>6, <5>2
        <5>. QED  BY <5>1, <5>2
      <4>3. \A h \in have[k] : h <= c.after
        BY <1>1, <1>2, <2>6 DEF StageFits
      <4>4. c.after # 0 => c.after \in have[k]
        BY <1>1, <2>6 DEF StageFits
      <4>. QED  BY <1>1, <2>2, <2>4, <2>6, <2>7, <3>1, <4>1, <4>2, <4>3, <4>4 DEF StageFits
    <3>5. SentFits(k)'
      BY <2>6, <2>7, <3>1 DEF SentFits, InOrder
    <3>6. Whole(k)'
      <4>1. k \in followers /\ Resync \notin Items(k) =>
              \A e : OfferedAll(e)' /\ e > c.snap => e \in have[k] \cup Events(k)
        BY <1>1, <1>2, <2>6 DEF Whole, OfferedAll, HeldBack, Reached, Front
      <4>2. ASSUME c.sub \in Runs
            PROVE  /\ \A e : Offered(c.sub, e)' /\ e > c.after => e \in Lost(k)' \cup Due(k)'
                   /\ c.after + 1 .. c.upto \subseteq Lost(k)' \cup Due(k)'
        <5>1. /\ c.sub = r /\ r # 0 /\ upto = cursor[r]
          BY <2>4, <2>6, <4>2, RunsAndSession
        <5>2. Due(k)' = conn[k].after + 1 .. Min({upto, conn[k].snap})
          BY <2>6, <2>7 DEF Due, Window
        <5>3. Min({upto, conn[k].snap}) \in {upto, conn[k].snap}
          BY <2>2, <2>4 DEF Min
        <5>4. ASSUME NEW e \in conn[k].after + 1 .. Front(r) PROVE e \in Lost(k)' \cup Due(k)'
          <6>1. e \in past
            BY <2>3, <5>1
          <6>2. CASE e \in missed
            BY <3>1, <6>2
          <6>3. CASE e <= conn[k].snap /\ e <= upto
            BY <2>2, <2>3, <2>4, <5>1, <5>2, <5>3, <6>3
          <6>. QED  BY <2>5, <6>1, <6>2, <6>3
        <5>5. \A e : Offered(r, e)' => e \in 1..Front(r)
          BY <1>1 DEF Offered, Front
        <5>. QED  BY <2>2, <2>3, <2>6, <5>1, <5>4, <5>5
      <4>. QED  BY <1>1, <2>6, <2>7, <3>1, <4>1, <4>2 DEF Whole
    <3>. QED  BY <3>2, <3>3, <3>4, <3>5, <3>6 DEF ClientFits
  <2>8. PICK s \in SUBSET Nat : s = skipped[k] \cup missed
    <3>1. 1..disk \subseteq Nat
      BY <1>1
    <3>2. skipped[k] \cup missed \in SUBSET Nat
      BY <1>3, <2>5, <3>1
    <3>. QED  BY <3>2
  <2>9. /\ RunStays /\ c \in Connections /\ conn' = [conn EXCEPT ![k] = c]
        /\ have' = [have EXCEPT ![k] = have[k]] /\ have[k] \in SUBSET Nat
        /\ skipped' = [skipped EXCEPT ![k] = s] /\ dropped' = dropped /\ breaks' \in 0..MaxBreaks
        /\ (conn'[k] = c /\ have'[k] = have[k] /\ skipped'[k] = s /\ Types') => ClientFits(k)'
    BY <1>2, <1>3, <2>1, <2>6, <2>7, <2>8
  <2>. QED  BY <2>9, ClientSteps
<1>. QED  BY <1>4, <1>5

(* The frames of a replay: a stretch of numbers in order.                   *)
LEMMA Stretch ==
  ASSUME NEW a \in Nat, NEW b \in Nat, NEW s,
         s = [i \in 1..Cardinality(a + 1 .. b) |-> a + i]
  PROVE  s \in Seq(Nat) /\ RangeOf(s) = a + 1 .. b /\ InOrder(s)
<1>. DEFINE n == IF a + 1 > b THEN 0 ELSE b - a
<1>1. n \in Nat /\ Cardinality(a + 1 .. b) = n
  <2>1. Cardinality(a + 1 .. b) = IF a + 1 > b THEN 0 ELSE b - (a + 1) + 1
    BY FS_Interval
  <2>. QED  BY <2>1
<1>2. s = [i \in 1..n |-> a + i] /\ DOMAIN s = 1..n /\ \A i \in 1..n : s[i] = a + i
  BY <1>1
<1>3. s \in Seq(Nat)
  BY <1>1, <1>2
<1>4. RangeOf(s) = a + 1 .. b
  <2>1. \A i \in 1..n : a + i \in a + 1 .. b
    OBVIOUS
  <2>2. \A e \in a + 1 .. b : e - a \in 1..n /\ a + (e - a) = e
    OBVIOUS
  <2>3. \A e \in a + 1 .. b : e \in RangeOf(s)
    <3>. SUFFICES ASSUME NEW e \in a + 1 .. b PROVE \E i \in DOMAIN s : s[i] = e
      BY DEF RangeOf
    <3>. QED  BY <1>2, <2>2
  <2>4. \A e \in RangeOf(s) : e \in a + 1 .. b
    BY <1>2, <2>1 DEF RangeOf
  <2>. QED  BY <2>3, <2>4
<1>5. InOrder(s)
  BY <1>1, <1>2 DEF InOrder
<1>. QED  BY <1>3, <1>4, <1>5

LEMMA LesserOf ==
  ASSUME NEW a \in Nat, NEW b \in Nat
  PROVE  Min({a, b}) \in {a, b} /\ Min({a, b}) <= a /\ Min({a, b}) <= b
<1>1. \E x \in {a, b} : \A y \in {a, b} : x <= y
  OBVIOUS
<1>. QED  BY <1>1 DEF Min

LEMMA ReplayKeeps ==
  ASSUME StreamInv, NEW k \in Clients, Replay(k)
  PROVE  StreamInv'
<1>0. PICK m, window, h, c :
        /\ m = Min({conn[k].upto, conn[k].snap})
        /\ window = conn[k].after + 1 .. m /\ h = have[k] \cup window
        /\ c = [conn[k] EXCEPT !.at = "live",
                  !.sent = [i \in 1..Cardinality(window) |-> conn[k].after + i]]
  OBVIOUS
<1>1. /\ Types /\ QueueFits(k) /\ StageFits(k) /\ SentFits(k) /\ Whole(k) /\ NoGap(k)
      /\ disk \in Nat /\ Reached \in Nat /\ current \in Nat
      /\ UNCHANGED <<followers, disk, unheard, current, state, base, cursor, fan>>
  BY RunTypes DEF StreamInv, ClientFits, Replay, runVars
<1>2. /\ conn[k].at = "replaying" /\ RunStays /\ UNCHANGED <<dropped, skipped, breaks>>
      /\ conn' = [conn EXCEPT ![k] = IF conn[k].sub = 0 THEN Away ELSE c]
      /\ have' = [have EXCEPT ![k] = h]
  BY <1>0 DEF Replay, RunStays, Window
<1>3. /\ conn[k] \in Connections /\ conn[k].snap \in Nat /\ conn[k].after \in Nat
      /\ conn[k].upto \in Nat /\ conn[k].snap <= disk /\ conn[k].upto <= disk
      /\ have[k] \in SUBSET Nat /\ have[k] \subseteq 1..disk
      /\ \A e \in have[k] : e <= conn[k].after
      /\ conn[k].after <= conn[k].snap
  BY <1>1, <1>2, ClientTypes DEF StageFits, NoGap
<1>4. m \in Nat /\ m <= conn[k].upto /\ m <= conn[k].snap /\ m \in {conn[k].upto, conn[k].snap}
  BY <1>0, <1>3, LesserOf
<1>5. /\ h \in SUBSET Nat /\ h \subseteq 1..disk
      /\ \A e \in h : 1..e \subseteq h \cup unheard \cup Lost(k)
  <2>1. h \subseteq 1..disk
    BY <1>0, <1>1, <1>3, <1>4
  <2>2. 1..conn[k].after \subseteq have[k] \cup unheard \cup Lost(k)
    BY <1>1, <1>3 DEF StageFits, NoGap
  <2>3. ASSUME NEW e \in h, NEW d \in 1..e PROVE d \in h \cup unheard \cup Lost(k)
    <3>1. CASE e \in have[k]
      BY <1>0, <1>1, <2>3, <3>1 DEF NoGap
    <3>2. CASE e \in window
      <4>1. d \in 1..conn[k].after \/ d \in window
        BY <1>0, <1>3, <1>4, <2>3, <3>2
      <4>. QED  BY <1>0, <2>2, <4>1
    <3>. QED  BY <1>0, <2>3, <3>1, <3>2
  <2>4. 1..disk \subseteq Nat
    BY <1>1
  <2>. QED  BY <2>1, <2>3, <2>4
<1>6. /\ breaks' \in 0..MaxBreaks /\ skipped[k] \in SUBSET Nat
      /\ skipped' = [skipped EXCEPT ![k] = skipped[k]]
  BY <1>1, <1>2 DEF Types
<1>7. CASE conn[k].sub = 0
  <2>1. conn' = [conn EXCEPT ![k] = Away] /\ Away \in Gone /\ UNCHANGED <<dropped, skipped>>
    BY <1>2, <1>7 DEF Gone
  <2>. QED  BY <1>2, <1>5, <1>6, <2>1, GoneKeeps
<1>8. CASE conn[k].sub # 0
  <2>1. conn' = [conn EXCEPT ![k] = c]
    BY <1>2, <1>8
  <2>2. /\ c.sent \in Seq(Nat) /\ RangeOf(c.sent) = window /\ InOrder(c.sent)
        /\ c.at = "live" /\ c.sub = conn[k].sub /\ c.queue = conn[k].queue
        /\ c.after = conn[k].after /\ c.snap = conn[k].snap /\ c.upto = conn[k].upto
        /\ c \in Connections
    <3>1. PICK s : s = [i \in 1..Cardinality(window) |-> conn[k].after + i]
      OBVIOUS
    <3>2. s \in Seq(Nat) /\ RangeOf(s) = window /\ InOrder(s)
      BY <1>0, <1>3, <1>4, <3>1, Stretch
    <3>3. c = [conn[k] EXCEPT !.at = "live", !.sent = s]
      BY <1>0, <3>1
    <3>. QED  BY <1>3, <3>2, <3>3 DEF Connections, Stages
  <2>3. ASSUME conn'[k] = c, have'[k] = h, Types' PROVE ClientFits(k)'
    <3>1. /\ Items(k)' = Items(k) /\ Sent(k)' = window /\ Events(k)' = Events(k)
          /\ Ahead(k)' = Ahead(k) /\ Lost(k)' = Lost(k) /\ Due(k)' = {} /\ Due(k) = window
      BY <1>0, <1>1, <1>2, <2>2, <2>3 DEF Items, Sent, Events, Ahead, Lost, Due, Window
    <3>2. NoGap(k)'
      BY <1>1, <1>2, <1>5, <2>3, <3>1 DEF NoGap
    <3>3. QueueFits(k)'
      BY <1>1, <2>2, <2>3, <3>1 DEF QueueFits, Held, HeldBack, Reached, Front
    <3>4. StageFits(k)'
      BY <1>0, <1>1, <1>2, <1>8, <2>2, <2>3, <3>1 DEF StageFits
    <3>5. SentFits(k)'
      <4>1. \A e \in window : e \in Nat /\ e <= conn[k].upto
        BY <1>0, <1>3, <1>4
      <4>2. \A e \in window, d \in Ahead(k) : e < d
        BY <1>3, <4>1 DEF Ahead, Events
      <4>3. ASSUME k \in followers, NEW d \in h PROVE d \in Nat /\ d <= conn[k].upto
        <5>1. conn[k].upto = conn[k].snap
          BY <1>1, <1>2, <4>3, RunsAndSession DEF StageFits
        <5>2. d \in have[k] => d \in Nat /\ d <= conn[k].after
          BY <1>3
        <5>3. d \in have[k] \/ d \in window
          BY <1>0, <4>3
        <5>4. CASE d \in have[k]
          <6>1. d \in Nat /\ d <= conn[k].after
            BY <5>2, <5>4
          <6>. QED  BY <1>3, <5>1, <6>1
        <5>. QED  BY <4>1, <5>3, <5>4
      <4>4. ASSUME k \in followers, NEW d \in h, NEW e \in Ahead(k) PROVE d < e
        BY <1>3, <4>3, <4>4 DEF Ahead, Events
      <4>5. \A e \in window : ~(e > conn[k].upto)
        BY <1>3, <4>1
      <4>6. k \in followers => \A d \in h : ~(d > conn[k].upto)
        BY <1>3, <4>3
      <4>. QED  BY <1>0, <1>1, <2>2, <2>3, <3>1, <4>2, <4>4, <4>5, <4>6 DEF SentFits
    <3>6. Whole(k)'
      <4>1. k \in followers => 1..c.snap \subseteq h \cup unheard
        <5>1. SUFFICES ASSUME k \in followers, NEW e \in 1..conn[k].snap PROVE e \in h \cup unheard
          BY <2>2
        <5>2. m = conn[k].snap
          BY <1>1, <1>2, <1>3, <1>4, <5>1, RunsAndSession DEF StageFits
        <5>3. CASE e <= conn[k].after
          <6>1. conn[k].after \in have[k] /\ e \in 1..conn[k].after
            BY <1>1, <1>3, <5>1, <5>3 DEF StageFits
          <6>. QED  BY <1>0, <1>1, <5>1, <6>1 DEF NoGap, Lost
        <5>4. CASE e > conn[k].after
          <6>1. e \in window
            <7>1. window = conn[k].after + 1 .. conn[k].snap
              BY <1>0, <5>2
            <7>2. PICK a, b : a = conn[k].after /\ b = conn[k].snap /\ a \in Nat /\ b \in Nat
              BY <1>3
            <7>3. e \in 1..b /\ e > a
              BY <5>4, <7>2
            <7>. QED  BY <7>1, <7>2, <7>3
          <6>. QED  BY <1>0, <6>1
        <5>. QED  BY <1>3, <5>3, <5>4
      <4>2. k \in followers /\ Resync \notin Items(k) =>
              \A e : OfferedAll(e)' /\ e > c.snap => e \in h \cup Events(k)
        BY <1>0, <1>1, <1>2, <2>2 DEF Whole, OfferedAll, HeldBack, Reached, Front
      <4>3. ASSUME c.sub \in Runs
            PROVE  /\ \A e : Offered(c.sub, e)' /\ e > c.after =>
                             e \in h \cup Lost(k) \cup Events(k)
                   /\ c.after + 1 .. c.upto \subseteq h \cup Lost(k)
        <5>1. \A e : Offered(c.sub, e)' <=> Offered(c.sub, e)
          BY <1>1 DEF Offered, Held, Front
        <5>. QED  BY <1>0, <1>1, <2>2, <3>1, <4>3, <5>1 DEF Whole
      <4>. QED  BY <1>1, <2>2, <2>3, <3>1, <4>1, <4>2, <4>3 DEF Whole
    <3>. QED  BY <3>2, <3>3, <3>4, <3>5, <3>6 DEF ClientFits
  <2>4. /\ RunStays /\ c \in Connections /\ conn' = [conn EXCEPT ![k] = c]
        /\ have' = [have EXCEPT ![k] = h] /\ h \in SUBSET Nat
        /\ skipped' = [skipped EXCEPT ![k] = skipped[k]] /\ skipped[k] \in SUBSET Nat
        /\ dropped' = dropped /\ breaks' \in 0..MaxBreaks
        /\ (conn'[k] = c /\ have'[k] = h /\ skipped'[k] = skipped[k] /\ Types') => ClientFits(k)'
    BY <1>2, <1>5, <1>6, <2>1, <2>2, <2>3
  <2>. QED  BY <2>4, ClientSteps
<1>. QED  BY <1>7, <1>8

LEMMA ForwardKeeps ==
  ASSUME StreamInv, NEW k \in Clients, Forward(k)
  PROVE  StreamInv'
<1>0. PICK q, item : q = conn[k].queue /\ item = Head(q)
  OBVIOUS
<1>1. /\ Types /\ QueueFits(k) /\ StageFits(k) /\ SentFits(k) /\ Whole(k) /\ NoGap(k)
      /\ FanFits /\ disk \in Nat /\ Reached \in Nat /\ current \in Nat
      /\ UNCHANGED <<followers, disk, unheard, current, state, base, cursor, fan>>
  BY RunTypes DEF StreamInv, ClientFits, Forward, runVars
<1>2. /\ conn[k].at = "live" /\ q # <<>>
      /\ RunStays /\ UNCHANGED <<dropped, skipped, breaks>>
      /\ \/ conn' = [conn EXCEPT ![k] = Away] /\ have' = have
         \/ /\ item \notin {Done, Resync} /\ item <= conn[k].upto
            /\ conn' = [conn EXCEPT ![k].queue = Tail(q)] /\ have' = have
         \/ /\ item \notin {Done, Resync} /\ ~(item <= conn[k].upto)
            /\ conn' = [conn EXCEPT ![k].queue = Tail(q), ![k].sent = Append(conn[k].sent, item)]
            /\ have' = [have EXCEPT ![k] = have[k] \cup {item}]
  BY <1>0 DEF Forward, RunStays, Covered
<1>3. /\ conn[k] \in Connections /\ conn[k].snap \in Nat /\ conn[k].after \in Nat
      /\ conn[k].upto \in Nat /\ q \in Seq(QueueItems) /\ conn[k].sent \in Seq(Nat)
      /\ have[k] \in SUBSET Nat /\ skipped[k] \in SUBSET Nat /\ breaks' \in 0..MaxBreaks
      /\ have' \in {have, [have EXCEPT ![k] = have[k] \cup {item}]}
  <2>1. breaks' \in 0..MaxBreaks
    BY <1>1, <1>2 DEF Types
  <2>. QED  BY <1>0, <1>1, <1>2, <2>1, ClientTypes
<1>4. /\ have = [have EXCEPT ![k] = have[k]] /\ skipped' = [skipped EXCEPT ![k] = skipped[k]]
  BY <1>1, <1>2 DEF Types
<1>5. /\ Tail(q) \in Seq(QueueItems) /\ Len(Tail(q)) = Len(q) - 1 /\ Len(q) \in Nat
      /\ item \in QueueItems /\ Items(k) = RangeOf(Tail(q)) \cup {item} /\ item = q[1]
      /\ InOrder(Tail(q))
      /\ item \in Nat => \A e \in RangeOf(Tail(q)) \cap Nat : item < e
  BY <1>0, <1>1, <1>2, <1>3, TakenItem DEF Items, QueueFits
<1>6. CASE conn' = [conn EXCEPT ![k] = Away] /\ have' = have
  <2>1. /\ Away \in Gone /\ have[k] \subseteq 1..disk /\ UNCHANGED <<dropped, skipped>>
        /\ \A e \in have[k] : 1..e \subseteq have[k] \cup unheard \cup Lost(k)
    BY <1>1, <1>2 DEF Gone, NoGap
  <2>. QED  BY <1>2, <1>3, <1>4, <1>6, <2>1, GoneKeeps
<1>7. CASE item \notin {Done, Resync}
  <2>1. /\ item \in Nat /\ item \in Events(k) /\ Resync \notin Items(k)
        /\ Events(k) = (RangeOf(Tail(q)) \cap Nat) \cup {item}
    <3>1. item \in Nat
      BY <1>5, <1>7 DEF QueueItems
    <3>2. Resync \notin Items(k)
      BY <1>0, <1>1, <1>5, <1>7 DEF QueueFits
    <3>. QED  BY <1>5, <3>1, <3>2 DEF Events
  <2>2. /\ k \in followers => conn[k].sub = Session /\ conn[k].upto = conn[k].snap
        /\ k \notin followers => conn[k].sub \in Runs
        /\ Session \notin Runs
    <3>1. current \in 0..MaxRuns /\ MaxRuns \in Nat /\ Session \notin Runs
      BY <1>1, RunsAndSession, StreamBoundAssumption DEF Types
    <3>2. k \notin followers => conn[k].sub \in 1..current
      BY <1>1, <1>2 DEF StageFits
    <3>. QED  BY <1>1, <1>2, <3>1, <3>2 DEF StageFits, Runs
  <2>3. /\ k \in followers => item \in 1..Reached /\ ~HeldBack(item)
        /\ k \notin followers => item \in 1..cursor[conn[k].sub] /\ ~Held(conn[k].sub, item)
    BY <1>1, <2>1, <2>2 DEF QueueFits
  \* What has been queued, shown or accounted for does not lose the item.
  <2>4. ASSUME NEW c, c \in Connections, NEW h \in SUBSET Nat,
               c.at = "live" /\ c.sub = conn[k].sub /\ c.queue = Tail(q),
               c.after = conn[k].after /\ c.snap = conn[k].snap /\ c.upto = conn[k].upto,
               InOrder(c.sent), RangeOf(c.sent) \subseteq h,
               RangeOf(c.sent) \subseteq Sent(k) \cup {item},
               have[k] \subseteq h, h \subseteq have[k] \cup {item},
               item \in h \/ (item <= conn[k].upto /\ item \notin RangeOf(c.sent)),
               \A e \in h : 1..e \subseteq h \cup unheard \cup Lost(k),
               conn'[k] = c, have'[k] = h, Types'
        PROVE  ClientFits(k)'
    <3>1. /\ Items(k)' = RangeOf(Tail(q)) /\ Sent(k)' = RangeOf(c.sent)
          /\ Events(k)' = RangeOf(Tail(q)) \cap Nat
          /\ Ahead(k)' = {e \in Events(k)' : e > conn[k].upto}
          /\ Lost(k)' = Lost(k) /\ Due(k)' = {} /\ Due(k) = {}
      BY <1>1, <1>2, <2>4 DEF Items, Sent, Events, Ahead, Lost, Due
    <3>2. /\ Events(k)' \subseteq Events(k) /\ Events(k) = Events(k)' \cup {item}
          /\ Ahead(k)' \subseteq Ahead(k) /\ \A e \in Ahead(k)' : item < e /\ e \in Nat
          /\ Items(k)' \subseteq Items(k)
      BY <1>5, <2>1, <3>1 DEF Ahead
    <3>3. QueueFits(k)'
      <4>1. Len(c.queue) <= QueueMax /\ QueueMax \in Nat
        BY <1>0, <1>1, <1>5, <2>4, StreamBoundAssumption DEF QueueFits
      <4>2. c.sub # 0
        BY <1>1, <1>2, <2>4 DEF StageFits
      <4>. QED  BY <1>1, <1>5, <2>1, <2>4, <3>2, <4>1, <4>2
            DEF QueueFits, Held, HeldBack, Reached, Front
    <3>4. StageFits(k)'
      BY <1>1, <1>2, <2>4 DEF StageFits
    <3>5. SentFits(k)'
      <4>1. \A s \in Sent(k)', e \in Ahead(k)' : s < e
        BY <1>1, <2>4, <3>1, <3>2 DEF SentFits
      <4>2. \A s \in Sent(k)' : s > c.upto =>
              (c.sub \in Runs => s <= cursor[c.sub] /\ ~Held(c.sub, s))
        <5>1. ASSUME c.sub \in Runs PROVE cursor[c.sub] \in Nat /\ k \notin followers
          BY <1>1, <2>2, <2>4, <5>1, RunTypes
        <5>. QED  BY <1>1, <2>3, <2>4, <3>1, <5>1 DEF SentFits
      <4>3. k \in followers =>
              \A e \in h : /\ \A d \in Ahead(k)' : e < d
                           /\ e > c.upto => e <= Reached /\ ~HeldBack(e)
        BY <1>1, <1>2, <2>3, <2>4, <3>2 DEF SentFits
      <4>4. /\ \A r, e : Held(r, e)' <=> Held(r, e)
            /\ \A e : HeldBack(e)' <=> HeldBack(e)
            /\ Reached' = Reached
        BY <1>1 DEF Held, HeldBack, Reached, Front
      <4>. QED  BY <1>1, <2>4, <3>1, <4>1, <4>2, <4>3, <4>4 DEF SentFits
    <3>6. Whole(k)'
      <4>1. /\ \A r, e : Offered(r, e)' <=> Offered(r, e)
            /\ \A e : OfferedAll(e)' <=> OfferedAll(e)
        BY <1>1 DEF Offered, OfferedAll, Held, HeldBack, Reached, Front
      <4>2. ASSUME k \in followers
            PROVE  /\ \A e : OfferedAll(e) /\ e > c.snap => e \in h \cup Events(k)'
                   /\ 1..c.snap \subseteq h \cup unheard
        <5>1. item \in h \/ ~(item > c.snap)
          BY <1>3, <2>1, <2>2, <2>4, <4>2
        <5>. QED  BY <1>1, <1>2, <2>1, <2>4, <3>2, <4>2, <5>1 DEF Whole
      <4>3. ASSUME c.sub \in Runs
            PROVE  /\ \A e : Offered(c.sub, e) /\ e > c.after =>
                             e \in h \cup Lost(k) \cup Events(k)'
                   /\ c.after + 1 .. c.upto \subseteq h \cup Lost(k)
        <5>1. c.after + 1 .. c.upto \subseteq have[k] \cup Lost(k)
          BY <1>1, <2>4, <3>1, <4>3 DEF Whole
        <5>2. item \in h \/ ~(item > c.after) \/ item \in have[k] \cup Lost(k)
          BY <1>3, <2>1, <2>4, <5>1
        <5>. QED  BY <1>1, <2>4, <3>1, <3>2, <4>3, <5>1, <5>2 DEF Whole
      <4>. QED  BY <1>1, <2>4, <3>1, <4>1, <4>2, <4>3 DEF Whole
    <3>7. NoGap(k)'
      <4>1. item \in 1..disk
        <5>1. /\ Reached <= disk
              /\ k \notin followers => cursor[conn[k].sub] <= disk /\ cursor[conn[k].sub] \in Nat
          BY <1>1, <2>2, RunTypes DEF Reached
        <5>. QED  BY <1>1, <2>3, <5>1
      <4>. QED  BY <1>1, <1>2, <2>4, <3>1, <4>1 DEF NoGap
    <3>. QED  BY <3>3, <3>4, <3>5, <3>6, <3>7 DEF ClientFits
  <2>5. CASE /\ item <= conn[k].upto /\ conn' = [conn EXCEPT ![k].queue = Tail(q)] /\ have' = have
    <3>1. PICK c : c = [conn[k] EXCEPT !.queue = Tail(q)]
      OBVIOUS
    <3>2. /\ c \in Connections
          /\ c.at = "live" /\ c.sub = conn[k].sub /\ c.queue = Tail(q)
          /\ c.after = conn[k].after /\ c.snap = conn[k].snap /\ c.upto = conn[k].upto
          /\ c.sent = conn[k].sent
      BY <1>2, <1>3, <1>5, <3>1 DEF Connections, QueueItems
    <3>3. /\ InOrder(c.sent) /\ RangeOf(c.sent) \subseteq have[k]
          /\ RangeOf(c.sent) \subseteq Sent(k) \cup {item}
          /\ \A e \in have[k] : 1..e \subseteq have[k] \cup unheard \cup Lost(k)
      BY <1>1, <3>2 DEF SentFits, Sent, NoGap
    <3>4. item \in have[k] \/ (item <= conn[k].upto /\ item \notin RangeOf(c.sent))
      BY <2>5, <3>3
    <3>5. /\ RunStays /\ c \in Connections /\ conn' = [conn EXCEPT ![k] = c]
          /\ have' = [have EXCEPT ![k] = have[k]] /\ have[k] \in SUBSET Nat
          /\ skipped' = [skipped EXCEPT ![k] = skipped[k]] /\ skipped[k] \in SUBSET Nat
          /\ dropped' = dropped /\ breaks' \in 0..MaxBreaks
          /\ (conn'[k] = c /\ have'[k] = have[k] /\ skipped'[k] = skipped[k] /\ Types')
               => ClientFits(k)'
      BY <1>2, <1>3, <1>4, <2>4, <2>5, <3>1, <3>2, <3>3, <3>4
    <3>. QED  BY <3>5, ClientSteps
  <2>6. CASE /\ ~(item <= conn[k].upto)
             /\ conn' = [conn EXCEPT ![k].queue = Tail(q), ![k].sent = Append(conn[k].sent, item)]
             /\ have' = [have EXCEPT ![k] = have[k] \cup {item}]
    <3>1. PICK c, h, s : /\ c = [conn[k] EXCEPT !.queue = Tail(q), !.sent = s]
                         /\ h = have[k] \cup {item} /\ s = Append(conn[k].sent, item)
      OBVIOUS
    <3>2. item \in Ahead(k) /\ item > conn[k].upto
      BY <1>3, <2>1, <2>6 DEF Ahead
    <3>3. s \in Seq(Nat) /\ RangeOf(s) = Sent(k) \cup {item} /\ InOrder(s)
      <4>1. \A e \in RangeOf(conn[k].sent) \cap Nat : e < item
        BY <1>1, <3>2 DEF SentFits, Sent
      <4>2. InOrder(conn[k].sent)
        BY <1>1 DEF SentFits
      <4>3. PICK t : t = conn[k].sent
        OBVIOUS
      <4>4. /\ Append(t, item) \in Seq(Nat) /\ RangeOf(Append(t, item)) = RangeOf(t) \cup {item}
            /\ InOrder(Append(t, item))
        BY <1>3, <2>1, <4>1, <4>2, <4>3, AppendedItem
      <4>. QED  BY <3>1, <4>3, <4>4 DEF Sent
    <3>4. /\ c \in Connections
          /\ c.at = "live" /\ c.sub = conn[k].sub /\ c.queue = Tail(q)
          /\ c.after = conn[k].after /\ c.snap = conn[k].snap /\ c.upto = conn[k].upto
          /\ c.sent = s
      BY <1>2, <1>3, <1>5, <3>1, <3>3 DEF Connections, QueueItems
    <3>5. ASSUME NEW e \in h, NEW d \in 1..e PROVE d \in h \cup unheard \cup Lost(k)
      <4>1. CASE e \in have[k]
        BY <1>1, <3>1, <3>5, <4>1 DEF NoGap
      <4>2. CASE e = item /\ d = item
        BY <3>1, <4>2
      <4>3. CASE e = item /\ d # item
        <5>1. /\ d \in Nat /\ d >= 1 /\ d < item
          BY <2>1, <3>5, <4>3
        <5>2. d \notin Events(k)
          BY <1>5, <2>1, <5>1
        <5>3. CASE k \in followers
          <6>1. CASE d <= conn[k].snap
            BY <1>1, <1>2, <1>3, <3>1, <5>1, <5>3, <6>1 DEF Whole
          <6>2. CASE d > conn[k].snap /\ d \notin unheard
            <7>1. ~HeldBack(d)
              <8>1. fan.to # "nobody" => Reached = fan.event
                BY <1>1, ActiveFan
              <8>2. item <= Reached
                BY <2>3, <5>3
              <8>. QED  BY <1>1, <2>1, <5>1, <8>1, <8>2 DEF HeldBack
            <7>2. OfferedAll(d)
              BY <1>1, <2>3, <5>1, <5>3, <6>2, <7>1 DEF OfferedAll
            <7>. QED  BY <1>1, <1>2, <2>1, <3>1, <5>2, <5>3, <6>2, <7>2 DEF Whole
          <6>. QED  BY <1>3, <5>1, <6>1, <6>2
        <5>4. CASE k \notin followers
          <6>1. PICK r \in Runs : r = conn[k].sub
            BY <2>2, <5>4
          <6>2. cursor[r] \in Nat /\ Front(r) \in Nat /\ cursor[r] <= Front(r)
            BY <1>1, RunTypes
          <6>3. CASE d <= conn[k].after
            <7>1. conn[k].after \in have[k] /\ d \in 1..conn[k].after
              BY <1>1, <1>3, <5>1, <6>3 DEF StageFits
            <7>. QED  BY <1>1, <3>1, <7>1 DEF NoGap
          <6>4. CASE d > conn[k].after /\ d \notin unheard
            <7>1. ~Held(r, d)
              <8>1. fan.to # "nobody" => fan.event = cursor[fan.run]
                BY <1>1, ActiveFan
              <8>2. item <= cursor[r]
                BY <2>3, <5>4, <6>1
              <8>. QED  BY <2>1, <5>1, <6>2, <8>1, <8>2 DEF Held
            <7>2. Offered(r, d)
              BY <2>3, <5>1, <5>4, <6>1, <6>2, <6>4, <7>1 DEF Offered
            <7>3. Due(k) = {}
              BY <1>2 DEF Due
            <7>. QED  BY <1>1, <3>1, <5>2, <6>1, <6>4, <7>2, <7>3 DEF Whole
          <6>. QED  BY <1>3, <5>1, <6>3, <6>4
        <5>. QED  BY <5>3, <5>4
      <4>. QED  BY <3>1, <3>5, <4>1, <4>2, <4>3
    <3>6. /\ h \in SUBSET Nat /\ have[k] \subseteq h /\ h \subseteq have[k] \cup {item}
          /\ item \in h /\ RangeOf(s) \subseteq h
      BY <1>1, <1>3, <2>1, <3>1, <3>3 DEF SentFits
    <3>7. /\ RunStays /\ c \in Connections /\ conn' = [conn EXCEPT ![k] = c]
          /\ have' = [have EXCEPT ![k] = h] /\ h \in SUBSET Nat
          /\ skipped' = [skipped EXCEPT ![k] = skipped[k]] /\ skipped[k] \in SUBSET Nat
          /\ dropped' = dropped /\ breaks' \in 0..MaxBreaks
          /\ (conn'[k] = c /\ have'[k] = h /\ skipped'[k] = skipped[k] /\ Types') => ClientFits(k)'
      <4>1. conn' = [conn EXCEPT ![k] = c]
        BY <2>6, <3>1
      <4>2. have' = [have EXCEPT ![k] = h]
        BY <2>6, <3>1
      <4>3. ASSUME conn'[k] = c, have'[k] = h, Types' PROVE ClientFits(k)'
        BY <2>4, <3>3, <3>4, <3>5, <3>6, <4>3
      <4>. QED  BY <1>2, <1>3, <1>4, <3>4, <3>6, <4>1, <4>2, <4>3
    <3>. QED  BY <3>7, ClientSteps
  <2>. QED  BY <1>2, <1>6, <2>5, <2>6
<1>. QED  BY <1>2, <1>6, <1>7

-----------------------------------------------------------------------------
(* The invariant, and what follows from it                                  *)

LEMMA StreamStarts ==
  ASSUME Init
  PROVE  StreamInv
<1>1. /\ disk = 0 /\ current = 0 /\ fan = NoFan /\ unheard = {} /\ breaks = 0
      /\ MaxEvents \in Nat /\ MaxRuns \in Nat /\ MaxBreaks \in Nat /\ QueueMax \in Nat
      /\ \A r \in Runs : r > 0 /\ r \in Nat
  BY StreamBoundAssumption, RunsAndSession DEF Init
<1>2. Away \in Connections
  BY GoneTypes DEF Gone
<1>3. Types
  BY <1>1, <1>2 DEF Init, Types, NoFan
<1>4. RunsFit /\ FanFits
  <2>1. \A r \in Runs : state[r] = "none" /\ base[r] = 0 /\ cursor[r] = 0 /\ last[r] = 0
    BY DEF Init
  <2>2. Reached = 0 /\ Reached + 1 .. disk \subseteq unheard
    BY <1>1 DEF Reached
  <2>3. RunsFit
    BY <1>1, <2>1, <2>2 DEF RunFits, RunsFit
  <2>. QED  BY <1>1, <2>3 DEF FanFits, NoFan
<1>5. ASSUME NEW k \in Clients PROVE ClientFits(k)
  <2>1. conn[k] = Away /\ have[k] = {} /\ dropped[k] = {} /\ skipped[k] = {}
    BY DEF Init
  <2>2. /\ conn[k].at = "away" /\ conn[k].sub = 0
        /\ conn[k].after = 0 /\ conn[k].snap = 0 /\ conn[k].upto = 0
        /\ conn[k].queue = <<>> /\ conn[k].sent = <<>>
    BY <2>1 DEF Away
  <2>3. /\ Items(k) = {} /\ Sent(k) = {} /\ Events(k) = {} /\ Ahead(k) = {}
    BY <2>2 DEF Items, Sent, Events, Ahead, RangeOf
  <2>4. QueueFits(k)
    BY <1>1, <2>2, <2>3, RunsAndSession DEF QueueFits, InOrder
  <2>5. StageFits(k)
    BY <1>1, <2>1, <2>2 DEF StageFits
  <2>6. SentFits(k)
    BY <2>2, <2>3 DEF SentFits, InOrder
  <2>7. Whole(k)
    BY <2>2, RunsAndSession DEF Whole
  <2>8. NoGap(k)
    BY <2>1 DEF NoGap
  <2>. QED  BY <2>4, <2>5, <2>6, <2>7, <2>8 DEF ClientFits
<1>. QED  BY <1>3, <1>4, <1>5 DEF StreamInv

LEMMA StreamKeeps ==
  ASSUME StreamInv, [Next]_vars
  PROVE  StreamInv'
<1>1. ASSUME NEW r \in Runs, Enqueue(r) \/ Finish(r) \/ Launch(r) \/ AppendLive(r)
      PROVE  StreamInv'
  BY <1>1, EnqueueKeeps, FinishKeeps, LaunchKeeps, AppendLiveKeeps
<1>2. CASE FanOut \/ FanOutSession \/ AppendQuiet
  BY <1>2, FanOutKeeps, FanOutSessionKeeps, AppendQuietKeeps
<1>3. ASSUME NEW k \in Clients,
             Read(k) \/ Open(k) \/ Replay(k) \/ Forward(k) \/ Rebuild(k) \/ Request(k) \/ Break(k)
      PROVE  StreamInv'
  BY <1>3, ReadKeeps, OpenKeeps, ReplayKeeps, ForwardKeeps, RebuildKeeps, RequestKeeps, BreakKeeps
<1>4. CASE UNCHANGED vars
  <2>1. RunStays /\ UNCHANGED clientVars
    BY <1>4 DEF vars, RunStays
  <2>2. Types' /\ RunsFit' /\ FanFits'
    BY <2>1 DEF StreamInv, Types, RunFits, RunsFit, FanFits, RunStays, runVars, clientVars,
                Reached, Front
  <2>3. \A k \in Clients : ClientFits(k)'
    BY <2>1, <2>2, OthersStay DEF Untouched, clientVars
  <2>. QED  BY <2>2, <2>3 DEF StreamInv
<1>. QED  BY <1>1, <1>2, <1>3, <1>4 DEF Next, Feed, Serve, World

(* The items of a sequence say what it is a sequence of.                    *)
LEMMA SequenceOf ==
  ASSUME NEW T, NEW U, NEW s \in Seq(T), RangeOf(s) \subseteq U
  PROVE  s \in Seq(U)
<1>1. Len(s) \in Nat /\ s = [i \in 1..Len(s) |-> s[i]] /\ \A i \in 1..Len(s) : s[i] \in U
  BY DEF RangeOf
<1>. QED  BY <1>1

LEMMA StreamTypes ==
  ASSUME StreamInv
  PROVE  TypeOK
<1>1. Types /\ disk \in Nat
  BY RunTypes DEF StreamInv
<1>2. ASSUME NEW k \in Clients
      PROVE  /\ conn[k].at \in {"away", "reading", "read", "replaying", "live", "rebuilding"}
             /\ conn[k].sub \in 0..Session
             /\ {conn[k].after, conn[k].snap, conn[k].upto} \subseteq 0..disk
             /\ conn[k].queue \in Seq(1..disk \cup {Done, Resync})
             /\ Len(conn[k].queue) <= QueueMax
             /\ conn[k].sent \in Seq(1..disk)
             /\ have[k] \cup skipped[k] \cup dropped[k] \subseteq 1..disk
  <2>1. QueueFits(k) /\ StageFits(k) /\ SentFits(k) /\ NoGap(k)
    BY DEF StreamInv, ClientFits
  <2>2. /\ conn[k].at \in Stages /\ conn[k].sub \in 0..Session
        /\ conn[k].after \in Nat /\ conn[k].snap \in Nat /\ conn[k].upto \in Nat
        /\ conn[k].queue \in Seq(QueueItems) /\ conn[k].sent \in Seq(Nat)
    BY <1>1, ClientTypes
  <2>3. Items(k) \subseteq 1..disk \cup {Done, Resync}
    <3>1. Items(k) \subseteq QueueItems /\ (conn[k].sub = 0 => Items(k) = {})
      BY <2>1, <2>2 DEF Items, RangeOf, QueueFits
    <3>2. conn[k].sub = 0 \/ conn[k].sub = Session \/ conn[k].sub \in Runs
      BY <2>2, StreamBoundAssumption DEF Session, Runs
    <3>3. conn[k].sub = Session => Events(k) \subseteq 1..disk
      <4>1. Reached \in Nat /\ Reached <= disk
        BY <1>1, RunTypes DEF Reached
      <4>. QED  BY <1>1, <2>1, <4>1 DEF QueueFits
    <3>4. conn[k].sub \in Runs => Events(k) \subseteq 1..disk
      <4>1. conn[k].sub \in Runs => cursor[conn[k].sub] \in Nat /\ cursor[conn[k].sub] <= disk
        BY <1>1, RunTypes
      <4>. QED  BY <1>1, <2>1, <4>1 DEF QueueFits
    <3>. QED  BY <3>1, <3>2, <3>3, <3>4 DEF Events, QueueItems
  <2>4. conn[k].queue \in Seq(1..disk \cup {Done, Resync})
    BY <2>2, <2>3, SequenceOf DEF Items
  <2>5. conn[k].sent \in Seq(1..disk)
    <3>1. RangeOf(conn[k].sent) \subseteq 1..disk
      BY <2>1 DEF SentFits, Sent, NoGap
    <3>. QED  BY <2>2, <3>1, SequenceOf
  <2>. QED  BY <1>1, <2>1, <2>2, <2>4, <2>5 DEF QueueFits, StageFits, NoGap, Stages
<1>. QED  BY <1>1, <1>2 DEF Types, TypeOK, Ended

LEMMA StreamHolds ==
  ASSUME StreamInv
  PROVE  NoGapNoRepeat
<1>1. ASSUME NEW k \in Clients
      PROVE  /\ Gaps(k) \subseteq Lost(k)
             /\ \A i, j \in DOMAIN conn[k].sent : i < j => conn[k].sent[i] < conn[k].sent[j]
  <2>1. Types /\ SentFits(k) /\ NoGap(k)
    BY DEF StreamInv, ClientFits
  <2>2. Newest(k) \in have[k] \/ Newest(k) = 0
    BY <2>1, NewestIsShown DEF NoGap
  <2>3. Gaps(k) \subseteq Lost(k)
    BY <2>1, <2>2 DEF Gaps, NoGap
  <2>4. \A i \in DOMAIN conn[k].sent : conn[k].sent[i] \in Nat
    BY <2>1, ClientTypes
  <2>. QED  BY <2>1, <2>3, <2>4 DEF SentFits, InOrder
<1>2. followers \subseteq Clients
  BY DEF StreamInv, Types
<1>. QED  BY <1>1, <1>2 DEF NoGapNoRepeat, Lost, Reconnecting

(* The variables keep their types.                                          *)
THEOREM TypeCorrect == Spec => []TypeOK
<1>1. Init => StreamInv
  BY StreamStarts
<1>2. StreamInv /\ [Next]_vars => StreamInv'
  BY StreamKeeps
<1>3. StreamInv => TypeOK
  BY StreamTypes
<1>. QED  BY <1>1, <1>2, <1>3, PTL DEF Spec

(* A follower has no gap among the events of runs; what a reconnecting      *)
(* client lacks fell out of its full queue or between its request and the   *)
(* cursor of the run; and no connection shows an event twice or out of      *)
(* order (RunManager._fanout, the generators of GET /stream).               *)
THEOREM StreamIsWhole == Spec => []NoGapNoRepeat
<1>1. Init => StreamInv
  BY StreamStarts
<1>2. StreamInv /\ [Next]_vars => StreamInv'
  BY StreamKeeps
<1>3. StreamInv => NoGapNoRepeat
  BY StreamHolds
<1>. QED  BY <1>1, <1>2, <1>3, PTL DEF Spec
=============================================================================
