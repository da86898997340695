------------------------- MODULE MessageDeliveryProofs -------------------------
(***************************************************************************)
(* What holds in MessageDelivery for any number of messages, steers,       *)
(* flushes and clients and for every bound.  Of the runs: two are never in *)
(* flight together, a run that everybody has left is on the clock of the   *)
(* orphan timer, and the reason it is recorded to have ended for is the    *)
(* true one.  Of the inputs: the mirror in memory agrees with the stream,  *)
(* drives launch in the order of arrival, no input is said twice without a *)
(* reason that the history knows, and none vanishes (InputPromise).        *)
(***************************************************************************)
EXTENDS MessageDelivery, TLAPS, FiniteSetTheorems, WellFoundedInduction

(* A run that is still in its body has not left an end in the stream.       *)
Unended ==
    \A r \in Runs :
        stage[r] \in {"none", "created", "spoken", "running"} => ended[r] = "open"

(* A run is cancelled by its user or by the timer, not by both.             *)
OneCanceller == \A r \in Runs : ~(cancelRequested[r] /\ reapRequested[r])

RunsInv ==
    /\ RunsTypeOK
    /\ Unended /\ OneCanceller
    /\ OneInFlight /\ DesertedIsTimed /\ ReasonIsTrue

-----------------------------------------------------------------------------
(* The operations of the run manager                                        *)

LEMMA RunsAreNumbers == NoRun \notin Runs
  BY RunsAssumption DEF Runs, NoRun

LEMMA NextRunIsUnused ==
  ASSUME MayLaunch
  PROVE  NextRun \in Runs /\ stage[NextRun] = "none"
  BY DEF MayLaunch, NextRun, Unused

(* Nothing is in flight when get_active says so.                            *)
LEMMA IdleMeansIdle ==
  ASSUME RunsInv, GetActive = NoRun, NEW r \in Runs
  PROVE  ~InFlight(r)
  BY RunsAreNumbers DEF RunsInv, OneInFlight, GetActive

LEMMA LaunchKeeps ==
  ASSUME RunsInv, GetActive = NoRun, NEW r \in Runs, NEW w \in Watchers, LaunchRun(r, w)
  PROVE  RunsInv'
<1>. USE DEF RunsInv, LaunchRun
<1>1. RunsTypeOK'
  BY DEF RunsTypeOK, Stages
<1>2. Unended' /\ OneCanceller' /\ ReasonIsTrue'
  BY DEF Unended, OneCanceller, ReasonIsTrue
<1>3. ASSUME NEW s \in Runs, s # r PROVE InFlight(s)' => InFlight(s)
  BY <1>3 DEF InFlight, Working, Terminal
<1>4. OneInFlight'
  BY <1>3, IdleMeansIdle DEF OneInFlight
<1>5. subscribers'[r] = {w}
  BY DEF RunsTypeOK
<1>6. DesertedIsTimed'
  BY <1>3, <1>5, IdleMeansIdle DEF DesertedIsTimed
<1>. QED  BY <1>1, <1>2, <1>4, <1>6

(* Every other operation only takes runs out of flight.                     *)
NoneTakesOff == current' = current /\ \A r \in Runs : InFlight(r)' => InFlight(r)

LEMMA AdvanceKeeps ==
  ASSUME RunsInv, NEW r \in Runs, NEW from, NEW to,
         <<from, to>> \in {<<"created", "spoken">>, <<"spoken", "running">>},
         Advance(r, from, to)
  PROVE  RunsInv'
<1>. USE DEF RunsInv, Advance
<1>1. RunsTypeOK'
  BY DEF RunsTypeOK, Stages
<1>2. Unended' /\ OneCanceller' /\ ReasonIsTrue'
  BY DEF Unended, OneCanceller, ReasonIsTrue
<1>3. NoneTakesOff
  BY DEF NoneTakesOff, InFlight, Working, Terminal
<1>4. OneInFlight' /\ DesertedIsTimed'
  BY <1>3 DEF NoneTakesOff, OneInFlight, DesertedIsTimed, Interrupted
<1>. QED  BY <1>1, <1>2, <1>4

LEMMA EndBodyKeeps ==
  ASSUME RunsInv, NEW r \in Runs, NEW how, EndBody(r, how)
  PROVE  RunsInv'
<1>. USE DEF RunsInv, EndBody
<1>1. RunsTypeOK'
  BY DEF RunsTypeOK, Stages, Ends, Facts
<1>2. Unended' /\ OneCanceller'
  BY DEF RunsTypeOK, Unended, OneCanceller
<1>3. NoneTakesOff
  BY DEF Unended, NoneTakesOff, InFlight, Working, Terminal, Facts
<1>4. OneInFlight' /\ DesertedIsTimed'
  BY <1>3 DEF RunsTypeOK, NoneTakesOff, OneInFlight, DesertedIsTimed, Interrupted
<1>5. ReasonIsTrue'
  BY DEF ReasonIsTrue
<1>. QED  BY <1>1, <1>2, <1>4, <1>5

LEMMA EndEarlyKeeps ==
  ASSUME RunsInv, NEW r \in Runs, EndEarly(r)
  PROVE  RunsInv'
<1>. USE DEF RunsInv, EndEarly
<1>1. RunsTypeOK'
  BY DEF RunsTypeOK, Stages, Ends
<1>2. Unended' /\ OneCanceller'
  BY DEF RunsTypeOK, Unended, OneCanceller
<1>3. NoneTakesOff
  BY DEF Unended, NoneTakesOff, InFlight, Working, Terminal, Facts
<1>4. OneInFlight' /\ DesertedIsTimed'
  BY <1>3 DEF NoneTakesOff, OneInFlight, DesertedIsTimed, Interrupted
<1>5. ReasonIsTrue'
  BY DEF ReasonIsTrue
<1>. QED  BY <1>1, <1>2, <1>4, <1>5

LEMMA CancelArmKeeps ==
  ASSUME RunsInv, NEW r \in Runs, CancelArm(r)
  PROVE  RunsInv'
<1>. USE DEF RunsInv, CancelArm
<1>1. RunsTypeOK'
  BY DEF RunsTypeOK, Stages, Ends, Facts, CancelReason
<1>2. Unended' /\ OneCanceller'
  BY DEF RunsTypeOK, Unended, OneCanceller
<1>3. NoneTakesOff
  BY DEF RunsTypeOK, Unended, NoneTakesOff, InFlight, Working, Terminal, Facts
<1>4. OneInFlight' /\ DesertedIsTimed'
  BY <1>3 DEF RunsTypeOK, NoneTakesOff, OneInFlight, DesertedIsTimed, Interrupted
<1>5. ReasonIsTrue'
  BY DEF RunsTypeOK, ReasonIsTrue, OneCanceller, CancelReason
<1>. QED  BY <1>1, <1>2, <1>4, <1>5

LEMMA FinishKeeps ==
  ASSUME RunsInv, NEW r \in Runs, Finish(r)
  PROVE  RunsInv'
<1>. USE DEF RunsInv, Finish
<1>1. RunsTypeOK'
  BY DEF RunsTypeOK, Stages
<1>2. Unended' /\ OneCanceller'
  BY DEF Unended, OneCanceller
<1>3. NoneTakesOff
  BY DEF NoneTakesOff, InFlight, Working, Terminal
<1>4. OneInFlight' /\ DesertedIsTimed'
  BY <1>3 DEF NoneTakesOff, OneInFlight, DesertedIsTimed, Interrupted, Terminal, InFlight
<1>5. ReasonIsTrue'
  BY DEF ReasonIsTrue
<1>. QED  BY <1>1, <1>2, <1>4, <1>5

LEMMA CancelKeeps ==
  ASSUME RunsInv, NEW r \in Runs, Cancel(r)
  PROVE  RunsInv'
<1>. USE DEF RunsInv, Cancel
<1>1. RunsTypeOK'
  BY DEF RunsTypeOK
<1>2. Unended' /\ OneCanceller'
  BY DEF Unended, OneCanceller, Interrupted
<1>3. NoneTakesOff
  BY DEF NoneTakesOff, InFlight, Working, Terminal
<1>4. OneInFlight' /\ DesertedIsTimed'
  BY <1>3 DEF NoneTakesOff, OneInFlight, DesertedIsTimed, Interrupted
<1>5. ReasonIsTrue'
  BY DEF ReasonIsTrue, GetActive, InFlight, Terminal, Facts
<1>. QED  BY <1>1, <1>2, <1>4, <1>5

LEMMA SubscribeKeeps ==
  ASSUME RunsInv, NEW r \in Runs, NEW w \in Watchers, Subscribe(r, w)
  PROVE  RunsInv'
<1>. USE DEF RunsInv, Subscribe
<1>1. RunsTypeOK'
  BY DEF RunsTypeOK
<1>2. Unended' /\ OneCanceller'
  BY DEF Unended, OneCanceller
<1>3. NoneTakesOff
  BY DEF NoneTakesOff, InFlight, Working, Terminal
<1>4. OneInFlight' /\ DesertedIsTimed'
  BY <1>3 DEF RunsTypeOK, NoneTakesOff, OneInFlight, DesertedIsTimed, Interrupted
<1>5. ReasonIsTrue'
  BY DEF ReasonIsTrue
<1>. QED  BY <1>1, <1>2, <1>4, <1>5

LEMMA UnsubscribeKeeps ==
  ASSUME RunsInv, NEW r \in Runs, NEW w \in Watchers, Unsubscribe(r, w)
  PROVE  RunsInv'
<1>. USE DEF RunsInv, Unsubscribe
<1>1. RunsTypeOK'
  BY DEF RunsTypeOK
<1>2. Unended' /\ OneCanceller'
  BY DEF Unended, OneCanceller
<1>3. NoneTakesOff
  BY DEF NoneTakesOff, InFlight, Working, Terminal
<1>4. OneInFlight' /\ DesertedIsTimed'
  BY <1>3 DEF RunsTypeOK, NoneTakesOff, OneInFlight, DesertedIsTimed, Interrupted, InFlight
<1>5. ReasonIsTrue'
  BY DEF ReasonIsTrue
<1>. QED  BY <1>1, <1>2, <1>4, <1>5

LEMMA ReapKeeps ==
  ASSUME RunsInv, NEW r \in Runs, Reap(r)
  PROVE  RunsInv'
<1>. USE DEF RunsInv, Reap
<1>1. RunsTypeOK'
  BY DEF RunsTypeOK
<1>2. Unended' /\ OneCanceller'
  BY DEF RunsTypeOK, Unended, OneCanceller
<1>3. NoneTakesOff
  BY DEF NoneTakesOff, InFlight, Working, Terminal
<1>4. OneInFlight' /\ DesertedIsTimed'
  BY <1>3 DEF RunsTypeOK, NoneTakesOff, OneInFlight, DesertedIsTimed, Interrupted, InFlight
<1>5. ReasonIsTrue'
  BY DEF ReasonIsTrue
<1>. QED  BY <1>1, <1>2, <1>4, <1>5

LEMMA LoseRunsKeeps ==
  ASSUME RunsInv, LoseRuns
  PROVE  RunsInv'
<1>. USE DEF RunsInv, LoseRuns
<1>1. RunsTypeOK'
  BY DEF RunsTypeOK, Stages
<1>2. Unended' /\ OneCanceller' /\ ReasonIsTrue'
  BY DEF Unended, OneCanceller, ReasonIsTrue
<1>3. \A r \in Runs : ~InFlight(r)'
  BY DEF InFlight, Working
<1>4. OneInFlight' /\ DesertedIsTimed'
  BY <1>3 DEF OneInFlight, DesertedIsTimed
<1>. QED  BY <1>1, <1>2, <1>4

(* The relay of a run is over: its task is done.                            *)
LEMMA LeaveKeeps ==
  ASSUME RunsInv, NEW d \in Drivers, Leave(d)
  PROVE  RunsInv'
<1>. USE DEF RunsInv, Leave
<1>1. RunsTypeOK'
  BY DEF RunsTypeOK, Stages
<1>2. Unended' /\ OneCanceller' /\ ReasonIsTrue'
  BY DEF Unended, OneCanceller, ReasonIsTrue
<1>3. NoneTakesOff
  BY DEF NoneTakesOff, InFlight, Working, Terminal
<1>4. OneInFlight'
  BY <1>3 DEF NoneTakesOff, OneInFlight
<1>5. ASSUME NEW r \in Runs, InFlight(r)' PROVE stage'[r] = stage[r]
  BY <1>5 DEF InFlight, Working
<1>6. DesertedIsTimed'
  BY <1>3, <1>5 DEF NoneTakesOff, DesertedIsTimed, Interrupted
<1>. QED  BY <1>1, <1>2, <1>4, <1>6

LEMMA StutterKeeps ==
  ASSUME RunsInv, UNCHANGED runVars
  PROVE  RunsInv'
  BY DEF RunsInv, runVars, RunsTypeOK, Unended, OneCanceller, OneInFlight, DesertedIsTimed,
     ReasonIsTrue, InFlight, Working, Terminal, Interrupted

-----------------------------------------------------------------------------
(* The steps of the session                                                 *)

LEMMA SendKeeps ==
  ASSUME RunsInv, NEW i \in Inputs, Look(i) \/ SendStep(i) \/ Withdraw(i)
  PROVE  RunsInv'
<1>1. CASE UNCHANGED runVars
  BY <1>1, StutterKeeps
<1>2. CASE Launch(i, i)
  <2>1. LaunchRun(NextRun, i) /\ GetActive = NoRun /\ NextRun \in Runs
    BY <1>2, NextRunIsUnused DEF Launch, MayLaunch
  <2>2. i \in Watchers
    BY DeliveryAssumption
  <2>. QED  BY <2>1, <2>2, LaunchKeeps
<1>. QED
  BY <1>1, <1>2
     DEF Look, SendStep, SendQueued, SendIdle, SendSteer, RegisterWaiting, Withdraw

LEMMA BodyKeeps ==
  ASSUME RunsInv, NEW r \in Runs, BodyStep(r)
  PROVE  RunsInv'
<1>1. CASE UNCHANGED runVars
  BY <1>1, StutterKeeps
<1>2. CASE Advance(r, "created", "spoken")
  BY <1>2, AdvanceKeeps
<1>3. CASE Advance(r, "spoken", "running")
  BY <1>3, AdvanceKeeps
<1>. QED
  BY <1>1, <1>2, <1>3 DEF BodyStep, Speak, Begin, Drain, InjectSay, InjectSettle

LEMMA EndKeeps ==
  ASSUME RunsInv, NEW r \in Runs, EndStep(r) \/ CancelRun(r)
  PROVE  RunsInv'
  BY EndBodyKeeps, EndEarlyKeeps, CancelArmKeeps, FinishKeeps, ReapKeeps, CancelKeeps
     DEF EndStep, EndRun, FailEarly, WindUp, FinishRun, ReapRun, CancelRun

LEMMA DriveKeeps ==
  ASSUME RunsInv, NEW d \in Drivers,
         \/ d \in Runs /\ RelayEnter(d)
         \/ d \in Flushers /\ FlushEnter(d)
         \/ DriveStep(d)
  PROVE  RunsInv'
<1>1. CASE UNCHANGED runVars
  BY <1>1, StutterKeeps
<1>2. CASE Leave(d)
  BY <1>2, LeaveKeeps
<1>3. CASE Launch(driver[d].input, Watcher(d))
  <2>1. /\ LaunchRun(NextRun, Watcher(d)) /\ GetActive = NoRun /\ NextRun \in Runs
    BY <1>3, NextRunIsUnused DEF Launch, MayLaunch
  <2>2. Watcher(d) \in Watchers
    BY DeliveryAssumption DEF Watcher, Drivers
  <2>. QED  BY <2>1, <2>2, LaunchKeeps
<1>. QED
  BY <1>1, <1>2, <1>3
     DEF RelayEnter, FlushEnter, DriveStep, Pick, DriveLaunch, Record

LEMMA RunsInvNext ==
  ASSUME RunsInv, [Next]_vars
  PROVE  RunsInv'
<1>1. CASE \E i \in Inputs : Look(i) \/ SendStep(i) \/ Withdraw(i)
  BY <1>1, SendKeeps
<1>2. CASE \E r \in Runs : BodyStep(r) \/ EndStep(r) \/ RelayEnter(r) \/ CancelRun(r)
  BY <1>2, BodyKeeps, EndKeeps, DriveKeeps DEF Drivers
<1>3. CASE \/ \E f \in Flushers : FlushEnter(f)
           \/ \E d \in Drivers : DriveStep(d)
  BY <1>3, DriveKeeps DEF Drivers
<1>4. CASE \E r \in Runs, w \in Watchers : Connect(r, w) \/ Disconnect(r, w)
  BY <1>4, SubscribeKeeps, UnsubscribeKeeps DEF Connect, Disconnect
<1>5. CASE CrashRestart
  BY <1>5, LoseRunsKeeps DEF CrashRestart
<1>6. CASE UNCHANGED vars
  BY <1>6, StutterKeeps DEF vars
<1>. QED  BY <1>1, <1>2, <1>3, <1>4, <1>5, <1>6 DEF Next

LEMMA RunsInvInit ==
  ASSUME Init
  PROVE  RunsInv
<1>. USE RunsAreNumbers DEF Init, RunsInit
<1>1. RunsTypeOK
  BY DEF RunsTypeOK, Stages, Ends
<1>2. Unended /\ OneCanceller /\ ReasonIsTrue
  BY DEF Unended, OneCanceller, ReasonIsTrue
<1>3. OneInFlight /\ DesertedIsTimed
  BY DEF OneInFlight, DesertedIsTimed, InFlight, Working
<1>. QED  BY <1>1, <1>2, <1>3 DEF RunsInv

LEMMA RunsInvariance == Spec => []RunsInv
<1>1. Init => RunsInv
  BY RunsInvInit
<1>2. RunsInv /\ [Next]_vars => RunsInv'
  BY RunsInvNext
<1>. QED  BY <1>1, <1>2, PTL DEF Spec

-----------------------------------------------------------------------------
(* The entry of the session names the only run in flight, whichever of the  *)
(* senders, the flushes and the relay of the last run has launched it.      *)
THEOREM OneRunInFlight == Spec => []OneInFlight
<1>1. RunsInv => OneInFlight
  BY DEF RunsInv
<1>. QED  BY <1>1, RunsInvariance, PTL

(* A run in flight that everybody has left is on the clock of the orphan    *)
(* timer, or is being ended: no order of leaving, coming back, cancelling   *)
(* and firing lets it run on unwatched for ever.                            *)
THEOREM DesertedRunIsTimed == Spec => []DesertedIsTimed
<1>1. RunsInv => DesertedIsTimed
  BY DEF RunsInv
<1>. QED  BY <1>1, RunsInvariance, PTL

(* A run is recorded as orphaned only when its user had not cancelled it.   *)
THEOREM RecordedReasonIsTrue == Spec => []ReasonIsTrue
<1>1. RunsInv => ReasonIsTrue
  BY DEF RunsInv
<1>. QED  BY <1>1, RunsInvariance, PTL
-----------------------------------------------------------------------------
(* The inputs of the session                                                *)

(* An input arrives once.                                                   *)
ArrivesOnce ==
    \A j, k \in DOMAIN arrivals : arrivals[j] = arrivals[k] => j = k

(* What was not accepted yet has left no trace.                             *)
Unknown(i) == i \notin Arrived /\ i \notin Said /\ \A r \in Runs : input[r] # i
SendersFresh ==
    \A i \in Inputs :
        /\ sending[i] \in {"idle", "looked", "waiting"} => Unknown(i)
        /\ sending[i] = "waiting" => i \in Steers /\ seen[i] \in Runs
OnlyArrived == withdrawn \cup settled \subseteq Arrived

(* A steer is meant for a run that had begun when it arrived.               *)
TargetBegun ==
    \A i \in Inputs : target[i] # NoRun =>
        /\ i \in Steers \cap Arrived /\ target[i] \in Runs
        /\ stage[target[i]] \notin {"none", "created", "spoken"}

(* A run is launched with an input and begins by saying it.                 *)
RunsSpeak ==
    \A r \in Runs :
        /\ input[r] = None <=> stage[r] = "none"
        /\ stage[r] \in {"spoken", "running"} \/ ended[r] \in Facts \cup {"paused"}
             => input[r] \in Said

(* What a run has drained is meant for it, and it runs.                     *)
MeantFor(i, r) == target[i] = r /\ r \in Runs /\ stage[r] = "running"
InboxFits ==
    /\ inbox \cup steerMirror \subseteq Steers
    /\ inbox \cap steerMirror = {}
    /\ \A i \in inbox : MeantFor(i, target[i])
    /\ half # None => half \in inbox \cap Said

(* A drive has picked the oldest input, and whatever arrived before it is   *)
(* settled for ever.  A relay that drives holds the lock.                   *)
First(i) == \A j \in Arrived : Place(j) < Place(i) => ~Open(j)
Waits(d, i) == driver[d].pc = "waiting" /\ driver[d].input = i
DrivesFit ==
    \A d \in Drivers :
        /\ driver[d].pc \in {"picked", "waiting"} =>
             driver[d].input \in Arrived /\ First(driver[d].input)
        /\ driver[d].pc = "waiting" =>
             /\ driver[d].run \in Runs
             /\ input[driver[d].run] = driver[d].input
             /\ ~MeantFor(driver[d].input, target[driver[d].input])
        /\ d \in Runs /\ driver[d].pc \in {"driving", "picked", "waiting"} =>
             driveLock = d /\ stage[d] = "relaying"
GivenFirst == \A k \in DOMAIN given : given[k] \in Arrived /\ First(given[k])

(* An input is said once, and until it is said its run is about to: unless  *)
(* the history knows a reason.  While it still counts as undelivered, the   *)
(* drive or the injection that will settle it is under way.                 *)
Promised(i) == \E r \in Runs : stage[r] = "created" /\ input[r] = i
SaidOnce(i) ==
    /\ \A j, k \in DOMAIN said : said[j].input = i /\ said[k].input = i => j = k
    /\ Promised(i) => i \notin Said
    /\ i \in Undelivered /\ (i \in Said \/ Promised(i)) =>
         half = i \/ \E d \in Drivers : Waits(d, i)
TwiceIsExplained == \A i \in Inputs : i \notin unrecorded \cup stale => SaidOnce(i)

(* What is settled unsaid was cut short.                                    *)
SettledIsSaid == \A i \in settled \ (withdrawn \cup Said) : CutShort(i)

QueueInv ==
    /\ TypeOK /\ ArrivesOnce /\ SendersFresh /\ OnlyArrived /\ TargetBegun /\ RunsSpeak
    /\ MirrorAgrees /\ InboxFits /\ DrivesFit /\ GivenFirst /\ RelayedInOrder
    /\ TwiceIsExplained /\ SettledIsSaid

-----------------------------------------------------------------------------
(* The order of arrival                                                     *)

LEMMA LeastNumber ==
  ASSUME NEW S \in SUBSET Nat, S # {}
  PROVE  \E n \in S : \A m \in S : n <= m
<1>1. IsWellFoundedOn(OpToRel(<, Nat), Nat)
  BY NatLessThanWellFounded
<1>2. PICK n \in S : \A m \in S : ~(<<m, n>> \in OpToRel(<, Nat))
  BY <1>1, WFMin
<1>3. \A m \in S : ~(m < n)
  BY <1>2 DEF OpToRel
<1>. QED  BY <1>3

(* The place of an input in a sequence, to speak of it before and after a   *)
(* step.                                                                    *)
PlaceIn(s, i) == CHOOSE k \in DOMAIN s : s[k] = i

LEMMA PlaceFound ==
  ASSUME NEW s \in Seq(Inputs), NEW i \in Range(s)
  PROVE  PlaceIn(s, i) \in 1 .. Len(s) /\ s[PlaceIn(s, i)] = i
<1>1. \E k \in DOMAIN s : s[k] = i
  BY DEF Range
<1>. QED  BY <1>1 DEF PlaceIn

LEMMA PlacesInOrder ==
  \A i : Place(i) = PlaceIn(arrivals, i) /\ Place(i)' = PlaceIn(arrivals', i)
  BY DEF Place, PlaceIn

LEMMA PlaceIsNumber ==
  ASSUME arrivals \in Seq(Inputs), NEW i \in Arrived
  PROVE  Place(i) \in Nat
<1>1. PlaceIn(arrivals, i) \in 1 .. Len(arrivals) /\ Len(arrivals) \in Nat
  BY PlaceFound DEF Arrived
<1>. QED  BY <1>1, PlacesInOrder

LEMMA OldestFound ==
  ASSUME arrivals \in Seq(Inputs), NEW S \in SUBSET Arrived, S # {}
  PROVE  Oldest(S) \in S /\ \A j \in S : Place(Oldest(S)) <= Place(j)
<1>1. {Place(i) : i \in S} \in SUBSET Nat /\ {Place(i) : i \in S} # {}
  BY PlaceIsNumber
<1>2. PICK n \in {Place(i) : i \in S} : \A m \in {Place(i) : i \in S} : n <= m
  BY <1>1, LeastNumber
<1>3. \E i \in S : \A j \in S : Place(i) <= Place(j)
  BY <1>2
<1>. QED  BY <1>3 DEF Oldest

(* A new arrival comes last and moves nobody.                               *)
LEMMA ArrivalIsLast ==
  ASSUME arrivals \in Seq(Inputs), ArrivesOnce, NEW x \in Inputs \ Arrived,
         arrivals' = Append(arrivals, x)
  PROVE  /\ arrivals' \in Seq(Inputs) /\ ArrivesOnce'
         /\ Arrived' = Arrived \cup {x}
         /\ \A i \in Arrived : Place(i)' = Place(i) /\ Place(i) < Place(x)'
<1>1. /\ Len(arrivals) \in Nat /\ DOMAIN arrivals = 1 .. Len(arrivals)
      /\ arrivals' \in Seq(Inputs) /\ DOMAIN arrivals' = 1 .. Len(arrivals) + 1
      /\ arrivals'[Len(arrivals) + 1] = x
      /\ \A k \in DOMAIN arrivals : arrivals'[k] = arrivals[k] /\ arrivals'[k] # x
  BY DEF Arrived, Range
<1>2. ArrivesOnce'
  BY <1>1 DEF ArrivesOnce
<1>3. Range(arrivals') = Range(arrivals) \cup {x}
  <2>1. \A k \in 1 .. Len(arrivals) + 1 : k \in 1 .. Len(arrivals) \/ k = Len(arrivals) + 1
    BY <1>1
  <2>. QED  BY <1>1, <2>1 DEF Range
<1>4. ASSUME NEW i \in Arrived
      PROVE  PlaceIn(arrivals', i) = PlaceIn(arrivals, i)
  <2>1. PlaceIn(arrivals, i) \in DOMAIN arrivals /\ arrivals[PlaceIn(arrivals, i)] = i
    BY PlaceFound DEF Arrived
  <2>2. PlaceIn(arrivals', i) \in DOMAIN arrivals' /\ arrivals'[PlaceIn(arrivals', i)] = i
    <3>1. arrivals' \in Seq(Inputs) /\ i \in Range(arrivals')
      BY <1>1, <1>3 DEF Arrived
    <3>2. PlaceIn(arrivals', i) \in 1 .. Len(arrivals') /\ arrivals'[PlaceIn(arrivals', i)] = i
      BY <3>1, PlaceFound
    <3>. QED  BY <3>1, <3>2
  <2>. QED  BY <1>1, <1>2, <2>1, <2>2 DEF ArrivesOnce
<1>5. PlaceIn(arrivals', x) = Len(arrivals) + 1
  <2>1. PlaceIn(arrivals', x) \in DOMAIN arrivals' /\ arrivals'[PlaceIn(arrivals', x)] = x
    <3>1. arrivals' \in Seq(Inputs) /\ x \in Range(arrivals')
      BY <1>1, <1>3
    <3>2. PlaceIn(arrivals', x) \in 1 .. Len(arrivals') /\ arrivals'[PlaceIn(arrivals', x)] = x
      BY <3>1, PlaceFound
    <3>. QED  BY <3>1, <3>2
  <2>. QED  BY <1>1, <2>1
<1>6. \A i \in Arrived : PlaceIn(arrivals, i) \in 1 .. Len(arrivals)
  BY PlaceFound DEF Arrived
<1>. QED  BY <1>1, <1>2, <1>3, <1>4, <1>5, <1>6, PlacesInOrder DEF Arrived

-----------------------------------------------------------------------------
(* What steps have in common                                                *)

(* A run in its body is the one in flight.                                  *)
LEMMA InBody ==
  ASSUME RunsInv, NEW r \in Runs, stage[r] \in {"created", "spoken", "running"}
  PROVE  r = current /\ GetActive = r
  BY RunsAreNumbers
     DEF RunsInv, Unended, OneInFlight, InFlight, Working, Terminal, Facts, GetActive

(* What is settled stays so, and nothing that was launched before it counts *)
(* less.                                                                    *)
LEMMA GivenKept ==
  ASSUME GivenFirst, RelayedInOrder, UNCHANGED <<arrivals, given>>,
         withdrawn \subseteq withdrawn', settled \subseteq settled', stale \subseteq stale'
  PROVE  GivenFirst' /\ RelayedInOrder'
<1>1. \A i : Place(i)' = Place(i)
  BY PlacesInOrder
<1>2. \A i : First(i) => First(i)'
  BY <1>1 DEF First, Open, Arrived
<1>. QED
  BY <1>1, <1>2 DEF GivenFirst, RelayedInOrder, Arrived

(* Runs go on: none is launched and none goes back.                         *)
RunsGoOn ==
    \A r \in Runs :
        /\ stage'[r] = "none" <=> stage[r] = "none"
        /\ stage'[r] = "created" => stage[r] = "created"
        /\ stage'[r] = "spoken" => stage[r] = "spoken"
        /\ stage'[r] = "running" => stage[r] \in {"spoken", "running"}
        /\ stage[r] \notin {"none", "created", "spoken"}
             => stage'[r] \notin {"none", "created", "spoken"}
        /\ ended'[r] \in Facts \cup {"paused"}
             => ended[r] \in Facts \cup {"paused"} \/ stage[r] = "running"
        /\ NeverBegun(r) => NeverBegun(r)'

LEMMA CutShortStays ==
  ASSUME UNCHANGED input, RunsGoOn
  PROVE  \A i : CutShort(i) => CutShort(i)'
  BY DEF CutShort, RunsGoOn

LEMMA SpeakersStay ==
  ASSUME RunsSpeak, UNCHANGED input, RunsGoOn, Said \subseteq Said'
  PROVE  RunsSpeak'
  BY DEF RunsSpeak, RunsGoOn

LEMMA TargetsStay ==
  ASSUME TargetBegun, UNCHANGED <<arrivals, target>>, RunsGoOn
  PROVE  TargetBegun'
  BY DEF TargetBegun, RunsGoOn, Arrived

(* A run to which a steer that arrived is meant does not begin any more.    *)
LEMMA MeantBefore ==
  ASSUME TargetBegun, UNCHANGED target, RunsGoOn, NEW i \in Inputs, NEW r
  PROVE  MeantFor(i, r)' => MeantFor(i, r)
  BY DEF TargetBegun, RunsGoOn, MeantFor, NoRun, Runs

(* The drives when runs go on.                                              *)
RelaysStay == \A r \in Runs : stage[r] = "relaying" => stage'[r] = "relaying"

LEMMA DrivesStay ==
  ASSUME DrivesFit, TypeOK, TargetBegun, RunsGoOn, RelaysStay,
         UNCHANGED <<arrivals, target, input, driver, driveLock>>,
         withdrawn \subseteq withdrawn', settled \subseteq settled'
  PROVE  DrivesFit'
<1>1. \A i : First(i) => First(i)'
  <2>1. \A i : Place(i)' = Place(i)
    BY PlacesInOrder
  <2>. QED  BY <2>1 DEF First, Open, Arrived
<1>2. ASSUME NEW i \in Arrived
      PROVE  MeantFor(i, target[i])' => MeantFor(i, target[i])
  <2>1. i \in Inputs
    BY DEF TypeOK, QueueTypeOK, Arrived, Range
  <2>2. MeantFor(i, target[i])' => MeantFor(i, target'[i])
    BY <2>1, MeantBefore DEF MeantFor
  <2>. QED  BY <2>2
<1>. QED
  BY <1>1, <1>2 DEF DrivesFit, RelaysStay, Arrived

LEMMA SendersStay ==
  ASSUME SendersFresh, UNCHANGED <<arrivals, input, sending, seen>>, Said' = Said
  PROVE  SendersFresh'
  BY DEF SendersFresh, Unknown, Arrived

(* Nobody has said more, and who was about to say it still is.              *)
LEMMA SaidOnceStays ==
  ASSUME RunsGoOn, UNCHANGED <<arrivals, said, input>>,
         withdrawn \subseteq withdrawn', settled \subseteq settled',
         NEW i, SaidOnce(i),
         i \in Undelivered' => /\ half = i => half' = i
                               /\ \A d \in Drivers : Waits(d, i) => Waits(d, i)'
  PROVE  SaidOnce(i)'
<1>1. Said' = Said
  BY DEF Said
<1>2. i \in Undelivered' => i \in Undelivered
  BY DEF Undelivered, Open, Arrived
<1>3. Promised(i)' => Promised(i)
  BY DEF Promised, RunsGoOn
<1>. QED
  BY <1>1, <1>2, <1>3 DEF SaidOnce

-----------------------------------------------------------------------------
(* The steps that run the tasks, and what they do to the inputs             *)

(* The run that has drained steers may leave them behind.                   *)
InboxLeft ==
    \/ UNCHANGED <<inbox, half, unrecorded>>
    \/ inbox' = {} /\ half' = None /\ unrecorded' = unrecorded \cup ({half} \ {None})

RunOnly ==
    /\ UNCHANGED <<queueVars, input, sending, seen, driver, driveLock, stale, given>>
    /\ InboxLeft /\ RunsGoOn /\ RelaysStay
    /\ \A r \in Runs : stage[r] = "running" /\ stage'[r] # "running" => inbox' = {}

LEMMA RunOnlyKeeps ==
  ASSUME QueueInv, RunOnly, TypeOK'
  PROVE  QueueInv'
<1>. USE DEF QueueInv, RunOnly, queueVars, streamVars, mirrorVars
<1>1. Said' = Said /\ Arrived' = Arrived /\ Undelivered' = Undelivered
  BY DEF Said, Arrived, Undelivered, Open
<1>2. ArrivesOnce' /\ OnlyArrived'
  BY <1>1 DEF ArrivesOnce, OnlyArrived
<1>3. SendersFresh' /\ TargetBegun' /\ RunsSpeak' /\ DrivesFit'
  BY <1>1, SendersStay, TargetsStay, SpeakersStay, DrivesStay
<1>4. MirrorAgrees'
  BY <1>1 DEF MirrorAgrees, InboxLeft
<1>5. InboxFits'
  <2>1. CASE inbox' = {} /\ half' = None
    BY <2>1 DEF InboxFits
  <2>2. CASE UNCHANGED <<inbox, half>> /\ inbox' # {}
    <3>1. \A r \in Runs : stage[r] = "running" => stage'[r] = "running"
      BY <2>2
    <3>. QED  BY <1>1, <2>2, <3>1 DEF InboxFits, MeantFor
  <2>3. CASE UNCHANGED <<inbox, half>> /\ inbox' = {}
    BY <2>3 DEF InboxFits
  <2>. QED  BY <2>1, <2>2, <2>3 DEF InboxLeft
<1>6. GivenFirst' /\ RelayedInOrder'
  BY GivenKept
<1>7. TwiceIsExplained'
  <2>. SUFFICES ASSUME NEW i \in Inputs, i \notin unrecorded' \cup stale'
                PROVE  SaidOnce(i)'
    BY DEF TwiceIsExplained
  <2>1. SaidOnce(i) /\ i # None
    BY DeliveryAssumption DEF TwiceIsExplained, InboxLeft
  <2>2. half = i => half' = i
    BY <2>1 DEF InboxLeft
  <2>3. \A d \in Drivers : Waits(d, i) => Waits(d, i)'
    BY DEF Waits
  <2>. QED  BY <2>1, <2>2, <2>3, SaidOnceStays
<1>8. SettledIsSaid'
  BY <1>1, CutShortStays DEF SettledIsSaid
<1>. QED  BY <1>2, <1>3, <1>4, <1>5, <1>6, <1>7, <1>8

(* The steps of a run that leave the inputs alone.                          *)
RunStep(r) == Begin(r) \/ EndStep(r) \/ CancelRun(r)

LEMMA RunStepIsRunOnly ==
  ASSUME QueueInv, RunsInv, NEW r \in Runs,
         RunStep(r) \/ \E w \in Watchers : Connect(r, w) \/ Disconnect(r, w)
  PROVE  RunOnly
<1>. USE DEF RunsInv, RunsTypeOK, queueVars, streamVars, mirrorVars, serviceVars,
             historyVars, boundVars, RunOnly
<1>1. CASE Begin(r)
  <2>1. RunsGoOn
    BY <1>1 DEF Begin, Advance, RunsGoOn, NeverBegun
  <2>2. RelaysStay
    BY <1>1 DEF Begin, Advance, RelaysStay
  <2>3. \A s \in Runs : stage[s] = "running" => stage'[s] = "running"
    BY <1>1 DEF Begin, Advance
  <2>. QED  BY <1>1, <2>1, <2>2, <2>3 DEF Begin, Advance, InboxLeft
<1>2. CASE EndRun(r)
  <2>1. RunsGoOn
    BY <1>2 DEF EndRun, EndBody, RunsGoOn, NeverBegun, Unended, Facts
  <2>2. RelaysStay
    BY <1>2 DEF EndRun, EndBody, RelaysStay
  <2>. QED  BY <1>2, <2>1, <2>2 DEF EndRun, EndBody, InboxLeft
<1>3. CASE FailEarly(r)
  <2>1. RunsGoOn
    BY <1>3 DEF FailEarly, EndEarly, RunsGoOn, NeverBegun, Unended, Facts
  <2>2. RelaysStay
    BY <1>3 DEF FailEarly, EndEarly, RelaysStay
  <2>3. \A s \in Runs : stage[s] = "running" => stage'[s] = "running"
    BY <1>3 DEF FailEarly, EndEarly
  <2>. QED  BY <1>3, <2>1, <2>2, <2>3 DEF FailEarly, EndEarly, InboxLeft
<1>4. CASE WindUp(r)
  <2>1. RunsGoOn
    BY <1>4 DEF WindUp, CancelArm, CancelReason, RunsGoOn, NeverBegun, Unended, Facts
  <2>2. RelaysStay
    BY <1>4 DEF WindUp, CancelArm, RelaysStay
  <2>. QED  BY <1>4, <2>1, <2>2 DEF WindUp, CancelArm, InboxLeft
<1>5. CASE FinishRun(r)
  <2>1. RunsGoOn
    BY <1>5 DEF FinishRun, Finish, RunsGoOn, NeverBegun
  <2>2. RelaysStay
    BY <1>5 DEF FinishRun, Finish, RelaysStay
  <2>3. \A s \in Runs : stage[s] = "running" => stage'[s] = "running"
    BY <1>5 DEF FinishRun, Finish
  <2>. QED  BY <1>5, <2>1, <2>2, <2>3 DEF FinishRun, Finish, InboxLeft
<1>6. CASE UNCHANGED <<stage, ended>>
           /\ \/ ReapRun(r) \/ CancelRun(r)
              \/ \E w \in Watchers : Connect(r, w) \/ Disconnect(r, w)
  <2>1. RunsGoOn /\ RelaysStay
    BY <1>6 DEF RunsGoOn, RelaysStay, NeverBegun
  <2>. QED
    BY <1>6, <2>1 DEF ReapRun, CancelRun, Connect, Disconnect, InboxLeft
<1>. QED
  BY <1>1, <1>2, <1>3, <1>4, <1>5, <1>6
     DEF RunStep, EndStep, ReapRun, Reap, CancelRun, Cancel, Connect, Subscribe,
         Disconnect, Unsubscribe

-----------------------------------------------------------------------------
(* Types                                                                    *)

Typed == QueueInv /\ RunsInv /\ RunsTypeOK'

DriverStates ==
    [pc : {"idle", "driving", "picked", "waiting", "over"},
     input : Inputs \cup {None}, run : Runs \cup {NoRun}]

LEMMA ArrivedAreInputs ==
  ASSUME QueueInv
  PROVE  /\ arrivals \in Seq(Inputs) /\ Arrived \subseteq Inputs
         /\ Undelivered \subseteq Arrived /\ inbox \subseteq Arrived
         /\ None \notin Inputs
  BY DeliveryAssumption
     DEF QueueInv, TypeOK, QueueTypeOK, Arrived, Range, Undelivered, MirrorAgrees

LEMMA SendTyped ==
  ASSUME Typed, NEW i \in Inputs, Look(i) \/ SendStep(i) \/ Withdraw(i)
  PROVE  TypeOK'
<1>. USE DEF Typed, QueueInv
<1>1. /\ TypeOK /\ RunsTypeOK'
      /\ UNCHANGED <<inbox, half, driver, driveLock, boundVars, unrecorded, stale, given>>
  BY DEF Look, SendStep, SendQueued, SendIdle, SendSteer, RegisterWaiting, Withdraw,
     serviceVars, historyVars
<1>2. sending' \in [Inputs -> Sendings]
  BY <1>1 DEF TypeOK, Look, SendStep, SendQueued, SendIdle, SendSteer, RegisterWaiting,
     Withdraw, serviceVars, Sendings
<1>3. seen' \in [Inputs -> Runs \cup {NoRun}]
  <2>1. GetActive \in Runs \cup {NoRun}
    BY DEF RunsInv, RunsTypeOK, GetActive
  <2>. QED
    BY <1>1, <2>1 DEF TypeOK, Look, SendStep, SendQueued, SendIdle, SendSteer,
       RegisterWaiting, Withdraw, serviceVars
<1>4. input' \in [Runs -> Inputs \cup {None}]
  BY <1>1 DEF TypeOK, Look, SendStep, SendQueued, SendIdle, SendSteer, RegisterWaiting,
     Withdraw, serviceVars, Launch
<1>5. late' \subseteq Inputs
  BY <1>1 DEF TypeOK, Look, SendStep, SendQueued, SendIdle, SendSteer, RegisterWaiting,
     Withdraw, historyVars, Late
<1>6. QueueTypeOK'
  <2>1. QueueTypeOK
    BY <1>1 DEF TypeOK
  <2>2. Append(arrivals, i) \in Seq(Inputs)
    BY <2>1 DEF QueueTypeOK
  <2>3. CASE UNCHANGED queueVars
    BY <2>1, <2>3 DEF QueueTypeOK, queueVars, streamVars, mirrorVars
  <2>4. CASE Enqueue(i) \/ Withdraw(i)
    BY <2>1, <2>2, <2>4 DEF QueueTypeOK, Enqueue, Withdraw, CancelQueued
  <2>5. CASE RegisterWaiting(i)
    <3>1. seen[i] \in Nat /\ NoRun \in Nat
      BY <2>5, RunsAssumption DEF RegisterWaiting, SendersFresh, Runs, NoRun
    <3>. QED  BY <2>1, <2>2, <2>5, <3>1 DEF QueueTypeOK, RegisterWaiting, RegisterSteer
  <2>. QED
    BY <2>3, <2>4, <2>5 DEF Look, SendStep, SendQueued, SendIdle, SendSteer
<1>. QED
  BY <1>1, <1>2, <1>3, <1>4, <1>5, <1>6 DEF TypeOK, boundVars

LEMMA RunTyped ==
  ASSUME Typed, NEW r \in Runs,
         \/ BodyStep(r) \/ EndStep(r) \/ CancelRun(r)
         \/ \E w \in Watchers : Connect(r, w) \/ Disconnect(r, w)
  PROVE  TypeOK'
<1>. USE ArrivedAreInputs
<1>. USE DEF Typed, QueueInv, TypeOK, QueueTypeOK, queueVars, streamVars, mirrorVars,
             serviceVars, historyVars, boundVars
<1>1. CASE Begin(r) \/ EndRun(r) \/ FailEarly(r) \/ FinishRun(r) \/ ReapRun(r)
  BY <1>1 DEF Begin, EndRun, FailEarly, FinishRun, ReapRun
<1>2. CASE CancelRun(r) \/ \E w \in Watchers : Connect(r, w) \/ Disconnect(r, w)
  BY <1>2, DeliveryAssumption DEF CancelRun, Connect, Disconnect
<1>3. CASE WindUp(r)
  BY <1>3 DEF WindUp
<1>4. CASE Speak(r)
  <2>1. input[r] \in Inputs
    BY <1>4 DEF Speak, Advance, RunsSpeak
  <2>2. r \in Nat
    BY RunsAssumption DEF Runs
  <2>. QED  BY <1>4, <2>1, <2>2 DEF Speak, SayInput
<1>5. CASE Drain(r)
  BY <1>5 DEF Drain
<1>6. CASE InjectSay(r)
  <2>1. Oldest(inbox) \in Inputs
    BY <1>6, OldestFound DEF InjectSay
  <2>2. r \in Nat
    BY RunsAssumption DEF Runs
  <2>. QED  BY <1>6, <2>1, <2>2 DEF InjectSay, SayInput
<1>7. CASE InjectSettle(r)
  BY <1>7 DEF InjectSettle
<1>. QED
  BY <1>1, <1>2, <1>3, <1>4, <1>5, <1>6, <1>7 DEF BodyStep, EndStep

LEMMA DriveTyped ==
  ASSUME Typed, NEW d \in Drivers,
         \/ d \in Runs /\ RelayEnter(d)
         \/ d \in Flushers /\ FlushEnter(d)
         \/ DriveStep(d)
  PROVE  TypeOK'
<1>. USE ArrivedAreInputs, RunsAreNumbers
<1>. USE DEF Typed, QueueInv, TypeOK, QueueTypeOK, queueVars, streamVars, mirrorVars,
             serviceVars, historyVars, boundVars, DriverStates
<1>1. Leave(d) => driver' \in [Drivers -> DriverStates]
                  /\ driveLock' \in Runs \cup {NoRun}
  BY DEF Leave, Set
<1>2. \A pc \in {"driving", "picked", "waiting"}, i \in Inputs \cup {None}, r \in Runs \cup {NoRun} :
        Set(d, pc, i, r) => driver' \in [Drivers -> DriverStates]
  BY DEF Set
<1>3. CASE d \in Runs /\ RelayEnter(d)
  BY <1>1, <1>2, <1>3 DEF RelayEnter
<1>4. CASE d \in Flushers /\ FlushEnter(d)
  BY <1>2, <1>4 DEF FlushEnter
<1>5. CASE Pick(d)
  <2>1. Undelivered # {} => Oldest(Undelivered) \in Inputs
    BY OldestFound
  <2>. QED  BY <1>1, <1>2, <1>5, <2>1 DEF Pick
<1>6. CASE DriveLaunch(d)
  <2>1. driver[d].input \in Inputs
    BY <1>6 DEF DriveLaunch, DrivesFit
  <2>2. Launch(driver[d].input, Watcher(d)) => NextRun \in Runs
    BY NextRunIsUnused DEF Launch
  <2>3. CASE Leave(d)
    BY <1>1, <1>6, <2>3 DEF DriveLaunch, Leave, Launch, Set
  <2>4. CASE Launch(driver[d].input, Watcher(d))
    <3>1. input' \in [Runs -> Inputs \cup {None}]
      BY <2>1, <2>4 DEF Launch
    <3>2. Append(given, driver[d].input) \in Seq(Inputs)
      BY <2>1
    <3>3. stale' \subseteq Inputs /\ given' \in Seq(Inputs)
      BY <1>6, <2>1, <3>2 DEF DriveLaunch
    <3>4. /\ Leave(d) \/ Set(d, "waiting", driver[d].input, NextRun)
          /\ Leave(d) \/ driveLock' = driveLock
          /\ UNCHANGED <<queueVars, inbox, half, sending, seen, boundVars, unrecorded, late>>
      BY <1>6 DEF DriveLaunch
    <3>5. /\ driver' \in [Drivers -> DriverStates]
          /\ driveLock' \in Runs \cup {NoRun}
      BY <1>1, <1>2, <2>1, <2>2, <2>4, <3>4
    <3>. QED  BY <3>1, <3>3, <3>4, <3>5
  <2>. QED  BY <1>6, <2>3, <2>4 DEF DriveLaunch
<1>7. CASE Record(d)
  BY <1>1, <1>7 DEF Record, Consume, DrivesFit
<1>. QED
  BY <1>3, <1>4, <1>5, <1>6, <1>7 DEF DriveStep

LEMMA CrashTyped ==
  ASSUME Typed, CrashRestart
  PROVE  TypeOK'
<1>. USE DEF Typed, QueueInv
<1>1. TypeOK /\ RunsTypeOK'
  OBVIOUS
<1>2. driver' \in [Drivers -> DriverStates]
  BY DEF CrashRestart, Idle, Over, DriverStates
<1>3. sending' \in [Inputs -> Sendings]
  BY <1>1 DEF CrashRestart, TypeOK, Sendings
<1>4. QueueTypeOK'
  BY <1>1, ArrivedAreInputs
     DEF CrashRestart, TypeOK, QueueTypeOK, RebuildMirror, streamVars
<1>5. unrecorded' \subseteq Inputs /\ crashes' \in 0 .. MaxCrashes
  BY <1>1, ArrivedAreInputs, DeliveryAssumption DEF CrashRestart, TypeOK
<1>. QED
  BY <1>1, <1>2, <1>3, <1>4, <1>5 DEF CrashRestart, TypeOK, DriverStates

-----------------------------------------------------------------------------
(* Sending                                                                  *)

(* An input arrives: in the stream, in its mirror and nowhere else.         *)
Arrives(i) ==
    /\ sending[i] \in {"idle", "looked", "waiting"}
    /\ arrivals' = Append(arrivals, i)
    /\ sending' = [sending EXCEPT ![i] = "sent"]
    /\ \/ i \in Messages /\ queueMirror' = queueMirror \cup {i} /\ UNCHANGED <<steerMirror, target>>
       \/ /\ i \in Steers /\ steerMirror' = steerMirror \cup {i} /\ UNCHANGED queueMirror
          /\ \E r \in Runs \cup {NoRun} :
               target' = [target EXCEPT ![i] = r] /\ (r # NoRun => Begun(r))
    /\ UNCHANGED <<withdrawn, settled, said, runVars, input, inbox, half, seen, driver,
                   driveLock, unrecorded, stale, given>>

LEMMA PlacesAfterArrival ==
  ASSUME QueueInv, NEW i \in Inputs, Arrives(i)
  PROVE  /\ i \notin Arrived /\ i \notin Said /\ \A r \in Runs : input[r] # i
         /\ ArrivesOnce' /\ Arrived' = Arrived \cup {i} /\ Said' = Said
         /\ Undelivered' = Undelivered \cup {i}
         /\ \A j \in Arrived : Place(j)' = Place(j) /\ Place(j) < Place(i)'
         /\ \A j \in Arrived : First(j) => First(j)'
<1>1. i \notin Arrived /\ i \notin Said /\ \A r \in Runs : input[r] # i
  BY DEF QueueInv, SendersFresh, Unknown, Arrives
<1>2. /\ ArrivesOnce' /\ Arrived' = Arrived \cup {i}
      /\ \A j \in Arrived : Place(j)' = Place(j) /\ Place(j) < Place(i)'
  BY <1>1, ArrivalIsLast DEF QueueInv, TypeOK, QueueTypeOK, Arrives
<1>3. Said' = Said
  BY DEF Arrives, Said
<1>4. Undelivered' = Undelivered \cup {i}
  BY <1>1, <1>2 DEF Undelivered, Open, QueueInv, OnlyArrived, Arrives
<1>5. ASSUME NEW j \in Arrived, First(j)
      PROVE  First(j)'
  <2>. SUFFICES ASSUME NEW k \in Arrived', Place(k)' < Place(j)'
                PROVE  ~Open(k)'
    BY DEF First
  <2>1. Place(k)' \in Nat /\ Place(j)' \in Nat
    <3>1. arrivals' \in Seq(Inputs) /\ k \in Range(arrivals') /\ j \in Range(arrivals')
      BY <1>1, <1>2, ArrivalIsLast DEF Arrived, QueueInv, TypeOK, QueueTypeOK, Arrives
    <3>2. PlaceIn(arrivals', k) \in Nat /\ PlaceIn(arrivals', j) \in Nat
      BY <3>1, PlaceFound
    <3>. QED  BY <3>2, PlacesInOrder
  <2>2. k # i
    BY <1>2, <2>1
  <2>. QED  BY <1>2, <1>5, <2>2 DEF First, Open, Arrives
<1>. QED  BY <1>1, <1>2, <1>3, <1>4, <1>5

LEMMA ArriveKeeps ==
  ASSUME QueueInv, RunsInv, NEW i \in Inputs, Arrives(i), TypeOK'
  PROVE  QueueInv'
<1>1. /\ i \notin Arrived /\ i \notin Said /\ \A r \in Runs : input[r] # i
      /\ ArrivesOnce' /\ Arrived' = Arrived \cup {i} /\ Said' = Said
      /\ Undelivered' = Undelivered \cup {i}
      /\ \A j \in Arrived : Place(j)' = Place(j)
      /\ \A j \in Arrived : First(j) => First(j)'
  BY PlacesAfterArrival
<1>. USE DEF QueueInv
<1>2. SendersFresh'
  BY <1>1 DEF SendersFresh, Unknown, Arrives, TypeOK
<1>3. OnlyArrived' /\ RunsSpeak'
  BY <1>1 DEF OnlyArrived, RunsSpeak, Arrives, runVars
<1>4. /\ stage' = stage /\ \A j \in Inputs \ {i} : target'[j] = target[j]
      /\ target'[i] # NoRun => i \in Steers /\ target'[i] \in Runs /\ Begun(target'[i])
  <2>1. target \in [Inputs -> Nat]
    BY DEF TypeOK, QueueTypeOK
  <2>2. i \in Messages => target[i] = NoRun
    BY DeliveryAssumption DEF TargetBegun
  <2>. QED  BY <2>1, <2>2 DEF Arrives, runVars
<1>5. TargetBegun'
  <2>1. target'[i] # NoRun => stage[target'[i]] \notin {"none", "created", "spoken"}
    BY <1>4 DEF Begun, RunsInv, Unended, Facts
  <2>. QED  BY <1>1, <1>4, <2>1 DEF TargetBegun
<1>6. MirrorAgrees'
  BY <1>1, DeliveryAssumption DEF MirrorAgrees, Arrives
<1>7. InboxFits'
  <2>1. i \notin inbox
    BY <1>1, ArrivedAreInputs
  <2>2. inbox \subseteq Inputs
    BY ArrivedAreInputs
  <2>. QED  BY <1>1, <1>4, <2>1, <2>2 DEF InboxFits, MeantFor, Arrives
<1>8. DrivesFit'
  <2>1. \A j \in Arrived : j \in Inputs \ {i}
    BY <1>1, ArrivedAreInputs
  <2>2. \A j \in Arrived : MeantFor(j, target[j])' = MeantFor(j, target[j])
    BY <1>4, <2>1 DEF MeantFor
  <2>. QED  BY <1>1, <1>4, <2>2 DEF DrivesFit, Arrives
<1>9. GivenFirst' /\ RelayedInOrder'
  BY <1>1 DEF GivenFirst, RelayedInOrder, Arrives
<1>10. TwiceIsExplained'
  <2>. SUFFICES ASSUME NEW j \in Inputs, j \notin unrecorded \cup stale
                PROVE  SaidOnce(j)'
    BY DEF TwiceIsExplained, Arrives
  <2>1. SaidOnce(j) /\ Promised(j)' = Promised(j)
    BY DEF TwiceIsExplained, Promised, Arrives, runVars
  <2>2. j \in Undelivered' /\ (j \in Said \/ Promised(j)) => j \in Undelivered
    BY <1>1 DEF Promised
  <2>3. \A d \in Drivers : Waits(d, j) => Waits(d, j)'
    BY DEF Waits, Arrives
  <2>. QED  BY <1>1, <2>1, <2>2, <2>3 DEF SaidOnce, Arrives
<1>11. SettledIsSaid'
  BY <1>1 DEF SettledIsSaid, CutShort, NeverBegun, Arrives, runVars
<1>. QED
  BY <1>1, <1>2, <1>3, <1>5, <1>6, <1>7, <1>8, <1>9, <1>10, <1>11

(* A run is launched with i.                                                *)
Launched(n, i) ==
    /\ n \in Runs /\ stage[n] = "none" /\ ended[n] = "open" /\ input[n] = None
    /\ stage'[n] = "created" /\ input'[n] = i
    /\ \A r \in Runs \ {n} : stage'[r] = stage[r] /\ input'[r] = input[r]
    /\ ended' = ended
    /\ \A r \in Runs : stage[r] \notin {"created", "spoken", "running"}
    /\ inbox = {} /\ half = None

LEMMA LaunchFacts ==
  ASSUME QueueInv, RunsInv, NEW i \in Inputs, NEW w, Launch(i, w)
  PROVE  Launched(NextRun, i)
<1>1. /\ NextRun \in Runs /\ stage[NextRun] = "none" /\ ended[NextRun] = "open"
      /\ input[NextRun] = None
  BY NextRunIsUnused DEF Launch, RunsInv, Unended, QueueInv, RunsSpeak
<1>2. \A r \in Runs : stage[r] \notin {"created", "spoken", "running"}
  BY InBody, RunsAreNumbers DEF Launch, MayLaunch
<1>3. inbox = {} /\ half = None
  BY <1>2 DEF QueueInv, InboxFits, MeantFor
<1>4. /\ stage \in [Runs -> Stages] /\ input \in [Runs -> Inputs \cup {None}]
      /\ stage' = [stage EXCEPT ![NextRun] = "created"]
      /\ input' = [input EXCEPT ![NextRun] = i]
      /\ ended' = ended
  BY DEF Launch, LaunchRun, RunsInv, RunsTypeOK, QueueInv, TypeOK
<1>. QED
  BY <1>1, <1>2, <1>3, <1>4 DEF Launched

(* What does not depend on who has launched it.                             *)
LEMMA LaunchKeepsRuns ==
  ASSUME QueueInv, NEW i \in Inputs, NEW n, Launched(n, i),
         UNCHANGED <<queueVars, inbox, half>>
  PROVE  /\ ArrivesOnce' /\ OnlyArrived' /\ TargetBegun' /\ RunsSpeak' /\ MirrorAgrees'
         /\ InboxFits' /\ SettledIsSaid'
         /\ Said' = Said /\ Arrived' = Arrived /\ Undelivered' = Undelivered
         /\ \A j : First(j) => First(j)'
         /\ \A j \in Inputs : ~Promised(j) /\ (Promised(j)' => j = i)
         /\ \A j \in Inputs : ~MeantFor(j, target[j])'
<1>. USE DEF QueueInv, queueVars, streamVars, mirrorVars
<1>1. i # None
  BY DeliveryAssumption
<1>2. Said' = Said /\ Arrived' = Arrived /\ Undelivered' = Undelivered
  BY DEF Said, Arrived, Undelivered, Open
<1>3. ArrivesOnce' /\ OnlyArrived' /\ MirrorAgrees'
  BY <1>2 DEF ArrivesOnce, OnlyArrived, MirrorAgrees
<1>4. TargetBegun'
  BY <1>2 DEF TargetBegun, Launched
<1>5. RunsSpeak'
  BY <1>1, <1>2 DEF RunsSpeak, Launched, Facts
<1>6. InboxFits'
  BY DEF InboxFits, Launched
<1>7. SettledIsSaid'
  <2>1. ASSUME NEW j \in settled, CutShort(j)
        PROVE  CutShort(j)'
    <3>1. j # None
      BY DeliveryAssumption DEF TypeOK, QueueTypeOK
    <3>2. PICK r \in Runs : input[r] = j /\ NeverBegun(r)
      BY <2>1 DEF CutShort
    <3>. QED  BY <3>1, <3>2 DEF CutShort, NeverBegun, Launched
  <2>. QED  BY <1>2, <2>1 DEF SettledIsSaid
<1>8. \A j : First(j) => First(j)'
  <2>1. \A j : Place(j)' = Place(j)
    BY PlacesInOrder
  <2>. QED  BY <2>1 DEF First, Open, Arrived
<1>9. \A j \in Inputs : ~Promised(j) /\ (Promised(j)' => j = i)
  BY DEF Promised, Launched
<1>10. \A j \in Inputs : ~MeantFor(j, target[j])'
  BY DEF MeantFor, Launched
<1>. QED  BY <1>2, <1>3, <1>4, <1>5, <1>6, <1>7, <1>8, <1>9, <1>10

LEMMA FirstMessageKeeps ==
  ASSUME QueueInv, RunsInv, NEW i \in Inputs, SendIdle(i), Launch(i, i), TypeOK'
  PROVE  QueueInv'
<1>1. Launched(NextRun, i)
  BY LaunchFacts
<1>2. /\ sending[i] \in {"idle", "looked", "waiting"}
      /\ UNCHANGED <<queueVars, inbox, half, seen, driver, driveLock, unrecorded, stale, given>>
      /\ sending' = [sending EXCEPT ![i] = "sent"]
  BY DEF SendIdle, GoesOn, Enqueue, Launch, MayLaunch, ActiveRunConflict
<1>3. i \notin Arrived /\ i \notin Said
  BY <1>2 DEF QueueInv, SendersFresh, Unknown
<1>4. /\ ArrivesOnce' /\ OnlyArrived' /\ TargetBegun' /\ RunsSpeak' /\ MirrorAgrees'
      /\ InboxFits' /\ SettledIsSaid'
      /\ Said' = Said /\ Arrived' = Arrived /\ Undelivered' = Undelivered
      /\ \A j : First(j) => First(j)'
      /\ \A j \in Inputs : ~Promised(j) /\ (Promised(j)' => j = i)
      /\ \A j \in Inputs : ~MeantFor(j, target[j])'
  BY <1>1, <1>2, LaunchKeepsRuns
<1>. USE DEF QueueInv
<1>5. SendersFresh'
  BY <1>1, <1>2, <1>4 DEF SendersFresh, Unknown, TypeOK, Launched
<1>6. DrivesFit'
  <2>. SUFFICES ASSUME NEW d \in Drivers
                PROVE  /\ driver[d].pc \in {"picked", "waiting"} =>
                            driver[d].input \in Arrived' /\ First(driver[d].input)'
                       /\ driver[d].pc = "waiting" =>
                            /\ driver[d].run \in Runs
                            /\ input'[driver[d].run] = driver[d].input
                            /\ ~MeantFor(driver[d].input, target[driver[d].input])'
                       /\ d \in Runs /\ driver[d].pc \in {"driving", "picked", "waiting"} =>
                            driveLock = d /\ stage'[d] = "relaying"
    BY <1>2 DEF DrivesFit, queueVars, streamVars
  <2>1. driver[d].pc \in {"picked", "waiting"} =>
           /\ driver[d].input \in Inputs \ {None} /\ driver[d].input \in Arrived
           /\ First(driver[d].input)
    BY ArrivedAreInputs DEF DrivesFit
  <2>2. driver[d].pc = "waiting" =>
           driver[d].run \in Runs /\ input[driver[d].run] = driver[d].input
    BY DEF DrivesFit
  <2>3. driver[d].pc = "waiting" => driver[d].run \in Runs \ {NextRun}
    BY <1>1, <2>1, <2>2 DEF Launched
  <2>4. d \in Runs /\ driver[d].pc \in {"driving", "picked", "waiting"} =>
           driveLock = d /\ stage[d] = "relaying"
    BY DEF DrivesFit
  <2>5. d \in Runs /\ stage[d] = "relaying" => stage'[d] = "relaying"
    BY <1>1 DEF Launched
  <2>6. driver[d].pc = "waiting" => input'[driver[d].run] = driver[d].input
    BY <1>1, <2>2, <2>3 DEF Launched
  <2>7. driver[d].pc = "waiting" => ~MeantFor(driver[d].input, target[driver[d].input])'
    BY <1>2, <1>4, <2>1
  <2>. QED  BY <1>2, <1>4, <2>1, <2>2, <2>4, <2>5, <2>6, <2>7
<1>7. GivenFirst' /\ RelayedInOrder'
  BY <1>2, GivenKept DEF queueVars, streamVars
<1>8. TwiceIsExplained'
  <2>. SUFFICES ASSUME NEW j \in Inputs, j \notin unrecorded \cup stale
                PROVE  SaidOnce(j)'
    BY <1>2 DEF TwiceIsExplained
  <2>1. SaidOnce(j) /\ \A d \in Drivers : Waits(d, j) => Waits(d, j)'
    BY <1>2 DEF TwiceIsExplained, Waits
  <2>2. i \notin Undelivered
    BY <1>3 DEF Undelivered
  <2>. QED
    BY <1>2, <1>3, <1>4, <2>1, <2>2 DEF SaidOnce, queueVars, streamVars
<1>. QED  BY <1>4, <1>5, <1>6, <1>7, <1>8

(* Looking around, and asking a run for its id.                             *)
LEMMA LookKeeps ==
  ASSUME QueueInv, NEW i \in Inputs, Look(i) \/ SendSteer(i), TypeOK'
  PROVE  QueueInv'
<1>1. /\ UNCHANGED <<runVars, queueVars, input, inbox, half, driver, driveLock, historyVars>>
      /\ sending[i] \in {"idle", "looked"}
      /\ \A j \in Inputs \ {i} : sending'[j] = sending[j] /\ seen'[j] = seen[j]
      /\ sending'[i] = "waiting" => i \in Steers /\ seen'[i] \in Runs
  BY DEF QueueInv, TypeOK, Look, SendSteer, GoesOn
<1>. USE DEF QueueInv, runVars, queueVars, streamVars, mirrorVars, historyVars
<1>2. Said' = Said /\ Arrived' = Arrived /\ Undelivered' = Undelivered
  BY <1>1 DEF Said, Arrived, Undelivered, Open
<1>3. RunsGoOn /\ RelaysStay
  BY <1>1 DEF RunsGoOn, RelaysStay, NeverBegun
<1>4. SendersFresh'
  BY <1>1, <1>2 DEF SendersFresh, Unknown
<1>5. ArrivesOnce' /\ OnlyArrived' /\ MirrorAgrees' /\ InboxFits'
  BY <1>1, <1>2 DEF ArrivesOnce, OnlyArrived, MirrorAgrees, InboxFits, MeantFor
<1>6. TargetBegun' /\ RunsSpeak' /\ DrivesFit' /\ GivenFirst' /\ RelayedInOrder'
  BY <1>1, <1>2, <1>3, TargetsStay, SpeakersStay, DrivesStay, GivenKept
<1>7. TwiceIsExplained'
  <2>1. \A j \in Inputs : SaidOnce(j) => SaidOnce(j)'
    <3>1. \A j, d : Waits(d, j)' = Waits(d, j)
      BY <1>1 DEF Waits
    <3>2. \A j : Promised(j)' = Promised(j)
      BY <1>1 DEF Promised
    <3>. QED  BY <1>1, <1>2, <3>1, <3>2 DEF SaidOnce
  <2>. QED  BY <1>1, <2>1 DEF TwiceIsExplained
<1>8. SettledIsSaid'
  BY <1>1, <1>2, <1>3, CutShortStays DEF SettledIsSaid
<1>. QED  BY <1>4, <1>5, <1>6, <1>7, <1>8

(* cancel_queue *)
LEMMA WithdrawKeeps ==
  ASSUME QueueInv, NEW i \in Inputs, Withdraw(i), TypeOK'
  PROVE  QueueInv'
<1>1. /\ UNCHANGED <<runVars, arrivals, target, settled, said, steerMirror, serviceVars, historyVars>>
      /\ i \in Messages /\ i \in Undelivered
      /\ queueMirror' = queueMirror \ {i} /\ withdrawn' = withdrawn \cup {i}
  BY DEF QueueInv, MirrorAgrees, Withdraw, CancelQueued
<1>. USE DEF QueueInv, runVars, serviceVars, historyVars
<1>2. /\ Said' = Said /\ Arrived' = Arrived
      /\ Undelivered' = Undelivered \ {i}
  BY <1>1 DEF Said, Arrived, Undelivered, Open
<1>3. RunsGoOn /\ RelaysStay
  BY <1>1 DEF RunsGoOn, RelaysStay, NeverBegun
<1>4. SendersFresh' /\ TargetBegun' /\ RunsSpeak' /\ DrivesFit' /\ GivenFirst' /\ RelayedInOrder'
  BY <1>1, <1>2, <1>3, SendersStay, TargetsStay, SpeakersStay, DrivesStay, GivenKept
<1>5. ArrivesOnce' /\ OnlyArrived'
  BY <1>1, <1>2 DEF ArrivesOnce, OnlyArrived, Undelivered
<1>6. i \notin Steers
  BY <1>1, DeliveryAssumption
<1>7. steerMirror \cup inbox \subseteq Steers
  BY DEF InboxFits
<1>8. MirrorAgrees'
  BY <1>1, <1>2, <1>6, <1>7 DEF MirrorAgrees
<1>9. InboxFits'
  BY <1>1, <1>2 DEF InboxFits, MeantFor
<1>10. TwiceIsExplained'
  <2>. SUFFICES ASSUME NEW j \in Inputs, j \notin unrecorded \cup stale
                PROVE  SaidOnce(j)'
    BY <1>1 DEF TwiceIsExplained
  <2>1. SaidOnce(j) /\ \A d \in Drivers : Waits(d, j) => Waits(d, j)'
    BY <1>1 DEF TwiceIsExplained, Waits
  <2>. QED  BY <1>1, <1>3, <2>1, SaidOnceStays
<1>11. SettledIsSaid'
  BY <1>1, <1>2, <1>3, CutShortStays DEF SettledIsSaid
<1>. QED  BY <1>4, <1>5, <1>8, <1>9, <1>10, <1>11

-----------------------------------------------------------------------------
(* The run of a session                                                     *)

(* One more user/message.                                                   *)
SaidTwice(j) == \E k, l \in DOMAIN said : said[k].input = j /\ said[l].input = j /\ k # l

LEMMA OneMoreSaid ==
  ASSUME said \in Seq([input : Inputs, run : Nat]), NEW i \in Inputs, NEW r \in Nat,
         SayInput(i, r)
  PROVE  /\ Said' = Said \cup {i}
         /\ \A j : j # i \/ i \notin Said => (SaidTwice(j)' => SaidTwice(j))
<1>1. /\ Len(said) \in Nat /\ DOMAIN said = 1 .. Len(said)
      /\ DOMAIN said' = 1 .. Len(said) + 1
      /\ said'[Len(said) + 1].input = i
      /\ \A k \in DOMAIN said : said'[k] = said[k]
  <2>1. [input |-> i, run |-> r] \in [input : Inputs, run : Nat]
    OBVIOUS
  <2>. QED  BY <2>1 DEF SayInput
<1>2. \A k \in DOMAIN said' : k \in DOMAIN said \/ k = Len(said) + 1
  BY <1>1
<1>3. Said' = Said \cup {i}
  <2>1. Said' \subseteq Said \cup {i}
    BY <1>1, <1>2 DEF Said
  <2>2. Said \subseteq Said'
    <3>1. DOMAIN said \subseteq DOMAIN said'
      BY <1>1
    <3>. QED  BY <1>1, <3>1 DEF Said
  <2>3. i \in Said'
    <3>1. Len(said) + 1 \in DOMAIN said'
      BY <1>1
    <3>. QED  BY <1>1, <3>1 DEF Said
  <2>. QED  BY <2>1, <2>2, <2>3
<1>4. ASSUME NEW j, j # i \/ i \notin Said, SaidTwice(j)'
      PROVE  SaidTwice(j)
  <2>1. PICK k, l \in DOMAIN said' : said'[k].input = j /\ said'[l].input = j /\ k # l
    BY <1>4 DEF SaidTwice
  <2>2. CASE k \in DOMAIN said /\ l \in DOMAIN said
    BY <1>1, <2>1, <2>2 DEF SaidTwice
  <2>3. CASE k \in DOMAIN said /\ l = Len(said) + 1
    BY <1>1, <1>4, <2>1, <2>3 DEF Said
  <2>4. CASE l \in DOMAIN said /\ k = Len(said) + 1
    BY <1>1, <1>4, <2>1, <2>4 DEF Said
  <2>. QED  BY <1>2, <2>1, <2>2, <2>3, <2>4
<1>. QED  BY <1>3, <1>4

LEMMA SaidOnceMeans ==
  \A i : /\ SaidOnce(i) <=>
              /\ ~SaidTwice(i)
              /\ Promised(i) => i \notin Said
              /\ i \in Undelivered /\ (i \in Said \/ Promised(i)) =>
                   half = i \/ \E d \in Drivers : Waits(d, i)
         /\ SaidOnce(i)' <=>
              /\ ~SaidTwice(i)'
              /\ Promised(i)' => i \notin Said'
              /\ i \in Undelivered' /\ (i \in Said' \/ Promised(i)') =>
                   half' = i \/ \E d \in Drivers : Waits(d, i)'
  BY DEF SaidOnce, SaidTwice

(* user/message of the input that the run was launched with.                *)
LEMMA SpeakKeeps ==
  ASSUME QueueInv, RunsInv, NEW r \in Runs, Speak(r), TypeOK'
  PROVE  QueueInv'
<1>1. /\ stage[r] = "created" /\ stage'[r] = "spoken" /\ ended' = ended
      /\ \A s \in Runs \ {r} : stage'[s] = stage[s]
      /\ UNCHANGED <<arrivals, target, withdrawn, settled, mirrorVars, serviceVars, historyVars>>
  BY DEF Speak, Advance, SayInput, RunsInv, RunsTypeOK
<1>. USE DEF QueueInv, mirrorVars, serviceVars, historyVars
<1>2. r = current /\ \A s \in Runs : stage[s] = "created" => s = r
  BY <1>1, InBody
<1>3. inbox = {} /\ half = None
  BY <1>1, <1>2, InBody DEF InboxFits, MeantFor
<1>4. input[r] \in Inputs /\ None \notin Inputs /\ Promised(input[r])
  BY <1>1, DeliveryAssumption DEF RunsSpeak, TypeOK, Promised
<1>5. /\ Said' = Said \cup {input[r]}
      /\ \A j : j # input[r] \/ input[r] \notin Said => (SaidTwice(j)' => SaidTwice(j))
  <2>1. said \in Seq([input : Inputs, run : Nat]) /\ r \in Nat
    BY RunsAssumption DEF TypeOK, QueueTypeOK, Runs
  <2>. QED  BY <1>4, <2>1, OneMoreSaid DEF Speak
<1>6. Arrived' = Arrived /\ Undelivered' = Undelivered
  BY <1>1 DEF Arrived, Undelivered, Open
<1>7. ArrivesOnce' /\ OnlyArrived' /\ MirrorAgrees'
  BY <1>1, <1>6 DEF ArrivesOnce, OnlyArrived, MirrorAgrees
<1>8. SendersFresh'
  BY <1>1, <1>5, <1>6 DEF SendersFresh, Unknown
<1>9. TargetBegun'
  BY <1>1, <1>6 DEF TargetBegun
<1>10. RunsSpeak'
  <2>. SUFFICES ASSUME NEW s \in Runs
                PROVE  /\ input'[s] = None <=> stage'[s] = "none"
                       /\ stage'[s] \in {"spoken", "running"} \/ ended'[s] \in Facts \cup {"paused"}
                            => input'[s] \in Said'
    BY DEF RunsSpeak
  <2>1. CASE s = r
    BY <1>1, <1>4, <1>5, <2>1
  <2>2. CASE s # r
    BY <1>1, <1>5, <2>2 DEF RunsSpeak
  <2>. QED  BY <2>1, <2>2
<1>11. InboxFits'
  BY <1>1, <1>3 DEF InboxFits
<1>12. DrivesFit'
  <2>1. \A i : First(i) => First(i)'
    <3>1. \A i : Place(i)' = Place(i)
      BY <1>1, PlacesInOrder
    <3>. QED  BY <1>1, <1>6, <3>1 DEF First, Open
  <2>2. \A i, t : t \in Runs /\ MeantFor(i, t)' => MeantFor(i, t)
    BY <1>1 DEF MeantFor
  <2>3. \A i : MeantFor(i, target[i])' => MeantFor(i, target[i])
    BY <1>1, <2>2 DEF MeantFor
  <2>4. \A s \in Runs : stage[s] = "relaying" => stage'[s] = "relaying"
    BY <1>1
  <2>. QED  BY <1>1, <1>6, <2>1, <2>3, <2>4 DEF DrivesFit
<1>13. GivenFirst' /\ RelayedInOrder'
  BY <1>1, GivenKept
<1>14. TwiceIsExplained'
  <2>. SUFFICES ASSUME NEW j \in Inputs, SaidOnce(j)
                PROVE  SaidOnce(j)'
    BY <1>1 DEF TwiceIsExplained
  <2>1. \A d : Waits(d, j) => Waits(d, j)'
    BY <1>1 DEF Waits
  <2>2. Promised(j)' => Promised(j) /\ j # input[r]
    BY <1>1, <1>2 DEF Promised
  <2>3. CASE j = input[r]
    BY <1>1, <1>4, <1>5, <1>6, <2>1, <2>2, <2>3, SaidOnceMeans
  <2>4. CASE j # input[r]
    BY <1>1, <1>5, <1>6, <2>1, <2>2, <2>4, SaidOnceMeans
  <2>. QED  BY <2>3, <2>4
<1>15. SettledIsSaid'
  <2>1. \A j : CutShort(j) => CutShort(j)'
    BY <1>1 DEF CutShort, NeverBegun
  <2>. QED  BY <1>1, <1>5, <2>1 DEF SettledIsSaid
<1>. QED  BY <1>7, <1>8, <1>9, <1>10, <1>11, <1>12, <1>13, <1>14, <1>15

(* drain_steers *)
LEMMA DrainKeeps ==
  ASSUME QueueInv, NEW r \in Runs, Drain(r), TypeOK'
  PROVE  QueueInv'
<1>1. /\ UNCHANGED <<runVars, streamVars, queueMirror, input, half, sending, seen, driver,
                     driveLock, historyVars>>
      /\ stage[r] = "running" /\ inbox = {} /\ steerMirror' = {}
      /\ inbox' = {i \in steerMirror : target[i] = r}
  BY DEF Drain
<1>. USE DEF QueueInv, runVars, streamVars, historyVars
<1>2. Said' = Said /\ Arrived' = Arrived /\ Undelivered' = Undelivered
  BY <1>1 DEF Said, Arrived, Undelivered, Open
<1>3. RunsGoOn /\ RelaysStay
  BY <1>1 DEF RunsGoOn, RelaysStay, NeverBegun
<1>4. SendersFresh' /\ TargetBegun' /\ RunsSpeak' /\ DrivesFit' /\ GivenFirst' /\ RelayedInOrder'
  BY <1>1, <1>2, <1>3, SendersStay, TargetsStay, SpeakersStay, DrivesStay, GivenKept
<1>5. ArrivesOnce' /\ OnlyArrived' /\ MirrorAgrees'
  BY <1>1, <1>2 DEF ArrivesOnce, OnlyArrived, MirrorAgrees
<1>6. InboxFits'
  BY <1>1, <1>2 DEF InboxFits, MeantFor
<1>7. TwiceIsExplained'
  <2>1. \A j : SaidOnce(j) => SaidOnce(j)'
    BY <1>1, <1>3, SaidOnceStays DEF Waits
  <2>. QED  BY <1>1, <2>1 DEF TwiceIsExplained
<1>8. SettledIsSaid'
  BY <1>1, <1>2, <1>3, CutShortStays DEF SettledIsSaid
<1>. QED  BY <1>4, <1>5, <1>6, <1>7, <1>8

(* _inject_steers: the user/message of a steer ...                          *)
LEMMA InjectSayKeeps ==
  ASSUME QueueInv, RunsInv, NEW r \in Runs, InjectSay(r), TypeOK'
  PROVE  QueueInv'
<1>. DEFINE o == Oldest(inbox)
<1>1. /\ UNCHANGED <<runVars, arrivals, target, withdrawn, settled, mirrorVars, input, inbox,
                     sending, seen, driver, driveLock, historyVars>>
      /\ stage[r] = "running" /\ inbox # {} /\ half = None
      /\ SayInput(o, r) /\ half' = o
  BY DEF InjectSay, SayInput
<1>. USE DEF QueueInv, runVars, mirrorVars, historyVars
<1>2. o \in inbox /\ o \in Inputs /\ o # None
  BY <1>1, OldestFound, ArrivedAreInputs
<1>3. /\ Said' = Said \cup {o}
      /\ \A j : j # o \/ o \notin Said => (SaidTwice(j)' => SaidTwice(j))
  <2>1. said \in Seq([input : Inputs, run : Nat]) /\ r \in Nat
    BY RunsAssumption DEF TypeOK, QueueTypeOK, Runs
  <2>. QED  BY <1>1, <1>2, <2>1, OneMoreSaid
<1>. HIDE DEF o
<1>4. Arrived' = Arrived /\ Undelivered' = Undelivered
  BY <1>1 DEF Arrived, Undelivered, Open
<1>5. RunsGoOn /\ RelaysStay
  BY <1>1 DEF RunsGoOn, RelaysStay, NeverBegun
<1>6. TargetBegun' /\ RunsSpeak' /\ DrivesFit' /\ GivenFirst' /\ RelayedInOrder'
  BY <1>1, <1>3, <1>5, TargetsStay, SpeakersStay, DrivesStay, GivenKept
<1>7. SendersFresh'
  BY <1>1, <1>2, <1>3, <1>4, ArrivedAreInputs DEF SendersFresh, Unknown
<1>8. ArrivesOnce' /\ OnlyArrived' /\ MirrorAgrees'
  BY <1>1, <1>4 DEF ArrivesOnce, OnlyArrived, MirrorAgrees
<1>9. InboxFits'
  BY <1>1, <1>2, <1>3 DEF InboxFits, MeantFor
<1>10. TwiceIsExplained'
  <2>. SUFFICES ASSUME NEW j \in Inputs, SaidOnce(j)
                PROVE  SaidOnce(j)'
    BY <1>1 DEF TwiceIsExplained
  <2>1. \A d : Waits(d, j)' = Waits(d, j)
    BY <1>1 DEF Waits
  <2>2. ~Promised(j) /\ ~Promised(j)' /\ half # j
    BY <1>1, InBody, ArrivedAreInputs DEF Promised
  <2>3. CASE j = o
    <3>1. o \in Undelivered /\ MeantFor(o, target[o])
      BY <1>2 DEF MirrorAgrees, InboxFits
    <3>2. \A d \in Drivers : ~Waits(d, o)
      BY <3>1 DEF DrivesFit, Waits
    <3>3. o \notin Said
      BY <2>2, <2>3, <3>1, <3>2, SaidOnceMeans
    <3>. QED  BY <1>1, <1>3, <2>2, <2>3, <3>3, SaidOnceMeans
  <2>4. CASE j # o
    BY <1>3, <1>4, <2>1, <2>2, <2>4, SaidOnceMeans
  <2>. QED  BY <2>3, <2>4
<1>11. SettledIsSaid'
  BY <1>1, <1>3, <1>5, CutShortStays DEF SettledIsSaid
<1>. QED  BY <1>6, <1>7, <1>8, <1>9, <1>10, <1>11

(* ... and the event that settles it.                                       *)
LEMMA InjectSettleKeeps ==
  ASSUME QueueInv, NEW r \in Runs, InjectSettle(r), TypeOK'
  PROVE  QueueInv'
<1>1. /\ UNCHANGED <<runVars, arrivals, target, withdrawn, said, mirrorVars, input,
                     sending, seen, driver, driveLock, historyVars>>
      /\ half # None /\ settled' = settled \cup {half}
      /\ inbox' = inbox \ {half} /\ half' = None
  BY DEF InjectSettle
<1>. USE DEF QueueInv, runVars, mirrorVars, historyVars
<1>2. /\ half \in inbox /\ half \in Said /\ half \in Steers /\ half \notin steerMirror
      /\ half \in Arrived /\ half \notin Messages
  BY <1>1, ArrivedAreInputs, DeliveryAssumption DEF InboxFits
<1>3. Said' = Said /\ Arrived' = Arrived /\ Undelivered' = Undelivered \ {half}
  BY <1>1 DEF Said, Arrived, Undelivered, Open
<1>4. RunsGoOn /\ RelaysStay
  BY <1>1 DEF RunsGoOn, RelaysStay, NeverBegun
<1>5. SendersFresh' /\ TargetBegun' /\ RunsSpeak' /\ DrivesFit' /\ GivenFirst' /\ RelayedInOrder'
  BY <1>1, <1>3, <1>4, SendersStay, TargetsStay, SpeakersStay, DrivesStay, GivenKept
<1>6. ArrivesOnce' /\ OnlyArrived'
  BY <1>1, <1>2, <1>3 DEF ArrivesOnce, OnlyArrived
<1>7. MirrorAgrees'
  BY <1>1, <1>2, <1>3 DEF MirrorAgrees
<1>8. InboxFits'
  BY <1>1, <1>3 DEF InboxFits, MeantFor
<1>9. TwiceIsExplained'
  <2>. SUFFICES ASSUME NEW j \in Inputs, SaidOnce(j)
                PROVE  SaidOnce(j)'
    BY <1>1 DEF TwiceIsExplained
  <2>1. \A d : Waits(d, j) => Waits(d, j)'
    BY <1>1 DEF Waits
  <2>2. j \in Undelivered' => half # j
    BY <1>3
  <2>. QED  BY <1>1, <1>4, <2>1, <2>2, SaidOnceStays
<1>10. SettledIsSaid'
  BY <1>1, <1>2, <1>3, <1>4, CutShortStays DEF SettledIsSaid
<1>. QED  BY <1>5, <1>6, <1>7, <1>8, <1>9, <1>10

-----------------------------------------------------------------------------
(* The drives                                                               *)

(* A drive that does not launch: it begins, picks, settles or leaves.       *)
Moves(d) ==
    /\ UNCHANGED <<arrivals, target, withdrawn, said, input, inbox, half, sending, seen,
                   unrecorded, stale, given, ended>>
    /\ settled \subseteq settled' /\ steerMirror' \subseteq steerMirror
    /\ \A e \in Drivers \ {d} : driver'[e] = driver[e]
    /\ \A r \in Runs \ {d} : stage'[r] = stage[r]
    /\ d \in Runs => stage[d] = "relaying" /\ stage'[d] \in {"relaying", "done"}
    /\ driveLock \in {d, NoRun} \/ driveLock' = driveLock
    /\ driver'[d].pc # "waiting"
    /\ driver[d].pc = "waiting" => driver[d].input \in settled'
    /\ driver'[d].pc = "picked" =>
         /\ driver'[d].input \in Undelivered
         /\ \A j \in Undelivered : Place(driver'[d].input) <= Place(j)
    /\ d \in Runs /\ driver'[d].pc \in {"driving", "picked"} =>
         driveLock' = d /\ stage'[d] = "relaying"

LEMMA MoveKeeps ==
  ASSUME QueueInv, NEW d \in Drivers, Moves(d), TypeOK',
         OnlyArrived', MirrorAgrees', SettledIsSaid'
  PROVE  QueueInv'
<1>. USE DEF QueueInv
<1>1. Said' = Said /\ Arrived' = Arrived /\ Undelivered' \subseteq Undelivered
  BY DEF Moves, Said, Arrived, Undelivered, Open
<1>2. RunsGoOn
  BY DEF Moves, RunsGoOn, NeverBegun
<1>3. ArrivesOnce' /\ SendersFresh' /\ TargetBegun' /\ RunsSpeak' /\ GivenFirst' /\ RelayedInOrder'
  BY <1>1, <1>2, SendersStay, TargetsStay, SpeakersStay, GivenKept DEF Moves, ArrivesOnce
<1>4. InboxFits'
  BY <1>1 DEF Moves, InboxFits, MeantFor
<1>5. DrivesFit'
  <2>1. \A i : First(i) => First(i)'
    <3>1. \A i : Place(i)' = Place(i)
      BY PlacesInOrder DEF Moves
    <3>. QED  BY <1>1, <3>1 DEF First, Open, Moves
  <2>2. \A i : MeantFor(i, target[i])' => MeantFor(i, target[i])
    BY DEF Moves, MeantFor
  <2>3. ASSUME NEW i, driver'[d].input = i, driver'[d].pc = "picked"
        PROVE  i \in Arrived' /\ First(i)'
    <3>1. i \in Undelivered /\ \A j \in Undelivered : Place(i) <= Place(j)
      BY <2>3 DEF Moves
    <3>2. \A j \in Arrived : Place(j) < Place(i) => ~Open(j)
      <4>1. \A j \in Arrived : Place(j) \in Nat
        BY ArrivedAreInputs, PlaceIsNumber
      <4>. QED  BY <3>1, <4>1 DEF Undelivered
    <3>3. First(i)
      BY <3>2 DEF First
    <3>. QED  BY <1>1, <2>1, <3>1, <3>3 DEF Undelivered
  <2>4. ASSUME NEW e \in Drivers \ {d}, NEW i, driver'[e].input = i,
               driver'[e].pc \in {"picked", "waiting"}
        PROVE  i \in Arrived' /\ First(i)'
    <3>1. i \in Arrived /\ First(i)
      BY <2>4 DEF DrivesFit, Moves
    <3>. QED  BY <1>1, <2>1, <3>1
  <2>5. ASSUME NEW e \in Drivers \ {d}, driver'[e].pc = "waiting"
        PROVE  /\ driver'[e].run \in Runs
               /\ input'[driver'[e].run] = driver'[e].input
               /\ \A i : driver'[e].input = i => ~MeantFor(i, target[i])'
    BY <2>2, <2>5 DEF DrivesFit, Moves
  <2>6. ASSUME NEW e \in Drivers \ {d}, e \in Runs,
               driver'[e].pc \in {"driving", "picked", "waiting"}
        PROVE  driveLock' = e /\ stage'[e] = "relaying"
    BY <2>6, RunsAreNumbers DEF DrivesFit, Moves
  <2>7. ASSUME NEW e \in Drivers
        PROVE  /\ driver'[e].pc \in {"picked", "waiting"} =>
                    \A i : driver'[e].input = i => i \in Arrived' /\ First(i)'
               /\ driver'[e].pc = "waiting" =>
                    /\ driver'[e].run \in Runs
                    /\ input'[driver'[e].run] = driver'[e].input
                    /\ \A i : driver'[e].input = i => ~MeantFor(i, target[i])'
               /\ e \in Runs /\ driver'[e].pc \in {"driving", "picked", "waiting"} =>
                    driveLock' = e /\ stage'[e] = "relaying"
    BY <2>3, <2>4, <2>5, <2>6 DEF Moves
  <2>. QED  BY <2>7 DEF DrivesFit
<1>6. TwiceIsExplained'
  <2>. SUFFICES ASSUME NEW j \in Inputs, SaidOnce(j)
                PROVE  SaidOnce(j)'
    BY DEF TwiceIsExplained, Moves
  <2>1. j \in Undelivered' => \A e \in Drivers : Waits(e, j) => Waits(e, j)'
    BY DEF Waits, Moves, Undelivered, Open
  <2>. QED  BY <1>2, <2>1, SaidOnceStays DEF Moves
<1>. QED  BY <1>3, <1>4, <1>5, <1>6

(* A drive that is over.                                                    *)
LEMMA LeaveMoves ==
  ASSUME QueueInv, RunsInv, NEW d \in Drivers, Leave(d)
  PROVE  /\ \A e \in Drivers \ {d} : driver'[e] = driver[e]
         /\ \A r \in Runs \ {d} : stage'[r] = stage[r]
         /\ d \in Runs => stage'[d] = "done"
         /\ driveLock \in {d, NoRun} \/ driveLock' = driveLock
         /\ driver'[d].pc = "over"
         /\ ended' = ended
  BY DEF Leave, Set, QueueInv, TypeOK, RunsInv, RunsTypeOK

LEMMA SetMoves ==
  ASSUME QueueInv, NEW d \in Drivers, NEW pc, NEW i, NEW r, Set(d, pc, i, r)
  PROVE  /\ \A e \in Drivers \ {d} : driver'[e] = driver[e]
         /\ driver'[d].pc = pc /\ driver'[d].input = i /\ driver'[d].run = r
  BY DEF Set, QueueInv, TypeOK

LEMMA SettledStays ==
  ASSUME QueueInv, UNCHANGED <<queueVars, input, inbox>>, RunsGoOn
  PROVE  OnlyArrived' /\ MirrorAgrees' /\ SettledIsSaid'
<1>. USE DEF QueueInv, queueVars, streamVars, mirrorVars
<1>1. Said' = Said /\ Arrived' = Arrived /\ Undelivered' = Undelivered
  BY DEF Said, Arrived, Undelivered, Open
<1>2. OnlyArrived' /\ MirrorAgrees'
  BY <1>1 DEF OnlyArrived, MirrorAgrees
<1>3. SettledIsSaid'
  BY <1>1, CutShortStays DEF SettledIsSaid
<1>. QED  BY <1>2, <1>3

LEMMA EnterKeeps ==
  ASSUME QueueInv, RunsInv, TypeOK', NEW d \in Drivers,
         \/ d \in Runs /\ RelayEnter(d)
         \/ d \in Flushers /\ FlushEnter(d)
         \/ Pick(d)
  PROVE  QueueInv'
<1>1. /\ UNCHANGED <<queueVars, input, inbox, half, sending, seen, historyVars>>
      /\ driver[d].pc \in {"idle", "driving"}
  BY DEF RelayEnter, FlushEnter, Pick
<1>2. d \in Runs => stage[d] = "relaying"
  BY DeliveryAssumption DEF RelayEnter, FlushEnter, Pick, QueueInv, DrivesFit
<1>3. Leave(d) => Moves(d)
  BY <1>1, <1>2, LeaveMoves DEF Moves, queueVars, streamVars, mirrorVars, historyVars
<1>4. ASSUME Set(d, "driving", None, NoRun), UNCHANGED <<stage, ended>>,
             \/ d \in Runs /\ driveLock = NoRun /\ driveLock' = d
             \/ d \in Flushers /\ driveLock' = driveLock
      PROVE  Moves(d)
  <2>1. d \in Flushers => d \notin Runs
    BY DeliveryAssumption
  <2>. QED
    BY <1>1, <1>2, <1>4, <2>1, SetMoves
       DEF Moves, queueVars, streamVars, mirrorVars, historyVars
<1>5. ASSUME Undelivered # {}, Set(d, "picked", Oldest(Undelivered), NoRun),
             UNCHANGED <<runVars, driveLock>>, driver[d].pc = "driving"
      PROVE  Moves(d)
  <2>1. /\ Oldest(Undelivered) \in Undelivered
        /\ \A j \in Undelivered : Place(Oldest(Undelivered)) <= Place(j)
    BY <1>5, OldestFound, ArrivedAreInputs
  <2>2. d \in Runs => driveLock = d
    BY <1>5 DEF QueueInv, DrivesFit
  <2>. QED
    BY <1>1, <1>2, <1>5, <2>1, <2>2, SetMoves
       DEF Moves, runVars, queueVars, streamVars, mirrorVars, historyVars
<1>6. Moves(d)
  BY <1>3, <1>4, <1>5 DEF RelayEnter, FlushEnter, Pick, runVars
<1>7. RunsGoOn
  BY <1>6 DEF Moves, RunsGoOn, NeverBegun
<1>. QED  BY <1>1, <1>6, <1>7, SettledStays, MoveKeeps

(* ActiveRunConflict: what was picked stays where it is.                    *)
LEMMA GiveUpKeeps ==
  ASSUME QueueInv, RunsInv, TypeOK', NEW d \in Drivers, DriveLaunch(d), Leave(d)
  PROVE  QueueInv'
<1>1. /\ UNCHANGED <<queueVars, inbox, half, sending, seen, unrecorded>>
      /\ driver[d].pc = "picked"
  BY DEF DriveLaunch
<1>2. UNCHANGED <<input, stale, given>>
  <2>1. driver'[d].pc = "over"
    BY LeaveMoves
  <2>2. ~Set(d, "waiting", driver[d].input, NextRun)
    BY <2>1, SetMoves
  <2>. QED  BY <2>2 DEF DriveLaunch
<1>3. d \in Runs => stage[d] = "relaying"
  BY <1>1 DEF QueueInv, DrivesFit
<1>4. Moves(d)
  BY <1>1, <1>2, <1>3, LeaveMoves DEF Moves, queueVars, streamVars, mirrorVars
<1>5. RunsGoOn
  BY <1>4 DEF Moves, RunsGoOn, NeverBegun
<1>. QED  BY <1>1, <1>2, <1>4, <1>5, SettledStays, MoveKeeps

(* The event that settles what a drive has launched.                        *)
LEMMA RecordKeeps ==
  ASSUME QueueInv, RunsInv, TypeOK', NEW d \in Drivers, Record(d)
  PROVE  QueueInv'
<1>. DEFINE i == driver[d].input
<1>1. /\ UNCHANGED <<arrivals, target, withdrawn, said, input, inbox, half, sending, seen, historyVars>>
      /\ driver[d].pc = "waiting"
      /\ queueMirror' = queueMirror \ {i} /\ steerMirror' = steerMirror \ {i}
      /\ settled' = settled \cup {i}
      /\ Begun(driver[d].run) \/ NeverBegun(driver[d].run)
      /\ Leave(d)
  BY DEF Record, Consume
<1>2. /\ i \in Arrived /\ driver[d].run \in Runs /\ input[driver[d].run] = i
      /\ ~MeantFor(i, target[i])
      /\ d \in Runs => stage[d] = "relaying"
  BY <1>1 DEF QueueInv, DrivesFit
<1>3. Moves(d)
  BY <1>1, <1>2, LeaveMoves DEF Moves, historyVars
<1>4. RunsGoOn
  BY <1>3 DEF Moves, RunsGoOn, NeverBegun
<1>. HIDE DEF i
<1>5. Said' = Said /\ Arrived' = Arrived /\ Undelivered' = Undelivered \ {i}
  BY <1>1 DEF Said, Arrived, Undelivered, Open
<1>6. OnlyArrived'
  BY <1>1, <1>2, <1>5 DEF QueueInv, OnlyArrived
<1>7. MirrorAgrees'
  BY <1>1, <1>2, <1>5 DEF QueueInv, MirrorAgrees, InboxFits
<1>8. i \in Said \/ CutShort(i)
  BY <1>1, <1>2 DEF QueueInv, RunsSpeak, Begun, CutShort
<1>9. SettledIsSaid'
  BY <1>1, <1>4, <1>5, <1>8, CutShortStays DEF QueueInv, SettledIsSaid
<1>. QED  BY <1>3, <1>6, <1>7, <1>9, MoveKeeps

(* A drive launches what it has picked.                                     *)
LEMMA DriveLaunchKeeps ==
  ASSUME QueueInv, RunsInv, TypeOK', NEW d \in Drivers, DriveLaunch(d),
         NEW i, i = driver[d].input, Launch(i, Watcher(d))
  PROVE  QueueInv'
<1>1. driver[d].pc = "picked" /\ ~ActiveRunConflict
  BY DEF DriveLaunch, Launch, MayLaunch, ActiveRunConflict
<1>2. /\ UNCHANGED <<queueVars, inbox, half, sending, seen, unrecorded, driveLock>>
      /\ Set(d, "waiting", i, NextRun)
      /\ given' = Append(given, i)
      /\ stale' = IF Open(i) /\ ~Contested(d, i) THEN stale ELSE stale \cup {i}
  BY <1>1 DEF DriveLaunch
<1>3. /\ i \in Arrived /\ First(i) /\ i \in Inputs /\ i # None
      /\ d \in Runs => driveLock = d /\ stage[d] = "relaying"
  BY <1>1, ArrivedAreInputs DEF QueueInv, DrivesFit
<1>4. Launched(NextRun, i)
  BY <1>3, LaunchFacts
<1>5. /\ ArrivesOnce' /\ OnlyArrived' /\ TargetBegun' /\ RunsSpeak' /\ MirrorAgrees'
      /\ InboxFits' /\ SettledIsSaid'
      /\ Said' = Said /\ Arrived' = Arrived /\ Undelivered' = Undelivered
      /\ \A j : First(j) => First(j)'
      /\ \A j \in Inputs : ~Promised(j) /\ (Promised(j)' => j = i)
      /\ \A j \in Inputs : ~MeantFor(j, target[j])'
  BY <1>2, <1>3, <1>4, LaunchKeepsRuns
<1>6. /\ \A e \in Drivers \ {d} : driver'[e] = driver[e]
      /\ driver'[d].pc = "waiting" /\ driver'[d].input = i /\ driver'[d].run = NextRun
  BY <1>2, SetMoves
<1>. USE DEF QueueInv
<1>7. SendersFresh'
  <2>1. \A j \in Inputs : Unknown(j) => Unknown(j)'
    BY <1>3, <1>4, <1>5 DEF Unknown, Launched
  <2>. QED  BY <1>2, <2>1 DEF SendersFresh
<1>8. DrivesFit'
  <2>1. ASSUME NEW e \in Drivers, NEW j, driver'[e].input = j,
               driver'[e].pc \in {"picked", "waiting"}
        PROVE  j \in Inputs /\ j \in Arrived' /\ First(j)' /\ ~MeantFor(j, target[j])'
    <3>1. j \in Arrived /\ First(j)
      BY <1>3, <1>6, <2>1 DEF DrivesFit
    <3>. QED  BY <1>5, <3>1, ArrivedAreInputs
  <2>2. ASSUME NEW e \in Drivers \ {d}, driver'[e].pc = "waiting"
        PROVE  driver'[e].run \in Runs /\ input'[driver'[e].run] = driver'[e].input
    <3>1. driver[e].run \in Runs /\ input[driver[e].run] = driver[e].input
      BY <1>6, <2>2 DEF DrivesFit
    <3>2. driver[e].input # None
      BY <1>6, <2>1, <2>2, ArrivedAreInputs
    <3>. QED  BY <1>4, <1>6, <3>1, <3>2 DEF Launched
  <2>3. NextRun \in Runs /\ input'[NextRun] = i
    BY <1>4 DEF Launched
  <2>4. ASSUME NEW e \in Drivers, e \in Runs, driver'[e].pc \in {"driving", "picked", "waiting"}
        PROVE  driveLock' = e /\ stage'[e] = "relaying"
    <3>1. driveLock = e /\ stage[e] = "relaying"
      BY <1>3, <1>6, <2>4 DEF DrivesFit
    <3>. QED  BY <1>2, <1>4, <2>4, <3>1 DEF Launched
  <2>5. ASSUME NEW e \in Drivers
        PROVE  /\ driver'[e].pc \in {"picked", "waiting"} =>
                    \A j : driver'[e].input = j => j \in Arrived' /\ First(j)'
               /\ driver'[e].pc = "waiting" =>
                    /\ driver'[e].run \in Runs
                    /\ input'[driver'[e].run] = driver'[e].input
                    /\ \A j : driver'[e].input = j => ~MeantFor(j, target[j])'
               /\ e \in Runs /\ driver'[e].pc \in {"driving", "picked", "waiting"} =>
                    driveLock' = e /\ stage'[e] = "relaying"
    BY <1>6, <2>1, <2>2, <2>3, <2>4
  <2>. QED  BY <2>5 DEF DrivesFit
<1>9. /\ Len(given) \in Nat /\ DOMAIN given = 1 .. Len(given)
      /\ DOMAIN given' = 1 .. Len(given) + 1
      /\ given'[Len(given) + 1] = i
      /\ \A k \in DOMAIN given : given'[k] = given[k]
  BY <1>2, <1>3 DEF TypeOK
<1>10. ASSUME NEW k \in DOMAIN given'
       PROVE  k \in DOMAIN given \/ k = Len(given) + 1
  BY <1>9
<1>11. \A j : Place(j)' = Place(j)
  BY <1>2, PlacesInOrder DEF queueVars, streamVars
<1>12. GivenFirst'
  <2>1. ASSUME NEW k \in DOMAIN given', NEW j, given'[k] = j
        PROVE  j \in Arrived' /\ First(j)'
    <3>1. j \in Arrived /\ First(j)
      BY <1>3, <1>9, <1>10, <2>1 DEF GivenFirst
    <3>. QED  BY <1>5, <3>1
  <2>. QED  BY <2>1 DEF GivenFirst
<1>13. RelayedInOrder'
  <2>1. ASSUME NEW j \in DOMAIN given', NEW k \in DOMAIN given', j < k,
               NEW x, NEW y, given'[j] = x, given'[k] = y
        PROVE  Place(x) <= Place(y) \/ y \in stale'
    <3>1. j \in DOMAIN given /\ given[j] = x
      BY <1>9, <1>10, <2>1
    <3>2. CASE k \in DOMAIN given
      BY <1>2, <1>9, <2>1, <3>1, <3>2 DEF RelayedInOrder
    <3>3. CASE k = Len(given) + 1
      <4>1. y = i /\ x \in Arrived /\ First(x)
        BY <1>9, <2>1, <3>1, <3>3 DEF GivenFirst
      <4>2. Place(x) \in Nat /\ Place(i) \in Nat
        BY <1>3, <4>1, ArrivedAreInputs, PlaceIsNumber
      <4>3. i \in stale' \/ Open(i)
        BY <1>2
      <4>. QED  BY <1>3, <4>1, <4>2, <4>3 DEF First
    <3>. QED  BY <1>10, <3>2, <3>3
  <2>. QED  BY <1>11, <2>1 DEF RelayedInOrder
<1>14. TwiceIsExplained'
  <2>. SUFFICES ASSUME NEW j \in Inputs, j \notin unrecorded, j \notin stale'
                PROVE  SaidOnce(j)'
    BY <1>2 DEF TwiceIsExplained
  <2>1. SaidOnce(j)
    BY <1>2 DEF TwiceIsExplained
  <2>2. SaidTwice(j)' = SaidTwice(j)
    BY <1>2 DEF SaidTwice, queueVars, streamVars
  <2>3. half = None /\ half' = None /\ j # None
    BY <1>2, <1>4, DeliveryAssumption DEF Launched
  <2>4. \A e \in Drivers : Waits(e, j) => e # d /\ Waits(e, j)'
    BY <1>1, <1>6 DEF Waits
  <2>5. CASE j # i
    BY <1>5, <2>1, <2>2, <2>3, <2>4, <2>5, SaidOnceMeans
  <2>6. CASE j = i
    <3>1. Open(i) /\ ~Contested(d, i)
      BY <1>2, <2>6
    <3>2. \A e \in Drivers : ~Waits(e, i)
      <4>. SUFFICES ASSUME NEW e \in Drivers, Waits(e, i) PROVE FALSE
        OBVIOUS
      <4>1. e # d /\ {d, e} \cap Flushers = {}
        BY <2>4, <2>6, <3>1 DEF Contested, Waits, Drivers
      <4>2. e \in Runs /\ d \in Runs
        BY <4>1 DEF Drivers
      <4>3. driveLock = e
        BY <4>2 DEF DrivesFit, Waits
      <4>. QED  BY <1>3, <4>1, <4>2, <4>3
    <3>3. i \in Undelivered
      BY <1>3, <3>1 DEF Undelivered
    <3>4. i \notin Said
      BY <2>1, <2>3, <2>6, <3>2, <3>3, SaidOnceMeans
    <3>5. Waits(d, i)'
      BY <1>6 DEF Waits
    <3>. QED  BY <1>5, <2>1, <2>2, <2>6, <3>4, <3>5, SaidOnceMeans
  <2>. QED  BY <2>5, <2>6
<1>. QED  BY <1>5, <1>7, <1>8, <1>12, <1>13, <1>14

(* The process dies and a new one rebuilds the mirror from the stream.      *)
LEMMA CrashKeeps ==
  ASSUME QueueInv, RunsInv, TypeOK', CrashRestart
  PROVE  QueueInv'
<1>1. /\ UNCHANGED <<streamVars, input, seen, stale, given, ended>>
      /\ inbox' = {} /\ half' = None
      /\ queueMirror' = Undelivered \ Steers /\ steerMirror' = Undelivered \cap Steers
      /\ \A d \in Drivers : driver'[d].pc \in {"idle", "over"}
      /\ \A j \in Inputs : sending'[j] \in {"idle", "looked", "waiting"} =>
           sending[j] = "idle" /\ sending'[j] = "idle"
      /\ unrecorded' = unrecorded \cup (Said \cap Undelivered)
      /\ \A r \in Runs : stage'[r] = IF Working(r) THEN "gone" ELSE stage[r]
  BY DEF CrashRestart, LoseRuns, RebuildMirror, Idle, Over, QueueInv, TypeOK, Sendings
<1>. USE DEF QueueInv, streamVars
<1>2. Said' = Said /\ Arrived' = Arrived /\ Undelivered' = Undelivered
  BY <1>1 DEF Said, Arrived, Undelivered, Open
<1>3. /\ RunsGoOn
      /\ \A r \in Runs : stage'[r] \notin {"created", "spoken", "running", "relaying"}
  BY <1>1 DEF RunsGoOn, NeverBegun, Working
<1>4. TargetBegun' /\ RunsSpeak' /\ GivenFirst' /\ RelayedInOrder'
  BY <1>1, <1>2, <1>3, TargetsStay, SpeakersStay, GivenKept
<1>5. SendersFresh'
  BY <1>1, <1>2 DEF SendersFresh, Unknown
<1>6. ArrivesOnce' /\ OnlyArrived' /\ DrivesFit'
  BY <1>1, <1>2 DEF ArrivesOnce, OnlyArrived, DrivesFit
<1>7. MirrorAgrees' /\ InboxFits'
  <2>1. Undelivered \subseteq Messages \cup Steers /\ Messages \cap Steers = {}
    BY ArrivedAreInputs, DeliveryAssumption DEF Inputs
  <2>. QED  BY <1>1, <1>2, <2>1 DEF MirrorAgrees, InboxFits
<1>8. TwiceIsExplained'
  <2>. SUFFICES ASSUME NEW j \in Inputs, SaidOnce(j), j \notin Said \cap Undelivered
                PROVE  SaidOnce(j)'
    BY <1>1 DEF TwiceIsExplained
  <2>1. ~Promised(j)'
    BY <1>3 DEF Promised
  <2>2. SaidTwice(j)' = SaidTwice(j)
    BY <1>1 DEF SaidTwice
  <2>. QED  BY <1>2, <2>1, <2>2, SaidOnceMeans
<1>9. SettledIsSaid'
  BY <1>1, <1>2, <1>3, CutShortStays DEF SettledIsSaid
<1>. QED  BY <1>4, <1>5, <1>6, <1>7, <1>8, <1>9

-----------------------------------------------------------------------------
(* Every step keeps the invariant                                           *)

LEMMA SendIsArrival ==
  ASSUME QueueInv, NEW i \in Inputs,
         SendQueued(i) \/ (SendIdle(i) /\ ~Launch(i, i)) \/ RegisterWaiting(i)
  PROVE  Arrives(i)
<1>1. CASE SendQueued(i) \/ (SendIdle(i) /\ ~Launch(i, i))
  BY <1>1 DEF SendQueued, SendIdle, GoesOn, Enqueue, Arrives
<1>2. CASE RegisterWaiting(i)
  <2>1. i \in Steers /\ seen[i] \in Runs
    BY <1>2 DEF RegisterWaiting, QueueInv, SendersFresh
  <2>2. /\ sending[i] = "waiting" /\ sending' = [sending EXCEPT ![i] = "sent"]
        /\ UNCHANGED <<runVars, input, inbox, half, seen, driver, driveLock, boundVars,
                       unrecorded, stale, given>>
        /\ \/ Begun(seen[i]) /\ RegisterSteer(i, seen[i])
           \/ RegisterSteer(i, NoRun)
    BY <1>2 DEF RegisterWaiting
  <2>. QED  BY <2>1, <2>2 DEF RegisterSteer, Arrives
<1>. QED  BY <1>1, <1>2

LEMMA SendKeepsQueue ==
  ASSUME Typed, NEW i \in Inputs, Look(i) \/ SendStep(i) \/ Withdraw(i)
  PROVE  QueueInv'
<1>1. QueueInv /\ RunsInv /\ TypeOK'
  BY SendTyped DEF Typed
<1>2. CASE SendQueued(i) \/ (SendIdle(i) /\ ~Launch(i, i)) \/ RegisterWaiting(i)
  BY <1>1, <1>2, SendIsArrival, ArriveKeeps
<1>3. CASE SendIdle(i) /\ Launch(i, i)
  BY <1>1, <1>3, FirstMessageKeeps
<1>4. CASE Look(i) \/ SendSteer(i)
  BY <1>1, <1>4, LookKeeps
<1>5. CASE Withdraw(i)
  BY <1>1, <1>5, WithdrawKeeps
<1>. QED  BY <1>2, <1>3, <1>4, <1>5 DEF SendStep

LEMMA RunKeepsQueue ==
  ASSUME Typed, NEW r \in Runs,
         \/ BodyStep(r) \/ EndStep(r) \/ CancelRun(r)
         \/ \E w \in Watchers : Connect(r, w) \/ Disconnect(r, w)
  PROVE  QueueInv'
<1>1. QueueInv /\ RunsInv /\ TypeOK'
  BY RunTyped DEF Typed
<1>2. CASE RunStep(r) \/ \E w \in Watchers : Connect(r, w) \/ Disconnect(r, w)
  BY <1>1, <1>2, RunStepIsRunOnly, RunOnlyKeeps
<1>3. CASE Speak(r)
  BY <1>1, <1>3, SpeakKeeps
<1>4. CASE Drain(r)
  BY <1>1, <1>4, DrainKeeps
<1>5. CASE InjectSay(r)
  BY <1>1, <1>5, InjectSayKeeps
<1>6. CASE InjectSettle(r)
  BY <1>1, <1>6, InjectSettleKeeps
<1>. QED  BY <1>2, <1>3, <1>4, <1>5, <1>6 DEF BodyStep, RunStep

LEMMA DriveKeepsQueue ==
  ASSUME Typed, NEW d \in Drivers,
         \/ d \in Runs /\ RelayEnter(d)
         \/ d \in Flushers /\ FlushEnter(d)
         \/ DriveStep(d)
  PROVE  QueueInv'
<1>1. QueueInv /\ RunsInv /\ TypeOK'
  BY DriveTyped DEF Typed
<1>2. CASE \/ d \in Runs /\ RelayEnter(d)
           \/ d \in Flushers /\ FlushEnter(d)
           \/ Pick(d)
  BY <1>1, <1>2, EnterKeeps
<1>3. CASE DriveLaunch(d)
  <2>1. Leave(d) \/ Launch(driver[d].input, Watcher(d))
    BY <1>3 DEF DriveLaunch
  <2>2. CASE Leave(d)
    BY <1>1, <1>3, <2>2, GiveUpKeeps
  <2>3. CASE Launch(driver[d].input, Watcher(d))
    BY <1>1, <1>3, <2>3, DriveLaunchKeeps
  <2>. QED  BY <2>1, <2>2, <2>3
<1>4. CASE Record(d)
  BY <1>1, <1>4, RecordKeeps
<1>. QED  BY <1>2, <1>3, <1>4 DEF DriveStep

LEMMA QueueInvNext ==
  ASSUME QueueInv, RunsInv, [Next]_vars
  PROVE  QueueInv'
<1>1. Typed
  <2>1. RunsInv'
    BY RunsInvNext
  <2>. QED  BY <2>1 DEF Typed, RunsInv
<1>2. CASE \E i \in Inputs : Look(i) \/ SendStep(i) \/ Withdraw(i)
  BY <1>1, <1>2, SendKeepsQueue
<1>3. CASE \E r \in Runs : BodyStep(r) \/ EndStep(r) \/ CancelRun(r)
  BY <1>1, <1>3, RunKeepsQueue
<1>4. CASE \E r \in Runs : RelayEnter(r)
  BY <1>1, <1>4, DriveKeepsQueue DEF Drivers
<1>5. CASE \/ \E f \in Flushers : FlushEnter(f)
           \/ \E d \in Drivers : DriveStep(d)
  BY <1>1, <1>5, DriveKeepsQueue DEF Drivers
<1>6. CASE \E r \in Runs, w \in Watchers : Connect(r, w) \/ Disconnect(r, w)
  BY <1>1, <1>6, RunKeepsQueue
<1>7. CASE CrashRestart
  BY <1>1, <1>7, CrashTyped, CrashKeeps DEF Typed
<1>8. CASE UNCHANGED vars
  <2>1. TypeOK'
    BY <1>8 DEF QueueInv, TypeOK, RunsTypeOK, QueueTypeOK, vars, runVars, queueVars,
       streamVars, mirrorVars, serviceVars, boundVars, historyVars
  <2>2. RunsGoOn /\ RelaysStay
    BY <1>8 DEF RunsGoOn, RelaysStay, NeverBegun, vars, runVars
  <2>3. RunOnly
    BY <1>8, <2>2 DEF RunOnly, InboxLeft, vars, runVars, serviceVars, historyVars
  <2>. QED  BY <2>1, <2>3, RunOnlyKeeps
<1>. QED  BY <1>2, <1>3, <1>4, <1>5, <1>6, <1>7, <1>8 DEF Next

LEMMA QueueInvInit ==
  ASSUME Init
  PROVE  QueueInv
<1>. USE DeliveryAssumption, RunsAssumption DEF Init, RunsInit, QueueInit
<1>1. Arrived = {} /\ Said = {} /\ Undelivered = {}
  BY DEF Arrived, Said, Undelivered, Range
<1>2. /\ arrivals \in Seq(Inputs) /\ given \in Seq(Inputs)
      /\ said \in Seq([input : Inputs, run : Nat])
  OBVIOUS
<1>3. TypeOK
  <2>1. RunsTypeOK
    BY RunsInvInit DEF RunsInv
  <2>2. QueueTypeOK
    BY <1>2 DEF QueueTypeOK
  <2>3. driver \in [Drivers -> DriverStates]
    BY DEF Idle, DriverStates
  <2>. QED  BY <1>2, <2>1, <2>2, <2>3 DEF TypeOK, Sendings, DriverStates
<1>4. ArrivesOnce /\ OnlyArrived /\ TargetBegun /\ MirrorAgrees /\ InboxFits
  BY <1>1 DEF ArrivesOnce, OnlyArrived, TargetBegun, MirrorAgrees, InboxFits, NoRun
<1>5. \A i \in Inputs : \A r \in Runs : input[r] # i
  OBVIOUS
<1>6. SendersFresh /\ RunsSpeak
  BY <1>1, <1>5 DEF SendersFresh, Unknown, RunsSpeak, Facts
<1>7. DrivesFit /\ GivenFirst /\ RelayedInOrder
  BY DEF DrivesFit, GivenFirst, RelayedInOrder, Idle
<1>8. TwiceIsExplained /\ SettledIsSaid
  BY <1>1 DEF TwiceIsExplained, SaidOnce, Promised, SettledIsSaid
<1>. QED  BY <1>3, <1>4, <1>6, <1>7, <1>8 DEF QueueInv

LEMMA QueueInvariance == Spec => []QueueInv
<1>1. Init => QueueInv
  BY QueueInvInit
<1>2. QueueInv /\ RunsInv /\ [Next]_vars => QueueInv'
  BY QueueInvNext
<1>. QED  BY <1>1, <1>2, RunsInvariance, PTL DEF Spec

-----------------------------------------------------------------------------
(* Every variable keeps its type, those of the runs, the inputs and the     *)
(* drives, whatever is sent, cancelled or lost.                             *)
THEOREM TypeCorrect == Spec => []TypeOK
<1>1. QueueInv => TypeOK
  BY DEF QueueInv
<1>. QED  BY <1>1, QueueInvariance, PTL

(* The mirror in memory and the stream agree on what is pending, whatever   *)
(* the order of sendings, drains, injections, drives, cancellations and     *)
(* restarts.                                                                *)
THEOREM MirrorIsTrue == Spec => []MirrorAgrees
<1>1. QueueInv => MirrorAgrees
  BY DEF QueueInv
<1>. QED  BY <1>1, QueueInvariance, PTL

(* Drives launch in the order of arrival, for any number of flushes and     *)
(* relays beside each other.                                                *)
THEOREM RelayKeepsOrder == Spec => []RelayedInOrder
<1>1. QueueInv => RelayedInOrder
  BY DEF QueueInv
<1>. QED  BY <1>1, QueueInvariance, PTL

(* No input is said a second time unless the history knows the reason.      *)
THEOREM SecondSayingIsExplained == Spec => []SaidTwiceIsExplained
<1>1. QueueInv => SaidTwiceIsExplained
  <2>. SUFFICES ASSUME QueueInv, NEW i \in Inputs, i \notin unrecorded \cup stale
                PROVE  ~(Cardinality({k \in DOMAIN said : said[k].input = i}) > 1)
    BY DEF SaidTwiceIsExplained
  <2>. DEFINE S == {k \in DOMAIN said : said[k].input = i}
  <2>1. \A j, k \in S : j = k
    BY DEF QueueInv, TwiceIsExplained, SaidOnce
  <2>2. Cardinality(S) = 0 \/ Cardinality(S) = 1
    <3>1. CASE S = {}
      BY <3>1, FS_EmptySet
    <3>2. CASE S # {}
      <4>1. PICK j \in S : TRUE
        BY <3>2
      <4>2. S = {j}
        BY <2>1, <4>1
      <4>. QED  BY <4>2, FS_Singleton
    <3>. QED  BY <3>1, <3>2
  <2>. QED  BY <2>2
<1>. QED  BY <1>1, QueueInvariance, PTL

-----------------------------------------------------------------------------
(* The promise to the inputs                                                *)

(* What the promise sees of an input, by the facts in the stream alone: an  *)
(* input that is settled unsaid was cut short, as the invariant says.       *)
Seen(S, W, T, A) ==
    [i \in Inputs |-> IF i \in S THEN "said"
                      ELSE IF i \in W THEN "withdrawn"
                      ELSE IF i \in T THEN "cutShort"
                      ELSE IF i \in A THEN "waiting" ELSE "none"]

LEMMA StateIsSeen ==
  /\ QueueInv => InputState = Seen(Said, withdrawn, settled, Arrived)
  /\ QueueInv' => InputState' = Seen(Said', withdrawn', settled', Arrived')
<1>1. QueueInv => InputState = Seen(Said, withdrawn, settled, Arrived)
  <2>. SUFFICES ASSUME QueueInv PROVE InputState = Seen(Said, withdrawn, settled, Arrived)
    OBVIOUS
  <2>1. ASSUME NEW i \in Inputs
        PROVE  InputState[i] = Seen(Said, withdrawn, settled, Arrived)[i]
    <3>1. i \in settled \ (withdrawn \cup Said) => CutShort(i)
      BY DEF QueueInv, SettledIsSaid
    <3>2. Open(i) <=> i \notin withdrawn /\ i \notin settled
      BY DEF Open
    <3>. QED  BY <3>1, <3>2 DEF InputState, Seen
  <2>. QED  BY <2>1 DEF InputState, Seen
<1>2. QueueInv' => InputState' = Seen(Said', withdrawn', settled', Arrived')
  <2>. SUFFICES ASSUME QueueInv' PROVE InputState' = Seen(Said', withdrawn', settled', Arrived')
    OBVIOUS
  <2>1. ASSUME NEW i \in Inputs
        PROVE  InputState'[i] = Seen(Said', withdrawn', settled', Arrived')[i]
    <3>1. i \in settled' \ (withdrawn' \cup Said') => CutShort(i)'
      BY DEF QueueInv, SettledIsSaid
    <3>2. Open(i)' <=> i \notin withdrawn' /\ i \notin settled'
      BY DEF Open
    <3>. QED  BY <3>1, <3>2 DEF InputState, Seen
  <2>. QED  BY <2>1 DEF InputState, Seen
<1>. QED  BY <1>1, <1>2

(* One input goes one step on, or none does.                                *)
Kept == [Promise!Next]_InputState

LEMMA NothingSeen ==
  ASSUME QueueInv, QueueInv', UNCHANGED <<arrivals, withdrawn, settled, said>>
  PROVE  Kept
<1>1. Said' = Said /\ Arrived' = Arrived
  BY DEF Said, Arrived
<1>2. InputState' = InputState
  BY <1>1, StateIsSeen
<1>. QED  BY <1>2 DEF Kept

LEMMA ArrivalIsSeen ==
  ASSUME QueueInv, QueueInv', NEW i \in Inputs, Arrives(i)
  PROVE  Kept
<1>1. /\ i \notin Arrived /\ i \notin Said /\ i \notin withdrawn /\ i \notin settled
      /\ Arrived' = Arrived \cup {i} /\ Said' = Said
      /\ withdrawn' = withdrawn /\ settled' = settled
  BY PlacesAfterArrival DEF QueueInv, OnlyArrived, Arrives
<1>2. InputState[i] = "none" /\ InputState' = [InputState EXCEPT ![i] = "waiting"]
  BY <1>1, StateIsSeen DEF Seen
<1>. QED  BY <1>2 DEF Kept, Promise!Next, Promise!Accept, Promise!Step

LEMMA WithdrawalIsSeen ==
  ASSUME QueueInv, QueueInv', NEW i \in Inputs, Withdraw(i)
  PROVE  Kept
<1>1. /\ i \in Arrived /\ i \notin withdrawn /\ i \notin settled
      /\ Arrived' = Arrived /\ Said' = Said
      /\ withdrawn' = withdrawn \cup {i} /\ settled' = settled
  BY DEF QueueInv, MirrorAgrees, Withdraw, CancelQueued, Arrived, Said, Undelivered, Open
<1>2. CASE i \in Said
  <2>1. InputState' = InputState
    BY <1>1, <1>2, StateIsSeen DEF Seen
  <2>. QED  BY <2>1 DEF Kept
<1>3. CASE i \notin Said
  <2>1. InputState[i] = "waiting" /\ InputState' = [InputState EXCEPT ![i] = "withdrawn"]
    BY <1>1, <1>3, StateIsSeen DEF Seen
  <2>. QED  BY <2>1 DEF Kept, Promise!Next, Promise!Withdraw, Promise!Step
<1>. QED  BY <1>2, <1>3

LEMMA SayingIsSeen ==
  ASSUME QueueInv, QueueInv', NEW i \in Inputs, NEW r \in Runs, SayInput(i, r)
  PROVE  Kept
<1>1. /\ Arrived' = Arrived /\ Said' = Said \cup {i}
      /\ withdrawn' = withdrawn /\ settled' = settled
  <2>1. said \in Seq([input : Inputs, run : Nat]) /\ r \in Nat
    BY RunsAssumption DEF QueueInv, TypeOK, QueueTypeOK, Runs
  <2>2. Said' = Said \cup {i}
    BY <2>1, OneMoreSaid
  <2>. QED  BY <2>2 DEF SayInput, Arrived
<1>2. CASE i \in Said
  <2>1. InputState' = InputState
    BY <1>1, <1>2, StateIsSeen DEF Seen
  <2>. QED  BY <2>1 DEF Kept
<1>3. CASE i \notin Said
  <2>1. /\ InputState[i] \in {"none", "waiting", "withdrawn", "cutShort"}
        /\ InputState' = [InputState EXCEPT ![i] = "said"]
    BY <1>1, <1>3, StateIsSeen DEF Seen
  <2>. QED  BY <2>1 DEF Kept, Promise!Next, Promise!Say, Promise!Step
<1>. QED  BY <1>2, <1>3

(* What is settled was said, or waits and is cut short.                     *)
LEMMA SettlingIsSeen ==
  ASSUME QueueInv, QueueInv', NEW i \in Arrived,
         settled' = settled \cup {i}, UNCHANGED <<arrivals, withdrawn, said>>
  PROVE  Kept
<1>1. Arrived' = Arrived /\ Said' = Said /\ i \in Inputs
  BY ArrivedAreInputs DEF Arrived, Said
<1>2. CASE i \in Said \cup withdrawn \cup settled
  <2>1. InputState' = InputState
    BY <1>1, <1>2, StateIsSeen DEF Seen
  <2>. QED  BY <2>1 DEF Kept
<1>3. CASE i \notin Said \cup withdrawn \cup settled
  <2>1. InputState[i] = "waiting" /\ InputState' = [InputState EXCEPT ![i] = "cutShort"]
    BY <1>1, <1>3, StateIsSeen DEF Seen
  <2>. QED  BY <1>1, <2>1 DEF Kept, Promise!Next, Promise!CutShort, Promise!Step
<1>. QED  BY <1>2, <1>3

LEMMA PromiseStep ==
  ASSUME QueueInv, QueueInv', [Next]_vars
  PROVE  Kept
<1>. USE DEF queueVars, streamVars
<1>1. ASSUME NEW i \in Inputs, Look(i) \/ SendStep(i)
      PROVE  Kept
  <2>1. CASE SendQueued(i) \/ (SendIdle(i) /\ ~Launch(i, i)) \/ RegisterWaiting(i)
    BY <2>1, SendIsArrival, ArrivalIsSeen
  <2>2. CASE Look(i) \/ SendSteer(i) \/ (SendIdle(i) /\ Launch(i, i))
    <3>1. UNCHANGED <<arrivals, withdrawn, settled, said>>
      BY <2>2 DEF Look, SendSteer, SendIdle, Launch, MayLaunch, ActiveRunConflict
    <3>. QED  BY <3>1, NothingSeen
  <2>. QED  BY <1>1, <2>1, <2>2 DEF SendStep
<1>2. ASSUME NEW i \in Inputs, Withdraw(i)
      PROVE  Kept
  BY <1>2, WithdrawalIsSeen
<1>3. ASSUME NEW r \in Runs, BodyStep(r)
      PROVE  Kept
  <2>1. CASE Speak(r)
    <3>1. input[r] \in Inputs /\ SayInput(input[r], r)
      BY <2>1 DEF Speak, Advance, QueueInv, TypeOK, RunsSpeak
    <3>. QED  BY <3>1, SayingIsSeen
  <2>2. CASE InjectSay(r)
    <3>1. Oldest(inbox) \in Inputs /\ SayInput(Oldest(inbox), r)
      BY <2>2, OldestFound, ArrivedAreInputs DEF InjectSay
    <3>. QED  BY <3>1, SayingIsSeen
  <2>3. CASE InjectSettle(r)
    <3>1. half \in Arrived /\ settled' = settled \cup {half}
      BY <2>3, ArrivedAreInputs DEF InjectSettle, QueueInv, InboxFits
    <3>. QED  BY <2>3, <3>1, SettlingIsSeen DEF InjectSettle
  <2>4. CASE Begin(r) \/ Drain(r)
    BY <2>4, NothingSeen DEF Begin, Drain
  <2>. QED  BY <1>3, <2>1, <2>2, <2>3, <2>4 DEF BodyStep
<1>4. ASSUME NEW r \in Runs, EndStep(r) \/ CancelRun(r)
      PROVE  Kept
  BY <1>4, NothingSeen
     DEF EndStep, EndRun, FailEarly, WindUp, FinishRun, ReapRun, CancelRun
<1>5. ASSUME NEW d \in Drivers, DriveStep(d)
      PROVE  Kept
  <2>1. CASE Record(d)
    <3>1. driver[d].input \in Arrived
      BY <2>1 DEF Record, QueueInv, DrivesFit
    <3>. QED  BY <2>1, <3>1, SettlingIsSeen DEF Record, Consume
  <2>. QED  BY <1>5, <2>1, NothingSeen DEF DriveStep, Pick, DriveLaunch
<1>6. CASE \/ \E r \in Runs : RelayEnter(r)
           \/ \E f \in Flushers : FlushEnter(f)
           \/ \E r \in Runs, w \in Watchers : Connect(r, w) \/ Disconnect(r, w)
  BY <1>6, NothingSeen DEF RelayEnter, FlushEnter, Connect, Disconnect
<1>7. CASE CrashRestart \/ UNCHANGED vars
  BY <1>7, NothingSeen DEF CrashRestart, RebuildMirror, vars
<1>. QED  BY <1>1, <1>2, <1>3, <1>4, <1>5, <1>6, <1>7 DEF Next

(* An accepted input waits until it is said, withdrawn or cut short: no     *)
(* step of senders, runs, drives, users or a restart makes it vanish or     *)
(* takes back that it was said.                                             *)
THEOREM InputsAreKept == Spec => KeepsInputPromise
<1>1. Init => Promise!Init
  <2>. SUFFICES ASSUME Init PROVE InputState = [i \in Inputs |-> "none"]
    BY DEF Promise!Init
  <2>1. QueueInv
    BY QueueInvInit
  <2>2. Arrived = {} /\ Said = {} /\ withdrawn = {} /\ settled = {}
    BY DEF Init, QueueInit, Arrived, Said, Range
  <2>. QED  BY <2>1, <2>2, StateIsSeen DEF Seen
<1>2. QueueInv /\ QueueInv' /\ [Next]_vars => [Promise!Next]_InputState
  BY PromiseStep DEF Kept
<1>. QED
  BY <1>1, <1>2, QueueInvariance, PTL DEF Spec, KeepsInputPromise, Promise!Spec
=============================================================================
