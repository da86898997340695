---------------------------- MODULE MessageDelivery ----------------------------
(***************************************************************************)
(* From a message sent to a session to the user/message of a run           *)
(* (SessionService.send_message, deliver_next_undelivered, on_run_terminal,*)
(* cancel_queue; POST /queue/flush; AgentRuntime._inject_steers), over     *)
(* the runs of RunManager and the events and the mirror of MessageQueue.   *)
(* A step ends at an await that may suspend: what the code does between    *)
(* two of them is one action.                                              *)
(***************************************************************************)
EXTENDS RunManager, MessageQueue

CONSTANTS Flushers,    \* calls of POST /queue/flush
          Suspending,  \* inputs whose sending awaits between get_active and its use
          MaxCancels,  \* bound: cancellations by the user
          MaxCrashes,  \* bound: deaths of the process
          MaxLeaves,   \* bound: clients that leave a run or come back
          Relay,       \* the subscription of a run that the relay has launched
          None

ASSUME DeliveryAssumption ==
    /\ Watchers = Inputs \cup Flushers \cup {Relay}
    /\ Relay \notin Inputs \cup Flushers
    /\ None \notin Inputs
    /\ Messages \cap Steers = {}
    /\ (Inputs \cup Flushers) \cap Runs = {}
    /\ Suspending \subseteq Inputs
    /\ {MaxCancels, MaxCrashes, MaxLeaves} \subseteq Nat

Drivers == Runs \cup Flushers

VARIABLES
    input,       \* run -> what it was launched with
    inbox,       \* steers that the active run has drained and not settled yet
    half,        \* the steer of inbox whose user/message is written, steer/applied is not
    sending,     \* input -> where send_message stands
    seen,        \* input -> the run that get_active returned to it
    driver,      \* run or flusher -> where deliver_next_undelivered stands
    driveLock,   \* _terminal_drive_lock: the run whose relay holds it
    cancels, crashes, leaves,
    unrecorded,  \* history: inputs whose user/message was written by something
                 \* that could not write the event that settles them
    stale,       \* history: inputs launched by a drive that had picked them before
                 \* another one, a flush or the relay, launched or settled them
    given,       \* history: inputs in the order in which drives launched them
    late         \* history: inputs that arrived when no run was left to relay them

serviceVars == <<input, inbox, half, sending, seen, driver, driveLock>>
boundVars   == <<cancels, crashes, leaves>>
historyVars == <<unrecorded, stale, given, late>>
vars == <<runVars, queueVars, serviceVars, boundVars, historyVars>>

Sendings == {"idle", "looked", "waiting", "sent", "refused"}
Idle == [pc |-> "idle", input |-> None, run |-> NoRun]
Over == [pc |-> "over", input |-> None, run |-> NoRun]

TypeOK ==
    /\ RunsTypeOK
    /\ QueueTypeOK
    /\ input \in [Runs -> Inputs \cup {None}]
    /\ inbox \subseteq Inputs
    /\ half \in Inputs \cup {None}
    /\ sending \in [Inputs -> Sendings]
    /\ seen \in [Inputs -> Runs \cup {NoRun}]
    /\ driver \in [Drivers -> [pc : {"idle", "driving", "picked", "waiting", "over"},
                               input : Inputs \cup {None}, run : Runs \cup {NoRun}]]
    /\ driveLock \in Runs \cup {NoRun}
    /\ cancels \in 0..MaxCancels /\ crashes \in 0..MaxCrashes /\ leaves \in 0..MaxLeaves
    /\ unrecorded \subseteq Inputs
    /\ stale \subseteq Inputs
    /\ given \in Seq(Inputs)
    /\ late \subseteq Inputs

Init ==
    /\ RunsInit
    /\ QueueInit
    /\ input = [r \in Runs |-> None]
    /\ inbox = {} /\ half = None
    /\ sending = [i \in Inputs |-> "idle"]
    /\ seen = [i \in Inputs |-> NoRun]
    /\ driver = [d \in Drivers |-> Idle]
    /\ driveLock = NoRun
    /\ cancels = 0 /\ crashes = 0 /\ leaves = 0
    /\ unrecorded = {} /\ stale = {} /\ given = <<>> /\ late = {}
-----------------------------------------------------------------------------
\* MUTANT: get_active is not asked again under the lock.
MayLaunch_Unasked == Unused # {}
(* resume_and_launch under the session lock: get_active is asked again, and *)
(* the loser of a race gets ActiveRunConflict.                              *)
MayLaunch == GetActive = NoRun /\ Unused # {}

Launch(i, w) ==
    /\ MayLaunch
    /\ LaunchRun(NextRun, w)
    /\ input' = [input EXCEPT ![NextRun] = i]

(* The conflict of a new task with the run in flight.                       *)
ActiveRunConflict == GetActive # NoRun

(* Someone will still read the stream: a run that has not relayed yet.      *)
WillLook == \E r \in Runs :
    \/ stage[r] \in {"created", "spoken", "running", "closed"}
    \/ stage[r] = "relaying" /\ driver[r].pc \in {"idle", "driving"}

Late(i) == late' = IF WillLook THEN late ELSE late \cup {i}
-----------------------------------------------------------------------------
(* send_message *)

(* get_active, and then an await: attachments are resolved, a superseded    *)
(* message is checked, a replaced queue item is cancelled.                  *)
Look(i) ==
    /\ i \in Suspending
    /\ sending[i] = "idle"
    /\ sending' = [sending EXCEPT ![i] = "looked"]
    /\ seen' = [seen EXCEPT ![i] = GetActive]
    /\ UNCHANGED <<runVars, queueVars, input, inbox, half, driver, driveLock,
                   boundVars, historyVars>>

(* send_message goes on with the answer a of get_active.                    *)
GoesOn(i, a) ==
    \/ sending[i] = "looked" /\ a = seen[i]
    \/ sending[i] = "idle" /\ i \notin Suspending /\ a = GetActive

(* A run was in flight: the message is queued, without a second look.       *)
SendQueued(i) ==
    /\ i \in Messages
    /\ \E a \in Runs : GoesOn(i, a)
    /\ Enqueue(i)
    /\ Late(i)
    /\ sending' = [sending EXCEPT ![i] = "sent"]
    /\ UNCHANGED <<runVars, input, inbox, half, seen, driver, driveLock, boundVars,
                   unrecorded, stale, given>>

(* No run was in flight: the message starts one, or is queued when another  *)
(* caller was faster.                                                       *)
SendIdle(i) ==
    /\ i \in Messages
    /\ GoesOn(i, NoRun)
    /\ \/ /\ Launch(i, i)
          /\ UNCHANGED <<queueVars, late>>
       \/ /\ ActiveRunConflict
          /\ Enqueue(i)
          /\ Late(i)
          /\ UNCHANGED <<runVars, input>>
    /\ sending' = [sending EXCEPT ![i] = "sent"]
    /\ UNCHANGED <<inbox, half, seen, driver, driveLock, boundVars, unrecorded, stale, given>>

(* A steer needs a run: SteerTargetNotFound, or wait_run_id of that run.    *)
SendSteer(i) ==
    /\ i \in Steers
    /\ \E a \in Runs \cup {NoRun} :
         /\ GoesOn(i, a)
         /\ seen' = [seen EXCEPT ![i] = a]
         /\ sending' = [sending EXCEPT ![i] = IF a = NoRun THEN "refused" ELSE "waiting"]
    /\ UNCHANGED <<runVars, queueVars, input, inbox, half, driver, driveLock,
                   boundVars, historyVars>>

(* wait_run_id returns the run_id, or None when the run never got one; the  *)
(* steer is registered whatever has become of the run.                      *)
RegisterWaiting(i) ==
    /\ sending[i] = "waiting"
    /\ \/ Begun(seen[i]) /\ RegisterSteer(i, seen[i])
       \/ NeverBegun(seen[i]) /\ RegisterSteer(i, NoRun)
    /\ Late(i)
    /\ sending' = [sending EXCEPT ![i] = "sent"]
    /\ UNCHANGED <<runVars, input, inbox, half, seen, driver, driveLock, boundVars,
                   unrecorded, stale, given>>

(* cancel_queue *)
Withdraw(i) ==
    /\ CancelQueued(i)
    /\ UNCHANGED <<runVars, serviceVars, boundVars, historyVars>>
-----------------------------------------------------------------------------
(* The run of a session *)

(* user/message of the input that the run was launched with.                *)
Speak(r) ==
    /\ Advance(r, "created", "spoken")
    /\ SayInput(input[r], r)
    /\ UNCHANGED <<mirrorVars, serviceVars, boundVars, historyVars>>

(* begin_run: run/started.                                                  *)
Begin(r) ==
    /\ Advance(r, "spoken", "running")
    /\ UNCHANGED <<queueVars, serviceVars, boundVars, historyVars>>

(* drain_steers at the top of the loop: the mirror is emptied, and what is  *)
(* not meant for this run is dropped from it.                               *)
Drain(r) ==
    /\ stage[r] = "running" /\ ~Interrupted(r)
    /\ inbox = {} /\ steerMirror # {}
    /\ inbox' = {i \in steerMirror : target[i] = r}
    /\ steerMirror' = {}
    /\ UNCHANGED <<runVars, streamVars, queueMirror, input, half, sending, seen, driver,
                   driveLock, boundVars, historyVars>>

(* _inject_steers: user/message of the oldest drained steer ...             *)
InjectSay(r) ==
    /\ stage[r] = "running" /\ ~Interrupted(r)
    /\ inbox # {} /\ half = None
    /\ SayInput(Oldest(inbox), r)
    /\ half' = Oldest(inbox)
    /\ UNCHANGED <<runVars, mirrorVars, input, inbox, sending, seen, driver, driveLock,
                   boundVars, historyVars>>

(* ... and then its steer/applied.                                          *)
InjectSettle(r) ==
    /\ stage[r] = "running" /\ ~Interrupted(r)
    /\ half # None
    /\ settled' = settled \cup {half}
    /\ inbox' = inbox \ {half}
    /\ half' = None
    /\ UNCHANGED <<runVars, arrivals, target, withdrawn, said, mirrorVars, input,
                   sending, seen, driver, driveLock, boundVars, historyVars>>

(* The loop ends between two injections.                                    *)
EndRun(r) ==
    /\ inbox = {}
    /\ \E how \in {"completed", "failed", "paused"} : EndBody(r, how)
    /\ UNCHANGED <<queueVars, serviceVars, boundVars, historyVars>>

FailEarly(r) ==
    /\ EndEarly(r)
    /\ UNCHANGED <<queueVars, serviceVars, boundVars, historyVars>>

(* POST /cancel *)
CancelRun(r) ==
    /\ cancels < MaxCancels
    /\ Cancel(r)
    /\ cancels' = cancels + 1
    /\ UNCHANGED <<queueVars, serviceVars, crashes, leaves, historyVars>>

(* The cancelled run drops what it has drained.                             *)
WindUp(r) ==
    /\ CancelArm(r)
    /\ inbox' = {} /\ half' = None
    /\ unrecorded' = unrecorded \cup ({half} \ {None})
    /\ UNCHANGED <<queueVars, input, sending, seen, driver, driveLock, boundVars,
                   stale, given, late>>

FinishRun(r) ==
    /\ Finish(r)
    /\ UNCHANGED <<queueVars, serviceVars, boundVars, historyVars>>

ReapRun(r) ==
    /\ Reap(r)
    /\ UNCHANGED <<queueVars, serviceVars, boundVars, historyVars>>

(* A client connects to the run in flight, or leaves its stream.            *)
Connect(r, w) ==
    /\ leaves < MaxLeaves
    /\ w # Relay
    /\ Subscribe(r, w)
    /\ leaves' = leaves + 1
    /\ UNCHANGED <<queueVars, serviceVars, cancels, crashes, historyVars>>

Disconnect(r, w) ==
    /\ leaves < MaxLeaves
    /\ w # Relay
    /\ Unsubscribe(r, w)
    /\ leaves' = leaves + 1
    /\ UNCHANGED <<queueVars, serviceVars, cancels, crashes, historyVars>>
-----------------------------------------------------------------------------
(* The drive of the next input: on_run_terminal of a run, or a flush *)

Set(d, pc, i, r) == driver' = [driver EXCEPT ![d] = [pc |-> pc, input |-> i, run |-> r]]

(* A drive is over: a relay gives the lock back and its task is done.       *)
Leave(d) ==
    /\ Set(d, "over", None, NoRun)
    /\ driveLock' = IF driveLock = d THEN NoRun ELSE driveLock
    /\ stage' = IF d \in Runs THEN [stage EXCEPT ![d] = "done"] ELSE stage
    /\ UNCHANGED <<current, ended, cancelRequested, reapRequested, subscribers, timer>>

\* MUTANT: two relays may drive at once.
RelayEnter_NoLock(r) ==
    /\ stage[r] = "relaying" /\ driver[r].pc = "idle"
    /\ \/ /\ GetActive # NoRun
          /\ Leave(r)
       \/ /\ GetActive = NoRun
          /\ driveLock' = r
          /\ Set(r, "driving", None, NoRun)
          /\ UNCHANGED runVars
    /\ UNCHANGED <<queueVars, input, inbox, half, sending, seen, boundVars, historyVars>>

(* on_run_terminal: the lock, and then no drive beside a run in flight.     *)
RelayEnter(r) ==
    /\ stage[r] = "relaying" /\ driver[r].pc = "idle"
    /\ driveLock = NoRun
    /\ \/ /\ GetActive # NoRun
          /\ Leave(r)
       \/ /\ GetActive = NoRun
          /\ driveLock' = r
          /\ Set(r, "driving", None, NoRun)
          /\ UNCHANGED runVars
    /\ UNCHANGED <<queueVars, input, inbox, half, sending, seen, boundVars, historyVars>>

(* POST /queue/flush takes no lock.                                         *)
FlushEnter(f) ==
    /\ driver[f].pc = "idle"
    /\ Set(f, "driving", None, NoRun)
    /\ UNCHANGED <<runVars, queueVars, input, inbox, half, sending, seen, driveLock,
                   boundVars, historyVars>>

\* MUTANT: the newest input is delivered first.
Pick_Newest(d) ==
    /\ driver[d].pc = "driving"
    /\ \/ /\ Undelivered = {}
          /\ Leave(d)
       \/ \E i \in Undelivered :
            /\ \A j \in Undelivered : Place(i) >= Place(j)
            /\ Set(d, "picked", i, NoRun)
            /\ UNCHANGED <<runVars, driveLock>>
    /\ UNCHANGED <<queueVars, input, inbox, half, sending, seen, boundVars, historyVars>>

(* deliver_next_undelivered reads the stream and takes the first input.     *)
Pick(d) ==
    /\ driver[d].pc = "driving"
    /\ \/ /\ Undelivered = {}
          /\ Leave(d)
       \/ /\ Undelivered # {}
          /\ Set(d, "picked", Oldest(Undelivered), NoRun)
          /\ UNCHANGED <<runVars, driveLock>>
    /\ UNCHANGED <<queueVars, input, inbox, half, sending, seen, boundVars, historyVars>>

Watcher(d) == IF d \in Runs THEN Relay ELSE d

(* Another drive has launched a run with i and not settled it yet, and the  *)
(* lock of the relays does not keep the two apart, for one is a flush.      *)
Contested(d, i) ==
    \E e \in (Runs \cup Flushers) \ {d} :
        driver[e].pc = "waiting" /\ driver[e].input = i /\ {d, e} \cap Flushers # {}

(* resume_and_launch with the input picked, or ActiveRunConflict.  The      *)
(* subscription that launch makes for a relay is in nobody's hands.         *)
DriveLaunch(d) ==
    /\ driver[d].pc = "picked"
    /\ \/ /\ ActiveRunConflict
          /\ Leave(d)
          /\ UNCHANGED <<input, stale, given>>
       \/ /\ Launch(driver[d].input, Watcher(d))
          /\ Set(d, "waiting", driver[d].input, NextRun)
          /\ given' = Append(given, driver[d].input)
          /\ stale' = IF Open(driver[d].input) /\ ~Contested(d, driver[d].input) THEN stale
                      ELSE stale \cup {driver[d].input}
          /\ UNCHANGED driveLock
    /\ UNCHANGED <<queueVars, inbox, half, sending, seen, boundVars, unrecorded, late>>

\* MUTANT: the input is settled as soon as its run is launched.
Record_AtLaunch(d) ==
    /\ driver[d].pc = "waiting"
    /\ Consume(driver[d].input)
    /\ Leave(d)
    /\ UNCHANGED <<input, inbox, half, sending, seen, boundVars, historyVars>>

(* wait_run_id has returned: the input is taken from the mirror and the     *)
(* event that settles it is written, also when the run never began.         *)
Record(d) ==
    /\ driver[d].pc = "waiting"
    /\ Begun(driver[d].run) \/ NeverBegun(driver[d].run)
    /\ Consume(driver[d].input)
    /\ Leave(d)
    /\ UNCHANGED <<input, inbox, half, sending, seen, boundVars, historyVars>>
-----------------------------------------------------------------------------
(* The process dies and a new one rebuilds the mirror from the stream.      *)
CrashRestart ==
    /\ crashes < MaxCrashes
    /\ crashes' = crashes + 1
    /\ LoseRuns
    /\ RebuildMirror
    /\ inbox' = {} /\ half' = None
    /\ sending' = [i \in Inputs |->
                     IF sending[i] \in {"looked", "waiting"} THEN "refused" ELSE sending[i]]
    /\ driver' = [d \in Drivers |->
                    IF driver[d].pc = "idle" /\ (d \in Runs => ~Working(d))
                      THEN Idle ELSE Over]
    /\ driveLock' = NoRun
    /\ unrecorded' = unrecorded \cup (Said \cap Undelivered)
    /\ UNCHANGED <<input, seen, cancels, leaves, stale, given, late>>
-----------------------------------------------------------------------------
SendStep(i)  == SendQueued(i) \/ SendIdle(i) \/ SendSteer(i) \/ RegisterWaiting(i)
BodyStep(r)  == Speak(r) \/ Begin(r) \/ Drain(r) \/ InjectSay(r) \/ InjectSettle(r)
EndStep(r)   == EndRun(r) \/ FailEarly(r) \/ WindUp(r) \/ FinishRun(r) \/ ReapRun(r)
DriveStep(d) == Pick(d) \/ DriveLaunch(d) \/ Record(d)

Next ==
    \/ \E i \in Inputs : Look(i) \/ SendStep(i) \/ Withdraw(i)
    \/ \E r \in Runs : BodyStep(r) \/ EndStep(r) \/ RelayEnter(r) \/ CancelRun(r)
    \/ \E f \in Flushers : FlushEnter(f)
    \/ \E d \in Drivers : DriveStep(d)
    \/ \E r \in Runs, w \in Watchers : Connect(r, w) \/ Disconnect(r, w)
    \/ CrashRestart

Spec == Init /\ [][Next]_vars

(* The event loop runs what can run: what a request or a run has begun goes *)
(* on, a run ends, a relay is entered.  Users need not do anything.         *)
Fairness ==
    /\ \A i \in Inputs : WF_vars(sending[i] # "idle" /\ SendStep(i))
    /\ \A r \in Runs :
         /\ WF_vars(Speak(r) \/ Begin(r))
         /\ WF_vars(Drain(r) \/ InjectSay(r) \/ InjectSettle(r))
         /\ WF_vars(EndRun(r)) /\ WF_vars(WindUp(r)) /\ WF_vars(FinishRun(r))
         /\ WF_vars(RelayEnter(r))
    /\ \A d \in Drivers : WF_vars(DriveStep(d))

FairSpec == Spec /\ Fairness
-----------------------------------------------------------------------------
(* Properties *)

(* Two runs of a session are never in flight together, whoever launched     *)
(* them: the entry of the session, which cancel, steer and reconnect use,   *)
(* names the only one (the re-check of get_active under the session lock).  *)
OneInFlight == \A r \in Runs : InFlight(r) => r = current

(* The mirror in memory agrees with the stream, also after a restart: what  *)
(* is pending in one is pending in the other; a steer may be missing from   *)
(* the mirror once a run has drained it, and is still open in the stream.   *)
MirrorAgrees ==
    /\ queueMirror = Undelivered \cap Messages
    /\ steerMirror \cup inbox \subseteq Undelivered

(* An input is given to a second run only when the event that settles it    *)
(* was cut off (the process died, or a cancellation fell between the two    *)
(* events of an injection), or when a drive launched what it had picked     *)
(* before its awaits although somebody else had settled it, or a flush or   *)
(* the relay had launched it, in the meantime.  Two relays never do, nor a  *)
(* relay and an injection (the lock of the drive, the run of a steer).      *)
SaidTwiceIsExplained ==
    \A i \in Inputs :
        Cardinality({k \in DOMAIN said : said[k].input = i}) > 1
            => i \in unrecorded \cup stale

(* Drives launch in the order of arrival, messages and steers alike         *)
(* (ADR-0030 D7), across crashes and races with messages that start a run.  *)
(* What is launched a second time, or although it was settled, comes late.  *)
RelayedInOrder ==
    \A j, k \in DOMAIN given :
        j < k => Place(given[j]) <= Place(given[k]) \/ given[k] \in stale

(* An accepted input waits, is said or withdrawn, and never vanishes; it is *)
(* settled without having been said only when its run was cut short.        *)
CutShort(i) == \E r \in Runs : input[r] = i /\ NeverBegun(r)
InputState ==
    [i \in Inputs |->
        CASE i \in Said                     -> "said"
          [] i \in withdrawn \ Said         -> "withdrawn"
          [] i \in settled \ (withdrawn \cup Said)
                                           -> IF CutShort(i) THEN "cutShort" ELSE "vanished"
          [] i \in Arrived /\ Open(i) /\ i \notin Said -> "waiting"
          [] OTHER                         -> "none"]
Promise == INSTANCE InputPromise WITH state <- InputState
KeepsInputPromise == Promise!Spec

(* What a run in flight is recorded to have ended of is what ended it: the  *)
(* reason is orphaned only when no user had asked for the cancellation.     *)
ReasonIsTrue == \A r \in Runs : ended[r] = "orphaned" => ~cancelRequested[r]

(* A run that everybody has left is on the clock of the orphan timer, or is *)
(* already being ended.                                                     *)
DesertedIsTimed ==
    \A r \in Runs :
        InFlight(r) /\ stage[r] # "closed" /\ subscribers[r] = {}
            => timer[r] \/ Interrupted(r)

(* Every accepted input is taken up, withdrawn or settled in the end, unless*)
(* it arrived when no run was left to relay it, or the session stands still *)
(* on purpose (paused) or because a task was cancelled before its first     *)
(* step, so that nobody relays its end.                                     *)
Standstill == current # NoRun /\ (ended[current] = "paused" \/ stage[current] = "skipped")
HandledInTheEnd ==
    \A i \in Inputs :
        i \in Arrived ~> i \in Said \cup withdrawn \cup settled \cup late \/ Standstill
=============================================================================
