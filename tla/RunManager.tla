------------------------------ MODULE RunManager ------------------------------
(***************************************************************************)
(* The managed runs of ONE session (session/runmanager.py): launching,     *)
(* get_active, the cancellation, the subscribers with the orphan timer,    *)
(* finish(), and the death of the process.  A run is a number that no      *)
(* earlier launch has used.  What a run says and to whom its end is        *)
(* relayed is left to the module that extends this one.                    *)
(*                                                                         *)
(* stage[r] is the place of the task of run r:                             *)
(*   none, created (create_task, not stepped yet), spoken (user/message    *)
(*   is durable or there is none to write), running (run/started is        *)
(*   durable: run_id is known), closed (the body of run_stream is left),   *)
(*   relaying (finish() done, _notify_run_terminal in progress), done,     *)
(*   skipped (cancelled before its first step: the coroutine never runs,   *)
(*   nor do its finally blocks), gone (the process died).                  *)
(* ended[r] is what the body left in the event stream: a terminal fact,    *)
(* a pause, or nothing (no run_id yet).                                    *)
(***************************************************************************)
EXTENDS Naturals, FiniteSets

CONSTANTS MaxRuns,    \* bound: launches in one behaviour
          Watchers    \* those who hold a subscription to a run

ASSUME RunsAssumption == MaxRuns \in Nat

Runs  == 1..MaxRuns
NoRun == 0

Stages == {"none", "created", "spoken", "running", "closed", "relaying",
           "done", "skipped", "gone"}
Facts  == {"completed", "failed", "cancelled", "orphaned"}
Ends   == Facts \cup {"paused", "nothing", "open"}

VARIABLES current,          \* _runs[session_id]: the run launched last
          stage, ended,
          cancelRequested, reapRequested,
          subscribers, timer

runVars == <<current, stage, ended, cancelRequested, reapRequested,
             subscribers, timer>>

RunsTypeOK ==
    /\ current \in Runs \cup {NoRun}
    /\ stage \in [Runs -> Stages]
    /\ ended \in [Runs -> Ends]
    /\ cancelRequested \in [Runs -> BOOLEAN]
    /\ reapRequested \in [Runs -> BOOLEAN]
    /\ subscribers \in [Runs -> SUBSET Watchers]
    /\ timer \in [Runs -> BOOLEAN]

RunsInit ==
    /\ current = NoRun
    /\ stage = [r \in Runs |-> "none"]
    /\ ended = [r \in Runs |-> "open"]
    /\ cancelRequested = [r \in Runs |-> FALSE]
    /\ reapRequested = [r \in Runs |-> FALSE]
    /\ subscribers = [r \in Runs |-> {}]
    /\ timer = [r \in Runs |-> FALSE]
-----------------------------------------------------------------------------
\* MUTANT: finish() leaves the run as busy as it was.
Terminal_ByFact(r) == ended[r] \in Facts
(* ManagedRun.terminal: set by the listener on a terminal fact, and by      *)
(* finish().                                                                *)
Terminal(r) == ended[r] \in Facts \/ stage[r] \in {"relaying", "done"}

(* The task exists and is not done. *)
Working(r) == stage[r] \in {"created", "spoken", "running", "closed", "relaying"}

InFlight(r) == Working(r) /\ ~Terminal(r)

GetActive == IF current # NoRun /\ InFlight(current) THEN current ELSE NoRun

(* The body of run_stream makes progress as long as no CancelledError is    *)
(* on its way into the task.                                                *)
Interrupted(r) == cancelRequested[r] \/ reapRequested[r]

(* run_id of the ManagedRun: wait_run_id returns it.                        *)
Begun(r) == stage[r] = "running" \/ ended[r] \in Facts \cup {"paused"}

(* The run is over, and run/started was never written: wait_run_id waits    *)
(* in vain and returns None after its five seconds.                         *)
NeverBegun(r) == stage[r] = "skipped" \/ ended[r] = "nothing"

Unused == {r \in Runs : stage[r] = "none"}
NextRun == CHOOSE r \in Unused : TRUE
-----------------------------------------------------------------------------
(* launch: the entry of the session is overwritten, the task created and    *)
(* the first subscriber registered.                                         *)
LaunchRun(r, w) ==
    /\ stage[r] = "none"
    /\ current' = r
    /\ stage' = [stage EXCEPT ![r] = "created"]
    /\ subscribers' = [subscribers EXCEPT ![r] = {w}]
    /\ UNCHANGED <<ended, cancelRequested, reapRequested, timer>>

(* The body of the run goes one stage on.                                   *)
Advance(r, from, to) ==
    /\ stage[r] = from
    /\ ~Interrupted(r)
    /\ stage' = [stage EXCEPT ![r] = to]
    /\ UNCHANGED <<current, ended, cancelRequested, reapRequested, subscribers, timer>>

(* The body leaves of its own accord with the given event; the listener     *)
(* drops the orphan timer on a terminal one.                                *)
EndBody(r, how) ==
    /\ stage[r] = "running"
    /\ ~Interrupted(r)
    /\ how \in {"completed", "failed", "paused"}
    /\ stage' = [stage EXCEPT ![r] = "closed"]
    /\ ended' = [ended EXCEPT ![r] = how]
    /\ timer' = [timer EXCEPT ![r] = @ /\ how = "paused"]
    /\ UNCHANGED <<current, cancelRequested, reapRequested, subscribers>>

(* The body leaves before run/started: an exception in the preamble.        *)
EndEarly(r) ==
    /\ stage[r] \in {"created", "spoken"}
    /\ ~Interrupted(r)
    /\ stage' = [stage EXCEPT ![r] = "closed"]
    /\ ended' = [ended EXCEPT ![r] = "nothing"]
    /\ UNCHANGED <<current, cancelRequested, reapRequested, subscribers, timer>>

(* The reason that the cancellation arm reads when it writes the terminal   *)
(* event.                                                                   *)
CancelReason(r) == IF reapRequested[r] THEN "orphaned" ELSE "cancelled"

(* The CancelledError arrives: a task that never took a step is over at     *)
(* once, one that has a run_id writes its terminal event, any other leaves  *)
(* without one.                                                             *)
CancelArm(r) ==
    /\ Interrupted(r)
    /\ \/ /\ stage[r] = "created"
          /\ stage' = [stage EXCEPT ![r] = "skipped"]
          /\ UNCHANGED <<ended, timer>>
       \/ /\ stage[r] \in {"created", "spoken"}
          /\ stage' = [stage EXCEPT ![r] = "closed"]
          /\ ended' = [ended EXCEPT ![r] = "nothing"]
          /\ UNCHANGED timer
       \/ /\ stage[r] = "running"
          /\ stage' = [stage EXCEPT ![r] = "closed"]
          /\ ended' = [ended EXCEPT ![r] = CancelReason(r)]
          /\ timer' = [timer EXCEPT ![r] = FALSE]
    /\ UNCHANGED <<current, cancelRequested, reapRequested, subscribers>>

(* finish(), and then the relay unless the run has paused.                  *)
Finish(r) ==
    /\ stage[r] = "closed"
    /\ stage' = [stage EXCEPT ![r] = IF ended[r] = "paused" THEN "done" ELSE "relaying"]
    /\ timer' = [timer EXCEPT ![r] = FALSE]
    /\ UNCHANGED <<current, ended, cancelRequested, reapRequested, subscribers>>

(* cancel(): the user's stop button.  A repeated call, or one that follows  *)
(* the reaper, changes nothing.                                             *)
Cancel(r) ==
    /\ r # NoRun
    /\ r = GetActive
    /\ stage[r] # "closed"
    /\ ~Interrupted(r)
    /\ cancelRequested' = [cancelRequested EXCEPT ![r] = TRUE]
    /\ UNCHANGED <<current, stage, ended, reapRequested, subscribers, timer>>

(* subscribe(): the orphan timer is dropped.                                *)
Subscribe(r, w) ==
    /\ r # NoRun
    /\ r = GetActive
    /\ w \notin subscribers[r]
    /\ subscribers' = [subscribers EXCEPT ![r] = @ \cup {w}]
    /\ timer' = [timer EXCEPT ![r] = FALSE]
    /\ UNCHANGED <<current, stage, ended, cancelRequested, reapRequested>>

\* MUTANT: the subscribers are counted before the leaving one is removed.
Unsubscribe_CountsItself(r, w) ==
    /\ w \in subscribers[r]
    /\ subscribers' = [subscribers EXCEPT ![r] = @ \ {w}]
    /\ timer' = [timer EXCEPT ![r] = @ \/ (subscribers[r] = {} /\ ~Terminal(r))]
    /\ UNCHANGED <<current, stage, ended, cancelRequested, reapRequested>>

(* unsubscribe(): the last one to leave a run that is not over arms it.     *)
Unsubscribe(r, w) ==
    /\ w \in subscribers[r]
    /\ subscribers' = [subscribers EXCEPT ![r] = @ \ {w}]
    /\ timer' = [timer EXCEPT ![r] = @ \/ (subscribers[r] = {w} /\ ~Terminal(r))]
    /\ UNCHANGED <<current, stage, ended, cancelRequested, reapRequested>>


(* _reap_if_orphaned(): the grace has passed.                               *)
Reap(r) ==
    /\ timer[r]
    /\ timer' = [timer EXCEPT ![r] = FALSE]
    /\ reapRequested' = [reapRequested EXCEPT
          ![r] = @ \/ (subscribers[r] = {} /\ ~Terminal(r) /\ ~cancelRequested[r])]
    /\ UNCHANGED <<current, stage, ended, cancelRequested, subscribers>>

(* The process dies: no task, no timer and no subscriber survives.          *)
LoseRuns ==
    /\ current' = NoRun
    /\ stage' = [r \in Runs |-> IF Working(r) THEN "gone" ELSE stage[r]]
    /\ cancelRequested' = [r \in Runs |-> FALSE]
    /\ reapRequested' = [r \in Runs |-> FALSE]
    /\ subscribers' = [r \in Runs |-> {}]
    /\ timer' = [r \in Runs |-> FALSE]
    /\ UNCHANGED ended
=============================================================================
