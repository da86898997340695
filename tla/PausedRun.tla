------------------------------ MODULE PausedRun ------------------------------
(***************************************************************************)
(* How a paused run of a session goes on (SessionService.resume_and_launch *)
(* with _plan_paused_resume and _commit_paused_resume): a client answers   *)
(* the question of ask_user or raises a budget, the timeout of the         *)
(* question answers for him (web/ask_user_timeout_driver.py), a new task   *)
(* takes the session over, and the start of the process tidies up what the *)
(* last one left (recovery/scan.py).  All of them meet at the session lock *)
(* and at the log of RunLog.                                               *)
(*                                                                         *)
(* A launch makes an execution, which drives its logical run until it      *)
(* pauses or ends: launched (create_task, not stepped yet), live, asking   *)
(* (the question is durable, the pause is not), closing (run/paused is     *)
(* durable, the task is not done), done (or died with its process).        *)
(***************************************************************************)
EXTENDS RunLog

CONSTANTS Clients,     \* they answer a question, each with an answer of its
          AnswerOf,    \* own, or raise the budget of a paused run
          Tasks,       \* new tasks: /messages, /queue/flush, the relay
          Ticker,      \* the timeout driver as a request of its own
          MaxLaunches, \* bound: executions in one behaviour
          MaxFaults,   \* bound: failures of the store, of building a runtime, ...
          MaxCrashes,  \* bound: deaths of the process
          Nobody

Resumers == Clients \cup {Ticker}
Requests == Resumers \cup Tasks

ASSUME PausedRunAssumption ==
    /\ Ticker \notin Clients \cup Tasks /\ Tasks \cap Clients = {}
    /\ AnswerOf \in [Resumers -> Answers]
    /\ {MaxLaunches, MaxFaults, MaxCrashes} \subseteq Nat
    /\ Nobody \notin Requests

Execs  == 1..MaxLaunches
NoExec == 0

VARIABLES up,       \* the process serves requests
          slot,     \* _runs[session_id]: the execution launched last
          exec,     \* execution -> the run and the budget version it drives
          lock,     \* session_lock: who holds it across an await
          pc,       \* request -> where it stands
          claim,    \* resume -> run_id, expected_version and the question
          seen,     \* events in the aggregate that the holder of the lock has loaded
          timer,    \* the question whose timeout is armed
          faults, crashes,
          crossed,  \* history: an execution was launched across another one, or
                    \* resumed a run that a later one had superseded
          cut,      \* history: open runs that a failure left without execution
          dropped   \* history: questions given up as too old at a start

requestVars == <<pc, claim, seen>>
boundVars   == <<faults, crashes>>
historyVars == <<crossed, cut, dropped>>
vars == <<log, up, slot, exec, lock, requestVars, timer, boundVars, historyVars>>

Unlaunched == [run |-> NoRun, version |-> 0, stage |-> "unlaunched"]
Stages == {"unlaunched", "launched", "live", "asking", "closing", "done"}
NoClaim == [run |-> NoRun, version |-> 0, question |-> NoQuestion]
Places == {"idle", "looked", "claimed", "planned", "read", "loaded", "resumed",
           "resolved", "served", "failed"}

TypeOK ==
    /\ LogTypeOK
    /\ up \in BOOLEAN
    /\ slot \in Execs \cup {NoExec}
    /\ exec \in [Execs -> [run : Runs \cup {NoRun}, version : Nat, stage : Stages]]
    /\ lock \in Resumers \cup {Nobody}
    /\ pc \in [Requests -> Places]
    /\ claim \in [Resumers -> [run : Runs \cup {NoRun}, version : Nat,
                               question : Questions \cup {NoQuestion}]]
    /\ seen \in Nat
    /\ timer \in Questions \cup {NoQuestion}
    /\ faults \in Nat /\ crashes \in Nat
    /\ crossed \in BOOLEAN /\ cut \subseteq Runs /\ dropped \subseteq Questions

Init ==
    /\ log = <<>> /\ up = TRUE /\ slot = NoExec
    /\ exec = [x \in Execs |-> Unlaunched]
    /\ lock = Nobody
    /\ pc = [r \in Requests |-> "idle"]
    /\ claim = [r \in Resumers |-> NoClaim]
    /\ seen = 0
    /\ timer = NoQuestion
    /\ faults = 0 /\ crashes = 0
    /\ crossed = FALSE /\ cut = {} /\ dropped = {}
-----------------------------------------------------------------------------
InFlight(x) == exec[x].stage \in {"launched", "live", "asking", "closing"}
Busy == slot # NoExec /\ InFlight(slot)   \* get_active
Locked == lock # Nobody

Fails == faults < MaxFaults /\ faults' = faults + 1
Works == UNCHANGED faults

UnusedExecs == {x \in Execs : exec[x].stage = "unlaunched"}
NextExec == CHOOSE x \in UnusedExecs : TRUE

(* RunManager.launch asks nothing: it overwrites the slot.                  *)
Launch(run, version) ==
    /\ UnusedExecs # {}
    /\ exec' = [exec EXCEPT ![NextExec] =
                  [run |-> run, version |-> version, stage |-> "launched"]]
    /\ slot' = NextExec
    /\ crossed' = (\/ crossed \/ \E x \in Execs : InFlight(x)
                   \/ run # NoRun /\ ~IsLatest(run))

Goes(r, place) == pc' = [pc EXCEPT ![r] = place]

\* MUTANT: a timeout that could not resume is not tried again.
Refuse_ForGood(r) ==
    /\ Goes(r, "idle")
    /\ claim' = [claim EXCEPT ![r] = NoClaim]
    /\ timer' = IF r = Ticker THEN NoQuestion ELSE timer
(* The request is answered with a conflict, and its client may look again.  *)
(* To the driver it is a RETRY: the timer of the question runs anew.        *)
Refuse(r) ==
    /\ Goes(r, "idle")
    /\ claim' = [claim EXCEPT ![r] = NoClaim]
    /\ UNCHANGED timer

(* It is answered with an error: a client may send the same request again.  *)
Fail(r) ==
    IF r = Ticker THEN Refuse(r)
                  ELSE Goes(r, "failed") /\ UNCHANGED <<claim, timer>>

Release == lock' = Nobody /\ seen' = 0
-----------------------------------------------------------------------------
(* Resuming a paused run *)

Answering(r) == claim[r].question # NoQuestion

(* _paused_resume_state with validate_resume: the claimed run is the latest *)
(* one and paused, the version is the current one, the basis of the resume  *)
(* suits the reason of the pause, and no other answer is on record.         *)
Stands(r) ==
    /\ Resumable(claim[r].run, claim[r].question)
    /\ claim[r].version = Version(claim[r].run)
    /\ Answering(r) => ~Conflicts(claim[r].question, AnswerOf[r])

(* A client reads the projection of the session and sends what it shows; a  *)
(* request that met an error may also be sent again as it was.              *)
Claim(r) ==
    /\ up
    /\ r \in Clients
    /\ pc[r] \in {"idle", "failed"}
    /\ \/ \E run \in Runs, q \in Questions \cup {NoQuestion} :
            /\ Resumable(run, q)
            /\ claim' = [claim EXCEPT ![r] =
                  [run |-> run, version |-> Version(run), question |-> q]]
       \/ claim[r] # NoClaim /\ UNCHANGED claim
    /\ Goes(r, "claimed")
    /\ UNCHANGED <<log, up, slot, exec, lock, seen, timer, boundVars, historyVars>>

(* _plan_paused_resume: under the lock, nothing is written.                 *)
Plan(r) ==
    /\ pc[r] = "claimed" /\ ~Locked
    /\ IF Stands(r) /\ ~Busy
         THEN Goes(r, "planned") /\ UNCHANGED <<claim, timer>>
         ELSE Refuse(r)
    /\ UNCHANGED <<log, up, slot, exec, lock, seen, boundVars, historyVars>>

\* MUTANT: what was validated before the lock was free is still taken as true.
CommitRead_Unasked(r) ==
    /\ pc[r] = "planned" /\ ~Locked
    /\ Goes(r, "read") /\ lock' = r
    /\ UNCHANGED <<log, up, slot, exec, claim, seen, timer, boundVars, historyVars>>
(* _commit_paused_resume takes the lock again and validates again.          *)
CommitRead(r) ==
    /\ pc[r] = "planned" /\ ~Locked
    /\ IF Stands(r)
         THEN Goes(r, "read") /\ lock' = r /\ UNCHANGED <<claim, timer>>
         ELSE Refuse(r) /\ UNCHANGED lock
    /\ UNCHANGED <<log, up, slot, exec, seen, boundVars, historyVars>>

(* ... loads the aggregate that the runtime will get, and makes the pause   *)
(* durable that was only taken as given.                                    *)
Loaded(r, length) ==
    /\ Goes(r, "loaded")
    /\ seen' = length
    /\ UNCHANGED <<lock, claim, timer>>

LoadAggregate(r) ==
    /\ pc[r] = "read"
    /\ LET run == claim[r].run
           q   == claim[r].question
       IN  \/ /\ LatestIsPaused \/ q = NoQuestion
              /\ Loaded(r, Len(log)) /\ Unsaid
           \/ /\ ~LatestIsPaused /\ q # NoQuestion
              /\ PendingOf(run, q)
              /\ Says(<<Paused(run, q)>>)
              /\ IF IsLatest(run) THEN Loaded(r, Len(log) + 1) ELSE Refuse(r) /\ Release
           \/ /\ ~LatestIsPaused /\ q # NoQuestion
              /\ ~PendingOf(run, q)
              /\ Refuse(r) /\ Release /\ Unsaid
    /\ UNCHANGED <<up, slot, exec, boundVars, historyVars>>

\* MUTANT: run/resumed is written before the runtime is built.
CommitFails_TooLate(r) ==
    /\ pc[r] \in {"read", "loaded"}
    /\ Fails /\ Fail(r) /\ Release
    /\ Says(<<Resumed(claim[r].run)>>)
    /\ UNCHANGED <<up, slot, exec, crashes, historyVars>>
(* Reading, building the runtime or the last look at the session budget     *)
(* fails, and nothing has been written.                                     *)
CommitFails(r) ==
    /\ pc[r] \in {"read", "loaded"}
    /\ Fails /\ Fail(r) /\ Release
    /\ UNCHANGED <<log, up, slot, exec, crashes, historyVars>>

Unrecorded(r) ==
    IF Answering(r) /\ ~AlreadyRecorded(claim[r].question, AnswerOf[r])
      THEN <<Answer(claim[r].question, AnswerOf[r])>>
      ELSE <<>>

(* ... appends the answer, unless an earlier attempt did, and run/resumed.  *)
Commit(r) ==
    /\ pc[r] = "loaded"
    /\ seen = Len(log)
    /\ Says(Unrecorded(r) \o <<Resumed(claim[r].run)>>)
    /\ Goes(r, "resumed") /\ Release
    /\ UNCHANGED <<up, slot, exec, claim, timer, boundVars, historyVars>>

(* ... or only the first of them.                                           *)
CommitTorn(r) ==
    /\ pc[r] = "loaded"
    /\ seen = Len(log)
    /\ Says(Unrecorded(r))
    /\ Fails /\ Fail(r) /\ Release
    /\ UNCHANGED <<up, slot, exec, crashes, historyVars>>

(* An event has been written since: the aggregate, which no runtime has     *)
(* yet, is refused its number (SeqConflict).                                *)
CommitConflict(r) ==
    /\ pc[r] = "loaded"
    /\ seen # Len(log)
    /\ Fail(r) /\ Release
    /\ UNCHANGED <<log, up, slot, exec, boundVars, historyVars>>

(* Back in resume_and_launch: the lock is taken a third time, and get_active*)
(* is not asked.  The driver disarms if its question is still the armed one.*)
LaunchResumed(r) ==
    /\ pc[r] = "resumed" /\ ~Locked
    /\ Launch(claim[r].run, claim[r].version + 1)
    /\ IF r = Ticker
         THEN /\ Goes(r, "idle") /\ claim' = [claim EXCEPT ![r] = NoClaim]
              /\ timer' = IF timer = claim[r].question THEN NoQuestion ELSE timer
         ELSE Goes(r, "served") /\ UNCHANGED <<claim, timer>>
    /\ UNCHANGED <<log, up, lock, seen, boundVars, cut, dropped>>

(* ... or it fails: the workspace is being deleted, the log is unreadable.  *)
LaunchFails(r) ==
    /\ pc[r] = "resumed" /\ ~Locked
    /\ Fails /\ Fail(r)
    /\ cut' = cut \cup {claim[r].run}
    /\ UNCHANGED <<log, up, slot, exec, lock, seen, crashes, crossed, dropped>>
-----------------------------------------------------------------------------
(* A new task *)

NothingPending == \A q \in Questions : ~Pending(q)

(* The checks of resume_and_launch before it queues up at the lock.         *)
Look(k) ==
    /\ up
    /\ pc[k] \in {"idle", "failed"}
    /\ ~Busy /\ NothingPending
    /\ Goes(k, "looked")
    /\ UNCHANGED <<log, up, slot, exec, lock, claim, seen, timer, boundVars, historyVars>>

(* ... which are made again under it.                                       *)
TaskLaunch(k) ==
    /\ pc[k] = "looked" /\ ~Locked
    /\ \/ ~Busy /\ NothingPending /\ Launch(NoRun, 1) /\ Goes(k, "served")
       \/ (Busy \/ ~NothingPending) /\ Goes(k, "idle") /\ UNCHANGED <<slot, exec, crossed>>
    /\ UNCHANGED <<log, up, lock, claim, seen, timer, boundVars, cut, dropped>>
-----------------------------------------------------------------------------
(* The executions *)

Moves(x, from, to) ==
    /\ exec[x].stage \in from
    /\ exec' = [exec EXCEPT ![x].stage = to]
    /\ UNCHANGED <<up, slot, lock, requestVars, crashes, crossed, dropped>>

(* run_stream: a new run gets its id, a resumed one says nothing.           *)
Begin(x) ==
    /\ exec[x].stage = "launched"
    /\ \/ /\ exec[x].run = NoRun
          /\ \E r \in UnusedRuns :
               /\ \A s \in UnusedRuns : r <= s
               /\ exec' = [exec EXCEPT ![x].run = r, ![x].stage = "live"]
               /\ Says(<<Started(r)>>)
       \/ /\ exec[x].run # NoRun
          /\ exec' = [exec EXCEPT ![x].stage = "live"]
          /\ Unsaid
    /\ UNCHANGED <<up, slot, lock, requestVars, timer, boundVars, historyVars>>

(* ask_user: the event arms the timer of its question through the observer. *)
Ask(x) ==
    /\ Moves(x, {"live"}, "asking")
    /\ \E q \in UnusedQuestions :
         /\ \A p \in UnusedQuestions : q <= p
         /\ Says(<<Asked(exec[x].run, q)>>)
         /\ timer' = q
    /\ Works /\ UNCHANGED cut

(* _terminal_paused: on the question, or for want of budget.                *)
Pause(x) ==
    /\ \/ /\ Moves(x, {"asking"}, "closing")
          /\ \E q \in Questions : PendingOf(exec[x].run, q) /\ Says(<<Paused(exec[x].run, q)>>)
       \/ /\ Moves(x, {"live"}, "closing")
          /\ Says(<<Paused(exec[x].run, NoQuestion)>>)
    /\ Works /\ UNCHANGED <<timer, cut>>

(* A terminal event, which disarms the timer of the session.                *)
End(x) ==
    /\ Moves(x, {"live", "asking"}, "done")
    /\ Says(<<Ended(exec[x].run)>>)
    /\ timer' = NoQuestion
    /\ Works /\ UNCHANGED cut

TaskDone(x) ==
    /\ Moves(x, {"closing"}, "done")
    /\ Unsaid /\ Works /\ UNCHANGED <<timer, cut>>

(* Cancelled before its first step, or its last event cannot be written.    *)
EndsUnsaid(x) ==
    /\ \/ Moves(x, {"launched"}, "done") /\ Works
       \/ Moves(x, {"live", "asking"}, "done") /\ Fails
    /\ cut' = cut \cup ({exec[x].run} \ {NoRun})
    /\ Unsaid /\ UNCHANGED timer
-----------------------------------------------------------------------------
(* The timeout of a question *)

(* check_expiries and resume_ask_user_timeout: the armed question has       *)
(* expired, and the log is asked whether its run still waits for it.        *)
Expire ==
    /\ up
    /\ pc[Ticker] = "idle" /\ timer # NoQuestion
    /\ \/ \E run \in Runs :
            /\ Pending(timer) /\ Resumable(run, timer)
            /\ claim' = [claim EXCEPT ![Ticker] =
                  [run |-> run, version |-> Version(run), question |-> timer]]
            /\ Goes(Ticker, "claimed")
       \/ /\ ~Pending(timer) \/ \A run \in Runs : ~Resumable(run, timer)
          /\ claim' = [claim EXCEPT ![Ticker] = [NoClaim EXCEPT !.question = timer]]
          /\ Goes(Ticker, "resolved")
    /\ UNCHANGED <<log, up, slot, exec, lock, seen, timer, boundVars, historyVars>>

(* RESOLVED, some awaits later: another question may be armed by now.       *)
Resolve ==
    /\ pc[Ticker] = "resolved"
    /\ Goes(Ticker, "idle")
    /\ claim' = [claim EXCEPT ![Ticker] = NoClaim]
    /\ timer' = IF timer = claim[Ticker].question THEN NoQuestion ELSE timer
    /\ UNCHANGED <<log, up, slot, exec, lock, seen, boundVars, historyVars>>
-----------------------------------------------------------------------------
(* The death of the process and its next start *)

Crash ==
    /\ up /\ crashes < MaxCrashes
    /\ crashes' = crashes + 1
    /\ up' = FALSE /\ slot' = NoExec /\ Release /\ timer' = NoQuestion
    /\ exec' = [x \in Execs |-> IF InFlight(x) THEN [exec[x] EXCEPT !.stage = "done"] ELSE exec[x]]
    /\ pc' = [r \in Requests |->
                IF r = Ticker THEN "idle"
                ELSE IF pc[r] \in {"idle", "served"} THEN pc[r] ELSE "failed"]
    /\ claim' = [claim EXCEPT ![Ticker] = NoClaim]
    /\ crossed' = FALSE
    /\ UNCHANGED <<log, faults, cut, dropped>>

(* scan_interrupted: an open run that waits for an answer is paused, and    *)
(* only if there is none are the open runs interrupted.                     *)
Scan ==
    \/ /\ ~LatestIsPaused
       /\ \E r \in Unterminated, q \in Questions :
            IsLatest(r) /\ PendingOf(r, q) /\ Says(<<Paused(r, q)>>)
       /\ Works
       /\ cut' = Unterminated'
    \/ /\ LatestIsPaused \/ \A r \in Unterminated : IsLatest(r) => Unanswered(r) = {}
       /\ Says(SetToSeq({Ended(r) : r \in Unterminated}))
       /\ Works
       /\ cut' = {}
    \/ /\ Fails /\ Unsaid
       /\ cut' = Unterminated

(* restore_ask_user_timeouts, note_session_state: the timer of a question   *)
(* that the latest run is paused on is armed again, and one that has only   *)
(* been asked if that is not too long ago.                                  *)
RestoreTimer ==
    \/ /\ \A q \in Questions : ~Pending(q)'
       /\ timer' = NoQuestion /\ UNCHANGED dropped
    \/ \E q \in Questions, r \in Runs :
         /\ Pending(q)' /\ IsLatest(r)'
         /\ \/ PausedOn(r, q)' /\ timer' = q /\ UNCHANGED dropped
            \/ AsIfPausedOn(r, q)' /\ timer' = q /\ UNCHANGED dropped
            \/ ~PausedOn(r, q)' /\ timer' = NoQuestion /\ dropped' = dropped \cup {q}

Start ==
    /\ ~up
    /\ up' = TRUE
    /\ Scan
    /\ RestoreTimer
    /\ UNCHANGED <<slot, exec, lock, requestVars, crashes, crossed>>
-----------------------------------------------------------------------------
CommitEnds(r) == Commit(r) \/ CommitTorn(r) \/ CommitConflict(r) \/ CommitFails(r)
Proceeds(r) == Plan(r) \/ CommitRead(r) \/ LoadAggregate(r) \/ CommitEnds(r)
                 \/ LaunchResumed(r) \/ LaunchFails(r)
Drives(x) == Begin(x) \/ Ask(x) \/ Pause(x) \/ End(x) \/ TaskDone(x)

Next ==
    \/ \E r \in Resumers : Claim(r) \/ Proceeds(r)
    \/ \E k \in Tasks : Look(k) \/ TaskLaunch(k)
    \/ \E x \in Execs : Drives(x) \/ EndsUnsaid(x)
    \/ Expire \/ Resolve
    \/ Crash \/ Start

(* A request that has been sent is carried through, an execution gets       *)
(* somewhere, and the ticker ticks.  Nobody has to send a request, and      *)
(* nobody has to start the process again.                                   *)
Fairness ==
    /\ \A r \in Resumers : WF_vars(Proceeds(r))
    /\ \A k \in Tasks : WF_vars(TaskLaunch(k))
    /\ \A x \in Execs : WF_vars(Drives(x))
    /\ WF_vars(Expire) /\ WF_vars(Resolve)

Spec == Init /\ [][Next]_vars /\ Fairness
-----------------------------------------------------------------------------
(* Properties *)

(* No budget version of a run is ever driven by two executions, not even by *)
(* one before and one after a restart: of all who resume the same pause,    *)
(* with an answer, a raised budget or the timeout, one launches.            *)
OneDriverPerVersion ==
    \A x, y \in Execs :
      x # y /\ exec[x].run # NoRun /\ exec[x].run = exec[y].run
        => exec[x].version # exec[y].version

(* A question has one answer at most, and who was told that the run resumed *)
(* with his answer finds that one in the log, even if another attempt got   *)
(* half way before him.                                                     *)
AnswerStands ==
    /\ \A q \in Questions : \A i, j \in AnswersTo(q) : i = j
    /\ \A r \in Resumers :
         pc[r] \in {"resumed", "served"} /\ Answering(r)
           => AlreadyRecorded(claim[r].question, AnswerOf[r])

(* A run that the log shows as open has an execution, or a resume about to  *)
(* launch one, unless a failure after run/resumed or in the scan left it    *)
(* behind: no refused or failed resume opens a run.                         *)
OpenRunIsDriven ==
    up => \A run \in Unterminated \ cut :
            \/ \E x \in Execs : InFlight(x) /\ exec[x].run = run
            \/ \E r \in Resumers : pc[r] = "resumed" /\ claim[r].run = run

(* No question stays without an answer for ever while the process runs: the *)
(* timeout answers in the end, however often it loses a race.               *)
TimesOutInTheEnd ==
    \A q \in Questions :
      []<>~(up /\ ~crossed /\ q \notin dropped /\ Pending(q))
=============================================================================
