# Verification of the agent harness

The repository is a local-first agent harness in Python (`src/agent_harness`):
a loop that asks a model for the next step, executes the tool calls the model
requests, and records everything in an append-only event stream per session.
Its promise to the user is that a session can be interrupted anywhere (process
kill, cancellation, failing storage, lost connection) and continued without
telling the model a lie about what happened to the outside world and without
doing a dangerous thing twice. This directory holds TLA+ modules that model the
part of the code this promise rests on, TLC configurations that check them on
small instances, and proofs for every instance.

Paths below are relative to `src/agent_harness` unless they start with
`goal/`, `tests/` or `docs/`.

## 1. Inventory

### Components of the core

| Component | State | Operations | Interacts with |
|---|---|---|---|
| Event stream (`session/session.py`, `event.py`, `derive.py`) | per session an append-only list of events, numbered by `seq`; in memory a projection of it and the listeners | `append`, `append_async`, replay, `derive_messages`, `collect_dangling` | everything appends to it and derives its state from it; the store makes it durable; the run manager listens |
| Event store (`session/store.py`) | one JSONL file per session | append (allocates `seq` under a lock), read, repair of a torn tail | event stream |
| Operation ledger (`storage/operation.py`, `storage/sqlite.py`) | one row per tool call: state, `attempt_count`, `result_json`, `reconcile_meta` | `create`, `record_attempt`, `update_state` with a transition table under a compare-and-set | written by executor and recovery; read by recovery and by the start-up scan |
| Tool executor (`tooling/executor.py`) | per call only what its coroutine holds | `execute_batch` (exclusive / concurrent / serial), `execute` (gates, admission, retry loop, settlement), `finalize_execution` | ledger, event stream, tools, approvals, quota, locks |
| Recovery (`recovery/coordinator.py`, `reconcile.py`) | a lock per session, tokens of the rows that wait for a verdict | `recover`: repair, synthesise, prepare, resolve, commit, resume | ledger, event stream, a callback that gives verdicts |
| Agent loop (`agent/runtime.py`) | messages, steps, budget of one run | model call, hand-over of a batch to the executor, completion, pause, cancel | executor, event stream, steering queue |
| Run manager (`session/runmanager.py`) | per session the active run, its subscribers, timers | launch, subscribe, cancel, orphan timer, client exit, finish | session service, agent loop, event stream (as listener) |
| Session service (`session/service.py`) | registry of sessions | start, resume, recover, deliver the next queued message, cancel | all of the above |
| Message queue and steering (`session/queue.py`) | queued inputs, as events | enqueue, consume, edit, cancel, inject at a step boundary | service, agent loop |
| Resource locks (`tooling/resource_locks.py`) | one lock per resource key of a session | hold a set of keys during a call | executor |
| Ask-user timeouts (`session/ask_user_timeout.py`, `web/ask_user_timeout_driver.py`) | per session the armed question and its deadline, in memory | arm, run out, retry, disarm, arm again at a start | event stream (as observer), session service |
| Approvals (`tooling/approval*.py`, `session/approval.py`) | per run a queue of open questions with their futures; in the stream the questions, decisions and grants | ask, answer, expire, cancel, grant, revoke, collect | executor, service, event stream, recovery |
| Quota (`tooling/quota.py`) | calls used per tool and window | reserve, give back | executor |
| Session budget (`storage/delegation_tree.py`, `agent/run_budget.py`) | one row per tree of sessions: turns and model requests used; audit events that bracket each interval of requests | admit a step, refund, begin, record and resolve an interval | agent loop (one step at a time), recovery scan |
| Delegation (`multiagent`, `storage/delegation_tree.py`) | tree of child sessions with slots | reserve, start, settle, cancel subtree | executor, run manager |
| Workspace leases (`workspace/lease*.py`) | a lease per directory and a durable queue of waiting sessions | acquire, release, cancel, grant, reconcile at the start | web endpoints; deletion of sessions |
| Memory (`memory`) | records, jobs, outbox | form, commit, relay, recall | event stream, agent loop |
| Model access (`model`) | current model, slots | request with stall detection and fallback | agent loop |
| Watchtower (`watchtower`) | schedule of observation jobs | claim, run, record | session service |

Context building, prompts, artifact storage, sandboxes, plugins, knowledge,
web endpoints, command line and front ends are listed in `PROJECT.json`
("components") with the reason they are left out.

### What is hard

Execution and recovery write two durable media, the ledger and the stream, one
after the other; every gap between two writes is a place to die, to be
cancelled, or to be overtaken. Specifically:

* **Gaps.** Attempt recorded / tool entered / row settled / result appended;
  verdict committed / result appended / verdict reported. The next recovery must
  tell from what is durable what the tool did, and write only what is missing.
* **Unknown effects.** A MUTATING tool that was cut off may have acted. Nobody
  may retry it or call it finished before a verdict.
* **Several recoveries.** `recover()` waits for verdicts outside its lock. A
  rival may settle the same row meanwhile.
* **A recovery beside a live run.** `SessionService.recover` does not look at
  the run registry.
* **Ordered delivery.** Appends come from the event loop and from worker
  threads and become durable in another order than they were issued; listeners
  must see them in the order of `seq`.
* **Runs that end.** Cancellation, an orphan timer, the exit of the client and
  the end of the run race each other.
* **Messages.** A queued input must be consumed once, although the event, the
  in-memory mirror and the launch are separate steps, and a message, a relay
  and a flush may all have found the session idle.
* **A shared budget.** A step is reserved before its requests are made and
  settled after; a cancellation, a failing store or a death may fall anywhere in
  between while a sibling goes on with the same row.
* **Leases.** Two tables, commands of several transactions, clients that are
  absent, sessions that are deleted; a wrong order gives one tree to two writers.
* **A paused run.** The user, a raised budget, the timeout of the question and a
  new task may all take it up; each validates, waits, and validates again.
* **Locks, quotas.** Taken before an `await`, given back on every path.
* **Approvals.** A question is in the stream, in a queue and in a future; several
  users, a timer, a cancellation and a failing append may end it, and the
  next run of the session registers its queue before the last one is collected.

`PROJECT.json` ("hazards") lists these at their lines, with the properties that
cover them, or the module of the plan that will.

### What makes each component correct

* Ledger: a settled row never changes; an attempt is counted before it is made;
  a row says "not started" only of a call that was not started.
* Executor and recovery together: exactly one result per call; results are true
  and backed by the ledger; a doubtful call waits for a verdict; a question is
  never lost, and a plan never approved on the user's behalf; a session is
  resumed with nothing dangling; the verdict is requested, committed and reported in this order; with an automatic callback
  everything is settled in the end.
* Event stream: each listener sees every durable event once, in order; no
  waiter blocks the others for ever.
* Run manager: one run per session; a run is ended for the reason that is
  recorded; a deserted run is on the clock of a timer.
* Queue: every input stays queued until it is delivered or withdrawn, in order,
  and is said once unless a cut-off step leaves no other way.
* Session budget: the row agrees with the streams; nobody is admitted on a count
  that is not whole; a refund takes nothing that is another's; the tree is not
  locked out without a cause.
* Paused run: one of those who take it up launches it; a question has one answer
  and does not stay open for ever; nobody leaves a run open that nobody drives.
* Leases: one writer in a tree of directories; those who wait are served in
  order; a directory is not lost.
* Locks: exclusion, no circular wait, nothing leaks.
* Approvals: nobody passes on an answer that is not in the stream; an answer that
  was acknowledged stands; no question is forgotten.
* Quota: the window counts what holds a slot, exactly.

## 2. Plan

Done:

1. `OperationLedger`, `EventLog`, `ToolExecutor`, `RecoveryCoordinator`,
   `ToolCallRecovery`, `CallPromise`: one batch of tool calls through crashes
   and recoveries. Proofs: `ToolCallRecoveryProofs`.
2. `DeliveryGate`, `OrderedFeed`, `StreamClients`: appends on several threads,
   through the ordered gate, into the feed of a run and to its clients.
   Proofs: `OrderedFeedProofs`, `StreamClientsProofs`.
3. `RunManager`, `MessageQueue`, `MessageDelivery`, `InputPromise`: from a
   message sent to the run that says it. Proofs: `MessageDeliveryProofs`.
4. `BudgetLedger`, `SessionBudget`: the turns and model requests of a tree of
   sessions. Proofs: `SessionBudgetProofs`.
5. `WorkspaceLease`: directories, waiting sessions, restarts. Proofs:
   `ExclusionProofs`.
6. `RunLog`, `PausedRun`: how a paused run goes on, by an answer, a raised
   budget, a timeout, or not at all. Proofs: `PausedRunProofs`.
7. `ResourceLocks`: the locks of tool calls. Proofs: `ExclusionProofs`.
8. `ApprovalGate`: Plan gate, quota and approval of a call. Proofs:
   `ApprovalGateProofs`.

Left, in this order:

9. Explicit exit and presence of clients in `RunManager`, with the hazard at
   `session/runmanager.py:721`; it also gives `WorkspaceLease` its real reader
   of presence, once the code has one.
10. `DelegationTree`: slots, depth and settlement of child agents.
11. `MemoryCommit`, `ModelFallback`, `WatchtowerSchedule`.

## 3. The modules

### OperationLedger and EventLog: what survives

`ledger[c]` is the row of call `c`. `Allowed` is the transition table
(`sqlite.py`), `UpdateState` is `update_state`: table, compare-and-set and the
`COALESCE` that keeps a stored result when none is given. `Create` and
`RecordAttempt` are the other two writes. `reconcile_meta` is kept as what its
readers tell apart: a verdict, the mark of an unproven side effect, or nothing.
`log` is the stream reduced to the seven event types that execution and recovery
read or write. `Dangling` is `collect_dangling`. A ledger write or an append is
atomic and durable; both media survive a crash, nothing else does.

### ToolExecutor: one batch of a run

`run` is the phase of step 7 of `AgentRuntime`: `emit` (the `tool/call` events),
`exec` (`execute_batch`), `finalize` (the results, in order), `cancelling`,
`ended`. `pc[c]` is where `execute()` of call `c` is; each `await` is the
boundary between two actions.

| Action | Code |
|---|---|
| `EmitCall` | the `tool/call` events of the whole batch, before any row |
| `Reject` | any gate that refuses the call before its row exists |
| `CreatePending`, `CancelUnexecuted` | admission; the pairing of a skipped sibling |
| `StartRunning`, `BeginAttempt`, `EnterTool` | RUNNING, `record_attempt`, `Tool.execute` |
| `ToolReturns`, `ToolRetries`, `TimesOut`, `LosesConnection` | outcomes of the retry loop |
| `AskUser`, `Settle` | the question, of a kind that a recovery can restore or not, before the row; the terminal row |
| `StorageFails`, `LedgerRefuses`, `BatchRaises` | a failing or refused write, and the batch that raises |
| `CancelRun`, `CancelArm`, `CancelEnds` | cancellation of the task and its `except CancelledError` arms |
| `CompleteModel`, `EmitResult` | the results of the batch, one by one |
| `ExecutorDies` | the process is gone |

`started` and `doubt` are the world: how often the tool was entered, and why
the executor cannot know its effect. No code reads them; the properties do.
`MyTurn` and `MustSkip` are the modes of `execute_batch`: a blocking user-input
call is alone; a batch of reads runs concurrently; any other batch is serial and
skips what comes after the first failure. The three user-input tools (`ask_user`,
`request_constraint_resolution`, `submit_plan`) declare themselves MUTATING, so
that `UserInput` is a part of `Mutating`.

### RecoveryCoordinator: recover()

Each recoverer `r` has a program counter `rpc[r]`, the snapshot of the stream and
rows it read (`view`, `ops`), what it still has to write (`todo`) and the tokens
of the rows that wait for a verdict. The stages of the first lock section are
`Repair` (a question that can be restored and whose row is still RUNNING),
`Synthesize` and `ClosePending`
(results from the ledger), `Report` (verdicts committed but not in the stream)
and `MarkUnknown`, `MarkNeedReconcile`, `Request` (prepare a verdict). Then the
lock is free, `Resolve` is the callback, and one lock section per verdict follows
(`Reacquire`, `CommitVerdict`, `PairResult`, `Conclude`). A last one writes
`session/resumed`. `Refuse` is every exception the code raises by itself,
`Abort` every one that comes from outside (storage, lock timeout, cancellation).
A question in the stream is `Restorable` if `_user_input_request_result` rebuilds
the result of its call: an `ask_user`, or a `protected_fact_conflict` whose fact
and source still stand, and not answered yet. A `plan_approval` never is (the
comment at `coordinator.py:182`: there is no default action, and a wrong guess
approves or rejects a plan for the user), nor a conflict whose fact has moved, nor
an answered question; such a call is left to a verdict like any other RUNNING
one. The stream carries which of the two a question is from the moment it is
asked. That loses nothing although the code judges it at recovery time: until the
repair or the first transition of the row commits, a recovery leaves no trace of
how it read the question.
Callbacks are "auto" (`AutoReconcileCallback`, used by the start-up scan and by a
plain `POST /recover`), "user" (`DecisionsReconcileCallback`, any verdict) and
"absent" (none). Within a stage calls are taken in any order, since the order of
the code is that of the ids.

### ToolCallRecovery: the composition

The executor and any number of recoverers over the shared ledger and stream, with
the faults `Crash`, `StorageFailure`, `Cancellation` and `RecoveryFailure`.
`LiveRecovery` says whether `recover()` may be called while the run is in flight:
the code allows it, the documents do not expect it; `overlap` is history and says
that it happened. `LostReplies` lets a MUTATING
tool raise `ConnectionError`; `Cancellable` lets the task be cancelled.

### CallPromise: the abstract call

What the loop and the user may rely on, without rows, locks, recoveries or
crashes: a call is requested, entered until it is settled or answered, settled
at most once, answered at most once, with a success only when it is settled so or
has put its question, and with "not executed" only when it was never entered. `KeepsPromise` maps the detailed state to it (`INSTANCE ... WITH`).

### DeliveryGate: from the threads to the listeners

One append per writer. `AsyncWriters` are calls of `append_async`, all on the
event loop; `SyncWriters` are calls of `append`, on a thread of their own or on
the loop (`onLoop`, chosen at the start). `disk` is the file; a number is a
position in it. The sets `unnumbered`, `numbered`, `undelivered`, `ready` and
`skipped` are those of the `_gate_` fields, `through` is
`_gate_delivered_through`, `drain` is `_gate_draining` with the thread that holds
it and where it is. Every section under `_gate_guard` is one action, so that
another thread may step in wherever the code lets go of the guard:

| Action | Code in `session/session.py` |
|---|---|
| `Register` | the token, before the store is called |
| `WriteLine`, `Flush`, `StoreFails` | the store: number and line, shared fsync, failures |
| `Commit`, `Return` | the end of `append` |
| `Callback`, `Wake`, `Raise`, `WaitDelivered`, `Resolved` | `append_async`: done callback, `_deliver_ordered`, `wait_delivered` |
| `CancelWaiter` | the `CancelledError` arms |
| `BeginDrain`, `Check`, `Deliver`, `FinishDrain`, `RunForward` | `_drain_ordered`: the flag, one turn of its loop, memory and listeners outside the guard, its `finally`, the hand-over to the loop |
| `Settle`, `Settled` | `wait_gate_settled` |

`missed` is a history variable: was a drain turned away by one that had looked
for the last time? Not modelled: aggregates that are not delivered to a runtime
(they raise `SeqConflict`), `adopt_history`, the board projection, loops that are
closed, a listener that appends.

### OrderedFeed: the feed of a run

The two channels of `ManagedRun` over the gate: `Listen` is the listener
(`_on_session_event`), `Mirror` the run task (`_drive`), and both pass `Enqueue`,
which compares with `_last_enqueued_seq`.

### StreamClients: replay and queue

The session is a number of durable events, the run in flight a cursor into them
(which `OrderedFeed` justifies). `conn[k]` is a request of client `k` with its
subscription and queue. A client of `followers` asks for `?follow=1`:
`Request` subscribes it before `Read`; any other client is subscribed in `Open`,
after `Read`, as in `stream_reconnect`. `Replay` and `Forward` are the generators
of the endpoint, `Rebuild` is `GET /events` after `stream/truncated`, `Break` a
lost connection. `Enqueue`, `FanOut` and `FanOutSession` are three steps, since
a drain on another thread runs them beside the requests. `unheard` are events
that listeners are never called with: appended by the service while no run is in
flight, written by a coroutine that was cancelled, or still at the gate when the
listener is removed; a client learns of them by a replay only. Not modelled:
the subscriber that `launch` returns, the WebSocket, frames without a number.

### RunManager: the runs of one session

A run is a number; `current` is the entry of the session in `_runs`.
`stage[r]` is where the task of the run stands and `ended[r]` what its body left
in the stream. The listed stages are the ones other code can tell apart:
`wait_run_id` returns from `running` on, `get_active` returns a run until a
terminal fact or `finish()`, the relay runs in `relaying`. A task that is
cancelled before its first step is `skipped`: none of its `finally` blocks run.
`Cancel`, `Reap`, `Subscribe` and `Unsubscribe` are the methods of the same
names, `CancelArm` the arm of the run that reads the reason; `timer[r]` is an
orphan timer that is armed.

### MessageQueue and MessageDelivery: from a message to a run

The stream is what survives: `arrivals` (`message/queued`, `steer/requested`),
`withdrawn`, `settled` (`queue/consumed`, `steer/applied`), `said`
(`user/message`). `Undelivered` is a set: an input arrives once, so that its
`Place` among the arrivals gives the order in which `undelivered_inputs` sorts,
and `Oldest` is the first of a set, for a drive (`pending[0]`) as for the steers
that a run has drained. `queueMirror` and `steerMirror` are the copies in memory;
each operator of `MessageQueue` is an operation of `SessionQueue` with the event
the caller writes before or after it without letting go of the loop.

| Action | Code in `session/service.py`, unless stated |
|---|---|
| `Look`, `SendQueued`, `SendIdle`, `SendSteer`, `RegisterWaiting` | `send_message`: `get_active`, the await that may follow, the branches |
| `Withdraw` | `cancel_queue` |
| `Speak`, `Begin`, `Drain`, `InjectSay`, `InjectSettle`, `EndRun`, `FailEarly` | `agent/runtime.py`: preamble, `drain_steers`, `_inject_steers`, the end |
| `CancelRun`, `WindUp`, `ReapRun`, `FinishRun`, `Connect`, `Disconnect` | the operators of `RunManager` |
| `RelayEnter`, `FlushEnter` | `on_run_terminal` with its lock; `POST /queue/flush` without one |
| `Pick`, `DriveLaunch`, `Record` | `deliver_next_undelivered`: the read, the launch under the session lock, the settling event after `wait_run_id` |
| `CrashRestart` | death, and `rebuild_message_queues` |

Four history variables name the reasons for which an input may be said twice
or be left over: `unrecorded` (it was said and the event that settles it was cut
off), `stale` (a drive launched what it had read before its awaits and somebody
else had settled since, or has launched it too and not settled it yet: a flush
takes no drive lock), `late` (it arrived when no run was left to relay it);
`given` is the order in which drives launched. `InputPromise` is the abstract
input: accepted, then said, withdrawn, or cut short with its run;
`KeepsInputPromise` maps the detailed state to it.

### BudgetLedger and SessionBudget: the budget of a tree

Every operator of `BudgetLedger` is one `BEGIN IMMEDIATE` transaction of
`storage/delegation_tree.py`. A marker is an interval of model requests: a step
reserves one turn and one request with it, a closeout reserves nothing. `life`
is the `owner_id` of the process and `blocked` the set in its memory.
`SessionBudget` is the loop of each agent (`Admit`, `StartRequest`,
`EndRequest`, `Record`, `Accept`, `ExceedContext`, `Pause`, `Closeout`), its arms
for a cancellation or an exception (`Raise`, `ArmRefund`, `ArmDrain`,
`ArmRecord`), and the scan at the start (`Crash`, `Scan`). The stream is
`started` and `settled`, the requests of each interval. `Fault` is a call of a
store that raises: its transaction may have committed or not. `accepted` and
`lost` are history: decisions that were accepted, and intervals on which a call
has failed in this process.

### WorkspaceLease: directories and those who wait for them

`lease` and `queue` are the two tables, the only state; each transaction of
`lease_store.py` is one operator or disjunct. A command holds the write lock of
the manager, so it is one action, except `CancelQueued`, whose second
transaction (`DropAwaiting`) may not happen (`DropFails`, `Crash`). `Overlap`
stands for `paths_conflict`, which compares normalised paths. `Clients` are the
sessions that may have a client present: none with the `NoPresenceReader` that
`web/app.py` assembles, any with the reader it is to be replaced by; the run
takes all, which includes the behaviours of none. `DropSessionRows` and `Start`
are `reconcile_on_restart`, which runs before the first request is served.
`torn` and `deserted` are history: directories whose queue lost its last row
without notice, and directories whose holder's row was deleted at a start.

### RunLog and PausedRun: how a paused run goes on

`RunLog` is the stream reduced to the events about logical runs, with the
functions that read it: `Version`, `PausedOn` and `IsOver` are
`derive_run_budget`, `IsLatest` and `LatestIsPaused` the functions of
`agent/run_budget.py`, `Pending` is `latest_pending_input_request`,
`Unterminated` is `detect_unterminated_runs`, and `AsIfPausedOn` is
`pending_user_input_pause`, which takes a question as a pause when the process
died before `run/paused` was written.

In `PausedRun` a request of a client or of the timeout (`Ticker`) carries a claim:
the run, its budget version and, if it answers, the question. `exec[x]` is an
execution, `slot` the entry of the session in `_runs`, `lock` the session lock
where it is held across an await; a section without one is a single action.

| Action | Code in `session/service.py`, unless stated |
|---|---|
| `Claim` | a client takes the version from the projection; a request that met an error may be sent again |
| `Plan` | `_plan_paused_resume` |
| `CommitRead`, `LoadAggregate`, `Commit` | `_commit_paused_resume`: validation, aggregate and missing pause, answer and `run/resumed` |
| `CommitConflict`, `CommitFails`, `CommitTorn` | the number that is taken, a failure before the first append, one after it |
| `LaunchResumed`, `LaunchFails` | the third section and `RunManager.launch` |
| `Look`, `TaskLaunch` | a new task: the checks before and under the lock |
| `Begin`, `Ask`, `Pause`, `End`, `TaskDone`, `EndsUnsaid` | an execution (`agent/runtime.py`, `tooling/executor.py`), as far as its run goes |
| `Expire`, `Resolve`, `Refuse` | `check_expiries` with `resume_ask_user_timeout` and its three outcomes |
| `Crash`, `Start` (`Scan`, `RestoreTimer`) | `recovery/scan.py`, `restore_ask_user_timeouts` |

The number of events in the loaded aggregate is `seen`; an append is refused when
the log has grown since. `crossed`, `cut` and `dropped` are history: executions
that met each other, runs that a failure left open, and questions a start found
too old for their timer.

### ResourceLocks: calls that want the same resource

A task is a tool call inside `_execute_with_resource_locks`: it names a set of
keys (`Begin`), takes them one after the other in their order (`TakeFree`, or
`Wait` and `Wake`), holds them during the tool and lets go (`Leave`). `Abandon` is
the `except BaseException` arm of `acquire_all`. The `asyncio.Lock` is external
and modelled step by step, since the interleavings come from it: a release only
wakes the first waiter, who takes the lock when he runs; a task that is cancelled
meanwhile has to pass it on; a newcomer may take a free lock whose waiters are
all cancelled. `Cancel` and `Abandon` are two steps, as `Task.cancel` and the
`CancelledError` are. A cancellation of a task that does not wait for a lock falls
into the tool and ends in `Leave`.

### ApprovalGate: from the batch to the ledger row

| Action | Code in `tooling/executor.py`, unless stated |
|---|---|
| `PlanBlocks`, `QuotaRefuses`, `PassesUnasked`, `Asks` | `execute()` from the Plan gate to its first await: `_check_plan_mode`, `take`, `_check_approval`, and `InteractiveCallbackHolder.__call__` up to `wait_for` |
| `Timer`, `CancelRun`, `Accepts` | what ends the wait: the timeout of `wait_for`, a cancellation of the task, the future |
| `WakesAnswered`, `TimesOut`, `IsCancelled` | the three ways out of `__call__` with `expire` and `_persist_resolution`, then the rest of `_check_approval` |
| `CreatesRow` | the ledger row, or the repeated id that gives its slot back; the outcome of the tool |
| `Reads`, `Accepts`, `FailsToAccept`, `Rejects` | `resolve_approval` in `session/service.py`: the read on a thread, then one step with `PendingApprovalQueue.resolve` |
| `SetMode`, `Revoke` | `set_workflow_mode`, `revoke_approval_grant`: appends through an aggregate of their own |
| `Launch`, `Finish`, `Collect` | `_bind_and_launch`, the end of the batch, `_attach_approval_queue_gc` |
| `Crash`, `Recover` | death of the process; the denials of `recovery/coordinator.py:686` |

`requested`, `resolved`, `granted` and `plan` are the stream; `seesGrant` and
`seesPlan` what the aggregate of the run derives from its own copy. A question is
named by its call. `answer` is `_resolved` of the queue, `saved`
`_persisted_approval_ids`. An append is written (`ok`), not written (`lost`), or
written with a failing fsync (`unsure`). Only `bash` and `write` have an approval
identity, so that only they can be granted for a session, and they make their
batch serial. The duration of a grant is the free choice between `PassesUnasked`
and `Asks`. `torn` is history: questions whose pairing could not be written.

## 4. Runs

Bounds: `MaxFaults` (crashes, failing writes, cancellations and failing
recoveries of a behaviour, together), `MaxRecoveries` (calls of `recover()`) and
`MaxAttempts` (the retry loop; the code's constant). The first two have no
counterpart in the code. Two calls are enough to have one that is settled while
the other is in flight, a skipped sibling, and a batch that raises after one
success; three faults are enough to break a call, its recovery, and the recovery
of that.

| Run | Instance | Question |
|---|---|---|
| `write_then_read` | MUTATING, then read-only; 2 attempts, 3 faults, 4 recoveries with the automatic callback, cancellation | Is every attempt on record before it is made, does no doubtful call run again or claim an end, does the batch refine `CallPromise`, is everything settled once the faults stop? |
| `rivals` | a MUTATING call and a question of either kind, lost replies, cancellation, 1 fault, two recoverers with different callbacks, also beside the run | Do lock, token and re-read keep pair, request and report of a verdict consistent, is a question neither lost nor taken for granted? |
| `ordered_feed` | two asynchronous and one synchronous append; 1 failure, 1 cancellation | Are memory, listeners and the feed in order and complete, is a coroutine's event announced on its loop, is everything delivered in the end? |
| `stream_clients` | one client of either kind, 2 runs, 3 events, queues of 1, replays of 2, 1 broken connection | Is a frame ever shown twice or missing without a cause; does a stream end, does a follower catch up? |
| `message_delivery` | 2 messages, 1 steer, 4 runs, 1 cancellation, 1 death | Is there one run at a time, do mirror and stream agree, does no input vanish, are they relayed in order? |
| `message_relay` | message, steer, flush, 3 runs, 1 cancellation, 1 client leaves or comes | Is a deserted run timed, why is an input said twice, is every input taken up in the end? |
| `session_budget` | 2 agents, 3 intervals, ceilings of 4, 2 attempts, 2 steps, 2 faults, 1 death | Does the row agree with the streams, is nobody admitted too early or locked out without a cause? |
| `workspace_lease` | 3 sessions, 3 directories of which 2 overlap | One writer in a tree, waiters in order, no directory that awaits nobody? |
| `paused_run` | 1 client, the timeout, 2 tasks, 2 runs, 2 questions, 5 executions, 1 fault, 1 death | One launch per version, one answer per question, no open run without a driver, no question for ever? |
| `resource_locks` | 3 calls, 3 keys, any set of keys, cancellations anywhere | Never free with somebody waiting, no circle, everybody served? |
| `approvals` | a serial run with 2 calls, a parallel or serial one with 3, 2 users, quota 2, grants, Plan mode, 1 fault | Does nobody pass on an answer in memory, does an accepted answer stand, is no question forgotten, is the window exact? |

Deadlock is not checked where the cfg says `CHECK_DEADLOCK FALSE`: a batch that
is over, with the recoveries spent, is where these systems stop.

**Fairness** (`FairSpec`): the event loop runs every task that can run
(`WF_vars(ExecutorStep)`, `WF_vars(RecoveryStep(r))`); a free lock is taken by a
waiter (the lock is polled with a timeout); and a session whose run has ended
with something open is recovered again (`RecoverWhenOpen`), by the scan at
start-up (`recovery/scan.py`) or the next resume (`service.py`), as long as the
bound allows. The fault actions get no fairness.

`OrderedFeed`: threads are scheduled and the loop runs its callbacks
(`WF_vars(Listen)`); each append makes a bounded number of steps, so that one
condition for all steps is enough. `StreamClients`: a run goes on to its end and
the feed moves (`WF_vars(Feed)`), the server serves each request
(`WF_vars(Serve(k))`), and a follower whose stream has ended connects again
(`subscribeLoop` of `tui/src/app.ts`). Launches, appends, other requests and
broken connections get no fairness.

`MessageDelivery`: the loop runs what a request or a run has begun (a sending
that was looked at, the steps of the body, the end of a run, the relay, a
drive). Users need not do anything: no fairness for sending, flushing,
cancelling, connecting, leaving, for the timer, and for failures.

`PausedRun`: the loop carries through a request that was sent
(`WF_vars(Proceeds(r))`, `WF_vars(TaskLaunch(k))`), an execution gets somewhere
(`WF_vars(Drives(x))`; a model call and a tool have deadlines), and the ticker of
`web/app.py` runs as long as the process (`WF_vars(Expire)`, `WF_vars(Resolve)`).
Nobody has to send anything or start the process again.

`ResourceLocks`: the loop runs a task that can run, and a tool comes back
(`WF_vars(Leave(t))`; the executor gives it a deadline). That waiters are served
in order is not assumed but follows from the queue. `ApprovalGate`, `SessionBudget` and
`WorkspaceLease` state safety only.

The bounds of the two: three appends are the fewest in which one is next, one
overtakes it and one is given up; they reach every branch of the gate. Clients
do not interact, so one is enough; a queue of one overflows with two events, and
two runs give a client the end of one run, the gap before the next, and a cursor
that starts again. `failures`, `cancels`, `breaks`, runs and events are bounded by the guards; the code bounds none of them.

`MessageDelivery`: two messages and a steer are the fewest with which a relay, a
message to an idle session and an injection want the same moment, and a third
input shows the order; `Suspending` names the inputs whose sending awaits after
it has looked, two of three, to bound the states. Four runs let each input have
one and one input a second. `MaxCancels`, `MaxCrashes` and `MaxLeaves` bound
faults and clients. `SessionBudget`: two agents are a parent and a sibling of
its steps (the code does not tell them apart, so the two are symmetric); three
intervals let one be left behind, one be open and one be asked for; a ceiling of
4 is reached with two steps each, minus the reserve for a closeout.
`PausedRun`: two runs are one that is superseded and one that supersedes it, two
questions an armed one and a later one, both of the same run or of two; a
client and the timeout are two resumes that race with different answers. Five
executions are enough for every launch the other bounds allow, so that
`MaxLaunches` never stops a request. A second client would be a third
resumer of the kinds that are there; a second fault or death multiplies the
states beyond what a run can take.
`ResourceLocks` has no bound but its sets: with three calls over three keys a
circle of two and one of three could close, and a queue has two waiters.
`ApprovalGate`: the first run has two calls that may share a grant, and writes
what outlives it; the second has two calls that ask at the same moment and a
third that finds the quota used up; two users are two answers to one question.
`MaxFaults` is 1: a failing append is followed by another answer, the timer or
a cancellation, and a death by the recovery.
`WorkspaceLease` has no bound but its sets: three sessions give a holder, a head
and one behind it; the directories are one, one inside it and one elsewhere.

### Disagreements between the code and its documents

A run that must find its property violated; `PROJECT.json` ("findings") quotes
the sentence.

| Run | What the run shows |
|---|---|
| `find_lost_wakeup` | a drain on its way out turns another away, and an event stays in the gate |

Other disagreements met while modelling, each with the code that produces it; the
properties are worded so that they do not judge them:

* A crash between the synthesised result of a PENDING call and the write that
  closes its row (`Synthesize`, `ClosePending`) leaves the row PENDING: the call
  no longer dangles, and PENDING is not in `needs_reconcile`. The comment at
  `coordinator.py:768` says that this must not happen.
* The event of a DEFER suppresses the report of a later final verdict
  (`Conclude`, `coordinator.py:1205`), so `VerdictReported` asks for a report of
  the call and not of the verdict.
* CONFIRM_SUCCESS keeps the failure a row already holds as the result of a
  success (`VerdictContent`, `coordinator.py:1253`).
* `recover()` beside a live run answers a call that the executor then answers
  again (`service.py:6003`); `KeepsPromise` is checked where it waits. It also
  gives a verdict on a question that is just being asked, and writes
  `session/resumed` beside a call that was announced after it had read the
  stream; `QuestionNotLost` and `ResumeLeavesNothingDangling` exempt it
  (`overlap`).
* `SessionService._reconcile_pending`, the list of what waits for a verdict,
  promises to match the split of `recover()` exactly (`service.py:6184`), but
  leaves out every RUNNING user-input call with an unanswered question, also a
  plan approval, which `recover()` does send to a verdict. A user whose decisions
  cover the list is then refused by `DecisionsReconcileCallback` for a call the
  list did not show; its row has moved by then, and the next list shows it. The
  list is not modelled; the callback "user" may give any verdict, or fail (`Abort`).
* A MUTATING call that is cancelled in flight is closed as CANCELLED and not as
  NEED_RECONCILE (`CancelArm`, `executor.py:712`); `UnprovenHeld` exempts it.
* A MUTATING call is entered again after a lost connection (`LosesConnection`,
  `executor.py:207`); `NoBlindRerun` is checked where replies are not lost.
* `stream_reconnect` reads the file before it subscribes, and an event that is
  enqueued in between is in neither half, although the docstring says "without a
  gap and without a duplicate" (`service.py:3448`; `Read`, `Open`).
  `NoGapNoRepeat` counts the event as `skipped`.
* The same order loses more when the run in flight has not
  enqueued anything yet: its cursor is -1, `replay_upto` with it, and nothing of
  the history is replayed (`Open`; `skipped` records it). `web/websocket.py:224`
  reads before it subscribes as well.
* An event is out of the gate's sets before it is in memory, so that
  `wait_gate_settled` may return one event early; `ReturnedIsDelivered` allows for
  the event a drain has in its hand.
* A recovery that deferred writes `session/resumed` over a call that a rival has
  settled but not yet answered (`ResumeAfterVerdicts`, `coordinator.py:854`);
  `ResumeLeavesNothingDangling` exempts calls with a DEFER in the stream.
* A relayed run that fails before it has written its `user/message` is recorded
  as consumed all the same (`Record`, `service.py:4323`), although the docstring
  of `deliver_next_undelivered` names exactly this as the outcome to be avoided
  (`service.py:4251`). `InputPromise` has the state `cutShort` for it.
* `POST /queue/flush` relays without the drive lock (`FlushEnter`,
  `web/app.py:4662`), so that a flush and the relay at the end of a run may both
  launch the same input, before either has settled it; it is then said twice,
  or said again after it was cut short (`Contested`, `stale`): the lock of
  `service.py:460` keeps apart only the relays.
* A run in flight derives the workflow mode and the grants from its own
  aggregate, and `set_workflow_mode` and `revoke_approval_grant` append through
  another one (`SetMode`, `Revoke`, `service.py:7249`): a switch to Plan holds for
  the next run, although `service.py:7240` calls it effective at once.
* A call of a parallel batch is refused for a slot that its sibling holds while
  it is being asked about (`QuotaRefuses`, `executor.py:567`); when the sibling is
  denied the quota was never used, which `tooling/quota.py:22` gives as the
  outcome that `release` avoids.
* A decision whose fsync failed is on disk but not remembered, and the timeout or
  another answer adds another one (`FailsToAccept`, `session/approval.py:191`),
  although line 186 says that each decision is appended once.
  `AcknowledgedStands` speaks of the last one.
* `launch` subscribes its caller; for a relayed run nobody holds that
  subscription and nobody removes it, so that its orphan timer is never armed
  (`DriveLaunch`, the watcher `Relay`), although ADR-0030 lets the timer bound a
  deserted run. `DesertedIsTimed` speaks of runs that have lost every subscriber.
* Closeouts are admitted each on the snapshot of its own pause: two agents that
  pause together both take the last request, and the ceiling is passed by one
  (`Closeout`, `room`; `run_budget.py:418`). No property bounds the requests.
* In the program as assembled nobody reports presence and nothing calls
  `grant_awaited`: a directory that was released to a waiting session stays
  `awaiting_presence`, until that session cancels (`web/app.py:1403`,
  `lease.py:23`).
* A session that waits for one directory may take another that is free:
  `acquire` inserts the lease before it looks whether the session waits, so that
  it both holds and waits although `LeaseStatus` calls the two exclusive
  (`lease.py:128`). The release of the first directory to it then breaks the
  unique index and is rolled back (`HandOver`).
* `cancel_queued` writes in two transactions (`DropFails`); cut off between them
  it leaves a directory that awaits nobody, which the next start refuses.
  Deleting all that wait for an awaited directory and restarting ends the same
  way; deleting a holder frees its directory over the heads of those who wait.
  `AwaitingIsExplained` and `ServedInOrder` name the three (`torn`, `deserted`).
* The launch of a resumed run takes the session lock a third time and does not
  ask `get_active` (`LaunchResumed`, `session/service.py:2897`). A new task that
  takes the lock between commit and launch finds no active run, so that two
  executions drive one session, which the comment at `service.py:2914` says the
  lock prevents; or its run is over already, and the resume goes on with a run
  that is no longer the latest, contrary to `run_budget.py:1159`. `crossed`
  records both; `TimesOutInTheEnd` exempts it.
* The answer and `run/resumed` are two appends. Cut off between them
  (`CommitTorn`), the question counts as answered and the run stays paused. If
  the timeout was answering, its timer is disarmed at the next expiry, and the
  answer of the user conflicts with the one on record, although
  `session/ask_user_timeout.py:3` promises that the run goes on by itself.

## 5. Proofs

`ToolCallRecoveryProofs` proves for every set of calls, every batch, any number
of recoverers and any number of faults:

* `TypeCorrect`: `Spec => []TypeOK`.
* `WriteAheadHolds`: `Spec => []WriteAhead`. No row precedes its `tool/call`
  (`CallEventFirstHolds`), no attempt its record (`AttemptFirstHolds`).
* `SettledRowStays`: `Spec => SettledOnce`. A settled row is never rewritten.

These three hold with `LiveRecovery`, `LostReplies` and `Cancellable` on or off. The
assumptions are those of the constants: the batch lists each call once, every
user-input tool is MUTATING, at least one attempt, the bounds are numbers, the
special values are not calls or recoverers.

`TypeOK` alone is not inductive: a verdict is written from `current[r]` and
`todo[r]`, and a row from the outcome held in memory. `TypeInv` adds
`RejectedIsOver` (a refused call has no row to settle), `ServesRequest` (a
recovery that is past `Resolve` serves a call), `TodoWhileSettling` and
`ReportsVerdicts` (only committed verdicts are reported).
`AttemptFirst` needs `AttemptCounted`: a call between `record_attempt` and
`Tool.execute` has one attempt more on record than the world has seen.
`CallEventFirst` needs `BatchAnnounced` (what has left phase `emit` has every
`tool/call` in the stream) and `LogGrows` (no step removes an event).
`SettledOnce` follows from `LedgerStep`: whatever the step, a row changes only by
`Create`, `RecordAttempt` or `UpdateState`, and `Allowed` has no transition out
of a terminal state.

Of what the batch promises it proves, for the same constants:

* `QuestionIsNotLost`: `Spec => []QuestionNotLost`. A row that claims a question
  by itself has it in the stream; a question that can be restored never meets a
  verdict; any other, whose row the executor could not settle, is ended by a
  verdict only.
* `UnprovenIsHeld`: `Spec => [](~overlap => UnprovenHeld)`. Only a question in the
  stream that can be restored proves a doubtful call without a verdict.
* `ResumedWhole`: `Spec => ResumeLeavesNothingDangling`.
* `NoSideEffectRepeated`: `Spec => NoBlindRerun`, for `~LiveRecovery` and
  `~LostReplies`.
* `VerdictIsReported`: `Spec => VerdictReported`, for `~LiveRecovery`.
* `PromiseIsKept`: `Spec => KeepsPromise`, the refinement of `CallPromise`, for
  `~LiveRecovery`.

`overlap` and `LiveRecovery` stand for a recovery of a session whose run is in
flight, which the code does not forbid and no document expects. With it these
statements are false: `NoBlindRerun` and `UnprovenHeld` fail on the instance of
`write_then_read` with `LiveRecovery` on, `KeepsPromise` on that of `rivals`, and
TLC finds how (a recovery takes a row for abandoned that the executor is about to
settle); `SettledOnce` and the write-ahead order survive it. `VerdictReported`
holds on the small instance of `rivals` even so, but not in a batch of reads that
run concurrently. `LostReplies` is the case
of a MUTATING tool that raises `ConnectionError`, which the executor retries
(the hazard at `tooling/executor.py:207`).

One inductive invariant, `Known`, carries all six: `TypeInv` and the facts above,
and `~overlap => Alone`. `Alone` says that run and
recovery are not active together (`Calm`), that one recovery at most is inside
the lock and what it has read there is still so (`OneInside`, `FreshView`), how
events follow one another (`StreamGood`), that each call has the row, the answer
and the doubt that its place in `execute()` gives it (`CallGood`), and that what
a recovery still has to write covers everything it found open
(`RecoveryGood`: what a call needs is in `todo`, has a token or is done). The last
is what makes a resume leave nothing behind, and it is inductive only with the
link from each dangling call to the stage that will deal with it. The lemmas go
by kind of step: the run's (`RunMoves`), those of a recovery inside and outside
the lock, and `Crash`. For the refinement the lemmas `AnswerNone`, `AnswerIs` and
`AnswerKeptBy` say how an append changes the answer of a call, and
`PromiseSettle`, `PromiseRequest`, `PromiseAsk`, `PromiseTell`, `PromiseEnter`
map a step to an action of the abstract call; every other step is a stutter.

`OrderedFeedProofs`, for any writers on the loop and on threads, any failures of
the store and cancellations: `TypeCorrect`, `FileOrderIsKept` (of
`DeliveredInOrder`), `NothingBeforeIsMissing` (of `ReturnedIsDelivered`). The
first property alone is not inductive: the next event that is let through must
lie above all that was delivered. `FeedInv` therefore says of every writer where
it stands and in which set of the gate its event is (`PcFits`); that what is
unnumbered, undelivered, ready or skipped lies above `through` (`Above`); that
who was woken lies at or below it (`WaitFits`); and that a line of the file is in
one of those sets, heard, in the hand of the drain, or of an append that failed or
was given up (`Placed`), which is `ReturnedIsDelivered` once `Above` excludes the
sets. What the drain has in its hand is the last that was let through (`HandFits`),
what the settling task owes has been written (`SettlerFits`), and the cursor of
the clients is at the last event they were sent and never past `through`
(`FeedFits`: so the mirror loses no frame). `LowestFound` takes the least number of
a set of lines, `InsortAtEnd` shows that the sorted insertion is an append, which
keeps memory in order. The steps of a writer go by one lemma, `WriterSteps`, on what a
step of one writer can do to the others (`StepOf`), those of a drain by
`DrainSteps`.

`StreamClientsProofs`, for any clients and runs, any lengths of queue and backlog:
`TypeCorrect`, `StreamIsWhole` (of `NoGapNoRepeat`). What a client has been shown
says nothing of what it will be shown, so `StreamInv` says of every event that was
offered to a client (`Offered`, `OfferedAll`: all up to a number, but for the event of
the fan-out under way and what no listener was called with) where it is: shown, due
from the replay, in the queue, or lost in one of the named ways (`Whole`). It adds
that a queue is in order and holds only what was offered (`QueueFits`), that what was
sent lies before what is still to be forwarded (`SentFits`: so what is forwarded next
is next, and the cursor that skips what the replay has shown skips nothing else), how
the subscription and the frames of a request belong to its stage (`StageFits`), that
the fan-out under way is of the newest event of the live run (`FanFits`), and that
without a live run nothing that was not offered ever will be (`RunsFit`: what a client
that comes later reads from the disk is then all there is). A step of the runs
meets the clients one by one: those it offers something to by `SubscriberServed` and
`FollowerServed`, all others by `ClientStays`; a step of a client leaves the rest to
`OthersStay`.

`MessageDeliveryProofs`, for any inputs, flushes, clients and bounds:
`OneRunInFlight`, `DesertedRunIsTimed`, `RecordedReasonIsTrue`. The invariant
`RunsInv` adds to the three properties that a run still in its body has left no
end in the stream (`Unended`, without which a run in flight could count as over)
and that user and timer do not both cancel one (`OneCanceller`, from which the
recorded reason follows). Most actions leave what it speaks of alone, and the
lemmas on `RunManager` carry the rest. Of the inputs: `TypeCorrect`,
`MirrorIsTrue`, `RelayKeepsOrder`, `SecondSayingIsExplained` and the refinement
`InputsAreKept` (`Spec => KeepsInputPromise`). Their invariant `QueueInv` needs
`RunsInv` and adds:

* an input arrives once, and who has not sent it yet has left no trace of it
  (`ArrivesOnce`, `SendersFresh`);
* a steer is meant for a run that had begun when it arrived (`TargetBegun`), and
  what a run has drained is meant for it (`InboxFits`): so no drive that waits for
  the run it launched with a steer meets an injection of the same steer;
* a run says its input before it counts as begun (`RunsSpeak`): so what `Record`
  settles was said or cut short (`SettledIsSaid`);
* what a drive has picked has only settled inputs before it (`First`), at the pick
  and for ever after, since nothing is unsettled and what arrives comes last
  (`DrivesFit`, `GivenFirst`): the order of the launches follows;
* a relay that drives holds the lock (`DrivesFit`), and as long as the history
  knows no reason, an input is said once, is not both said and about to be, and
  while it is said or about to be and still counts as undelivered, the injection
  or the drive that will settle it is under way (`SaidOnce`).

The lemmas go by what steps have in common: an arrival (`Arrives`), a launch
(`Launched`), a step of a run that leaves the inputs alone (`RunOnly`), a step of
a drive that launches nothing (`Moves`). For the refinement, `StateIsSeen` reduces
the abstract state to four sets of facts in the stream, and one lemma for each
fact that can be added maps the step to the abstract action or to a stutter.

`SessionBudgetProofs`, for any agents, intervals, ceilings, failures and deaths:
`TypeCorrect`, `LockedOutOnlyForAReason`, `AdmissionsSeeEverything`,
`TurnsNeverTakenAway`, `EveryRequestOnce`. What an
agent has in hand is an interval of this process, open while it works on it
(`HolderOK`); an open interval with a request in it is in somebody's hands or
forbids new work, and what forbids it has failed or is still to be scanned
(`MarkerOK`); no two agents hold the same (`HoldsAlone`), and nobody works
before the scan is over (`ScanFirst`). `TurnsNeverTakenAway` adds that a
reservation stands behind every step (`Unreserved`) and counts them: every
reservation in hand and every interval whose refund is still to come has a turn
of its own in the row (`Covered`), which makes the theorem inductive.
It uses that the set of agents is finite. `EveryRequestOnce` is `CountAddsUp`,
which counts pairs of an interval and a number, so that the sum over the
intervals changes with one of them at a time (`DueSplits`, `CountChanges`). It
needs what the holder of an interval knows of it (`HolderFits`): between two
requests all that were started have settled, so a drain changes nothing in an
interval that is closed; and a reservation that is to be refunded is still in an
open interval, so it is given back once.

`ExclusionProofs` on `WorkspaceLease`, for any sessions, directories and relation of overlap:
`TreesAreApart`, `NobodyAwaitedInVain`, `QueueIsServedInOrder`. `LeaseInv` adds
that a session waits in one place (`OnePlace`, without which leaving one queue
could empty another), that a cancellation between its transactions has taken the
last row (`DroppingIsLast`), and that a free directory with waiters has lost its
holder (`FreeIsExplained`). Two lemmas say what `RemoveAt` and `Append` do to
the waiters of each directory.

`PausedRunProofs`, for any clients, tasks, runs, questions and bounds:
`TypeCorrect`, `OneLaunchPerVersion`, `FirstAnswerStands`. Versions and answers
are sets of positions of the log, so the first lemmas say what an append does to
them (`Said`, `VersionStays`, `VersionRises`, `AnswersStay`). `DriverInv` adds to
the two properties that every version somebody drives or is about to drive is
one the log has reached (`Granted`, which survives a restart, since the log
does), that whoever wrote `run/resumed` is alone to launch it (`OneClaimant`), and
that what the holder of the lock has validated is still true when he writes
(`HolderIsCurrent`: without the second validation this fails).
`OpenRunHasItsDriver` (`Spec => []OpenRunIsDriven`) is proved of the stronger
`OpenIsCarried`, which does not count an execution that is closing: what opens a
run is written by somebody who then drives it, and whoever stops driving has
closed the run in the log before. The lemmas `OpenAfter` and `CarriedOn` reduce
each step to what it appends and to who leaves.

`ExclusionProofs` on `ResourceLocks`, for any calls and keys of which every set has a
least and a greatest: `LocksTypeCorrect`, `OneCallPerResource`, `FreeLockIsPassedOn`,
`NoDeadlock`. `LocksInv` adds that a call holds only keys below those it still wants (`Ascending`),
that who waits wants something (`Wanting`), that the queue of a key is linear and
each waiter knows who is before him (`QueueOrder`), and that a woken waiter is the
first in the queue of a free lock (`Futures`). `NoDeadlock` takes, in a set
of calls that all wait for one another, the greatest key that one of them waits
for: the call that holds it waits for a key that is greater still.

`ApprovalGateProofs`, for any calls, runs and users: `TypeCorrect`,
`ConsentIsDurable`, `AcceptedAnswerStands`, `OpenQuestionHasItsCall`,
`WindowIsExact`. The four properties need one another, and seven facts more: what
the process believes granted was said (`GrantIsSaid`), a question that is asked is
in the queue or has its last word saved (`QueueAgrees`), nobody can add to an
answer that a user was told is accepted (`AnswersClosed`), the queue that is found is
the one of the run that is driven (`RunsInOrder`: without it a late done callback
would close the wrong queue), and, for the window, that a serial batch holds a
slot only for its next call (`SerialOrder`) and that a stopped batch does not go
on (`StopsTogether`). It uses that the set of calls is finite.

Each invariant was checked by TLC on the instance of its run before it was
proved, `Known` also on a concurrent batch of reads.

Only model-checked: liveness (`EventuallySettled`, `TimesOutInTheEnd`,
`EveryoneServed`, `StreamEnds`, `FollowerCatchesUp`, `HandledInTheEnd`,
`DeliveredUnlessMissed`), which rests on fairness and so on `ENABLED`, out of reach
of the prover. Every safety property of a run is proved.
A concurrent batch of reads is in no run; the theorems about
`ToolCallRecovery` cover it. `TypeOK` is part of every invariant that is proved, and no run repeats it.

## 6. What is left out

* In `ToolExecutor` the gates before admission are one refusing action (`Reject`);
  which gate refuses makes no difference to the ledger or the results.
  `ApprovalGate` models three of them. It leaves out the deadline, decision hooks,
  the verdicts of the rules (`NeedsAsk` is their outcome), the rules file of
  `approve_policy`, and changes of the permission mode.
* Texts, artifacts, truncation, traces, observability, hooks' rewriting of results.
* The contents of a question: `ToolCallRecovery` knows only whether its call can be
  restored (`Restorable`), not what it asks or why it cannot. `defer_session_resumed`, denied approvals as the text of a
  synthesised result, the guard against repeated calls.
* A dangling result whose `tool/call` is missing: unreachable by `CallEventFirst`.
* The retry of a write on a busy database: a write commits or raises.
* The deadline of a run is one of the reasons for cancellation or refusal.
* `MessageDelivery`: a cancellation between the last event of a run and
  `finish()`, pauses (which `PausedRun` models by itself), rounds of a goal, explicit exit
  and presence, `aclose`, launches that fail in their assembly, attachments; and
  the timeout of `wait_run_id` (5 s, `service.py:4316`) while a run is still
  starting: the input is then recorded as consumed before its run has written
  anything, and a death that follows is a second way, besides `cutShort`, in which
  an input goes unsaid. Nor does an append of the store fail: an input whose
  mirror was changed and whose event then was not written, or the reverse, is
  outside `MirrorAgrees`, and such a failure may be one more cause of a second
  saying beside those of `SaidTwiceIsExplained`.
* `SessionBudget`: tokens, cost, deadline and tool tables, the update of limits,
  the slots of delegation (a death between their reservation and the child's
  start leaks one), the ledger in memory used by tests.
* `WorkspaceLease`: the queries. `status` reads three times without the lock and
  may raise when a row leaves the queue in between. Normalisation of paths.
* `PausedRun`: the recovery of dangling calls inside the commit, which
  `ToolCallRecovery` models; events without a run id; the session budget and the
  evidence of a stuck run, which are reasons to refuse a claim; the rejection of a
  plan and other kinds of answers; the mode that goes with an approved plan.
  `TimesOutInTheEnd` is about the questions of `ask_user`: a plan approval has no
  timer by design, and waits for its user without end.
* `ResourceLocks`: `NoLostWakeup` is about `asyncio.Lock`, which is not part of the
  repository and is modelled from its use (`Freed` and the queue of a lock are
  external); what the repository adds is the order of the keys and the release of
  what a cancelled call holds, which `NoCircularWait` and `EveryoneServed` judge.
* The components marked not modelled in `PROJECT.json`.
