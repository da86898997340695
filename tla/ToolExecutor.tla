---------------------------- MODULE ToolExecutor ----------------------------
(***************************************************************************)
(* One batch of tool calls of one run: AgentRuntime step 7 (runtime.py)    *)
(* around ToolExecutor.execute_batch / execute (tooling/executor.py).      *)
(*                                                                         *)
(* Every await of the coroutine is a boundary between two actions, so that *)
(* a crash, a cancellation, another call of the batch or a recovery can    *)
(* come in between; what is done between two awaits is one action.         *)
(***************************************************************************)
EXTENDS EventLog

CONSTANTS Batch,        \* the calls in the order the model requested them
          Mutating,     \* calls of a tool with side_effect MUTATING
          UserInput,    \* of these, the calls of a blocking user-input tool:
                        \* ask_user, request_constraint_resolution, submit_plan
          MaxAttempts   \* MAX_ATTEMPTS of the retry loop

ASSUME BatchAssumption ==
  /\ Batch \in Seq(Calls)
  /\ Len(Batch) > 0
  /\ \A c \in Calls : \E i \in 1..Len(Batch) : Batch[i] = c
  /\ \A i, j \in 1..Len(Batch) : Batch[i] = Batch[j] => i = j
ASSUME ToolAssumption ==
  /\ Mutating \subseteq Calls
  /\ UserInput \subseteq Mutating
  /\ MaxAttempts \in Nat \ {0}

VARIABLES
  run,       \* phase of the run task
  cursor,    \* calls of the batch the current loop has dealt with
  pc,        \* pc[c]: where execute() of call c is
  outcome,   \* outcome[c]: the ToolResult held in memory
  started,   \* the world: how often Tool.execute of c was entered
  doubt      \* the world: why the effect of c is unknown to the executor

exVars == <<run, cursor, pc, outcome, started, doubt>>

RunPhases == {"emit", "exec", "cancelling", "finalize", "ended"}
CallPhases == {"wait", "skipping", "pending", "running", "recorded",
               "executing", "returned", "asked", "done", "gone"}
Outcomes == {"none", "ok", "fail", "timeout", "rejected", "cancelled"}
Doubts == {"none", "timeout", "lost", "cancel", "unseen"}

-----------------------------------------------------------------------------
\* execute_batch: a blocking user-input call is alone in its authority to act;
\* otherwise a batch of reads runs concurrently and any MUTATING call makes
\* the whole batch serial, in input order.
Earlier(c) == {Batch[i] : i \in {k \in 1..Len(Batch) :
                 \E j \in 1..Len(Batch) : Batch[j] = c /\ k < j}}
Exclusive(c) == c \in UserInput /\ Earlier(c) \cap UserInput = {}
Parallel == Mutating = {}

MyTurn(c) == Parallel \/ \A d \in Earlier(c) : pc[d] = "done"

\* The siblings of a blocking question, and in a serial batch what comes after
\* the first call that did not succeed, are paired without being executed.
MustSkip(c) ==
  IF UserInput # {} THEN ~Exclusive(c)
  ELSE ~Parallel /\ \E d \in Earlier(c) : outcome[d] # "ok"

InFlight(c) == pc[c] \notin {"wait", "done", "gone"}
ToolEntered(c) == pc[c] \in {"executing", "returned", "asked"}

Goto(c, where) == pc' = [pc EXCEPT ![c] = where]

-----------------------------------------------------------------------------
\* MUTANT: the batch starts once the first tool/call is durable.
AllAnnounced_First == TRUE
AllAnnounced == cursor + 1 = Len(Batch)

\* The tool/call events of the whole batch are durable before any call runs.
EmitCall ==
  /\ run = "emit"
  /\ Emit(Event("tool/call", Batch[cursor + 1], "none"))
  /\ IF AllAnnounced
     THEN run' = "exec" /\ cursor' = 0
     ELSE cursor' = cursor + 1 /\ UNCHANGED run
  /\ UNCHANGED <<ledger, pc, outcome, started, doubt>>

\* Any gate before the admission point refuses the call: unknown tool, hook,
\* arguments, deadline, quota, approval.  No row is written.
Reject(c) ==
  /\ run = "exec" /\ pc[c] = "wait" /\ MyTurn(c) /\ ~MustSkip(c)
  /\ Goto(c, "done")
  /\ outcome' = [outcome EXCEPT ![c] = "rejected"]
  /\ UNCHANGED <<ledger, log, run, cursor, started, doubt>>

\* Admission: the PENDING row, or the one _cancel_without_execution writes.
CreatePending(c) ==
  /\ run = "exec" /\ pc[c] = "wait" /\ MyTurn(c)
  /\ Create(c)
  /\ Goto(c, IF MustSkip(c) THEN "skipping" ELSE "pending")
  /\ UNCHANGED <<log, run, cursor, outcome, started, doubt>>

CancelUnexecuted(c) ==
  /\ run = "exec" /\ pc[c] = "skipping"
  /\ UpdateState(c, "CANCELLED", "cancelled", "none")
  /\ Goto(c, "done")
  /\ outcome' = [outcome EXCEPT ![c] = "cancelled"]
  /\ UNCHANGED <<log, run, cursor, started, doubt>>

StartRunning(c) ==
  /\ run = "exec" /\ pc[c] = "pending"
  /\ UpdateState(c, "RUNNING", "none", "none")
  /\ Goto(c, "running")
  /\ UNCHANGED <<log, run, cursor, outcome, started, doubt>>

\* record_attempt commits before Tool.execute is entered.
BeginAttempt(c) ==
  /\ run = "exec" /\ pc[c] = "running"
  /\ RecordAttempt(c)
  /\ Goto(c, "recorded")
  /\ UNCHANGED <<log, run, cursor, outcome, started, doubt>>

EnterTool(c) ==
  /\ run = "exec" /\ pc[c] = "recorded"
  /\ Goto(c, "executing")
  /\ started' = [started EXCEPT ![c] = @ + 1]
  /\ UNCHANGED <<ledger, log, run, cursor, outcome, doubt>>

\* The tool answers, or raises something that is not worth a retry.
ToolReturns(c, answer) ==
  /\ run = "exec" /\ pc[c] = "executing"
  /\ Goto(c, "returned")
  /\ outcome' = [outcome EXCEPT ![c] = answer]
  /\ UNCHANGED <<ledger, log, run, cursor, started, doubt>>

\* The tool itself says that it failed and that trying again is safe, or a
\* READ_ONLY tool ran into its timeout.
ToolRetries(c) ==
  /\ run = "exec" /\ pc[c] = "executing" /\ started[c] < MaxAttempts
  /\ Goto(c, "running")
  /\ UNCHANGED <<ledger, log, run, cursor, outcome, started, doubt>>

\* MUTANT: a timeout is retried whatever the side effect of the tool.
TimesOut_Retried(c) ==
  /\ run = "exec" /\ pc[c] = "executing" /\ c \in Mutating
  /\ doubt' = [doubt EXCEPT ![c] = "timeout"]
  /\ IF started[c] < MaxAttempts
     THEN Goto(c, "running") /\ UNCHANGED outcome
     ELSE Goto(c, "returned") /\ outcome' = [outcome EXCEPT ![c] = "timeout"]
  /\ UNCHANGED <<ledger, log, run, cursor, started>>

\* A MUTATING tool is cut off: no retry, its effect is unknown.
TimesOut(c) ==
  /\ run = "exec" /\ pc[c] = "executing" /\ c \in Mutating
  /\ Goto(c, "returned")
  /\ outcome' = [outcome EXCEPT ![c] = "timeout"]
  /\ doubt' = [doubt EXCEPT ![c] = "timeout"]
  /\ UNCHANGED <<ledger, log, run, cursor, started>>

\* ConnectionError is classified as transient whatever the tool's side effect:
\* the request may have been carried out and only its reply lost.
LosesConnection(c) ==
  /\ run = "exec" /\ pc[c] = "executing" /\ c \in Mutating
  /\ doubt' = [doubt EXCEPT ![c] = "lost"]
  /\ IF started[c] < MaxAttempts
     THEN Goto(c, "running") /\ UNCHANGED outcome
     ELSE Goto(c, "returned") /\ outcome' = [outcome EXCEPT ![c] = "fail"]
  /\ UNCHANGED <<ledger, log, run, cursor, started>>

IsQuestion(c) == c \in UserInput /\ outcome[c] = "ok"

\* The question, of either kind, is durable before the row is terminal.
AskUser(c) ==
  /\ run = "exec" /\ pc[c] = "returned" /\ IsQuestion(c)
  /\ \E kind \in QuestionInfos : Emit(Event("user/input-requested", c, kind))
  /\ Goto(c, "asked")
  /\ UNCHANGED <<ledger, run, cursor, outcome, started, doubt>>

\* _settle_state: the row first, the tool/result later.
Settleable(c) ==
  \/ pc[c] = "asked"
  \/ pc[c] = "returned" /\ ~IsQuestion(c)

\* MUTANT: a MUTATING timeout is a failure like any other.
SettleState_Failed(c) == IF outcome[c] = "ok" THEN "SUCCEEDED" ELSE "FAILED"
SettleState(c) ==
  CASE outcome[c] = "ok"                         -> "SUCCEEDED"
    [] outcome[c] = "timeout" /\ c \in Mutating  -> "UNKNOWN"
    [] OTHER                                     -> "FAILED"

SettleMeta(c) == IF SettleState(c) = "UNKNOWN" THEN "unproven" ELSE "none"

Settle(c) ==
  /\ run = "exec" /\ Settleable(c)
  /\ UpdateState(c, SettleState(c), outcome[c], SettleMeta(c))
  /\ Goto(c, "done")
  /\ UNCHANGED <<log, run, cursor, outcome, started, doubt>>

-----------------------------------------------------------------------------
AfterRaise(c) == IF pc[c] = "asked" THEN "done" ELSE "gone"

\* A ledger write of call c raises.  The exception leaves execute(), except
\* after a durable question, where it is logged and the call goes on.
Raise(c) ==
  /\ run = "exec"
  /\ pc[c] \in {"skipping", "pending", "running"} \/ Settleable(c)
  /\ Goto(c, AfterRaise(c))
  /\ doubt' = [doubt EXCEPT ![c] =
                 IF ToolEntered(c) /\ @ = "none" THEN "unseen" ELSE @]
  /\ UNCHANGED <<ledger, log, run, cursor, outcome, started>>

StorageFails(c) == Raise(c)

\* update_state finds the row in a state that does not allow the transition.
LedgerRefuses(c) ==
  /\ CASE pc[c] = "skipping" -> ~CanMove(c, "CANCELLED")
       [] pc[c] = "pending"  -> ~CanMove(c, "RUNNING")
       [] pc[c] = "running"  -> ~CanRecordAttempt(c)
       [] OTHER              -> ~CanMove(c, SettleState(c))
  /\ Raise(c)

\* gather waits for every sibling before it raises; a serial batch has none.
\* Results already held in memory are dropped with the exception.
BatchRaises ==
  /\ run = "exec"
  /\ \E c \in Calls : pc[c] = "gone"
  /\ \A c \in Calls : ~InFlight(c) /\ (Parallel => pc[c] # "wait")
  /\ run' = "ended"
  /\ UNCHANGED <<ledger, log, cursor, pc, outcome, started, doubt>>

\* task.cancel(): user cancel, orphan reaping or shutdown.
CancelRun ==
  /\ run \in {"emit", "exec", "finalize"}
  /\ run' = IF run = "exec" THEN "cancelling" ELSE "ended"
  /\ UNCHANGED <<ledger, log, cursor, pc, outcome, started, doubt>>

InCancelArm(c) == pc[c] \in {"running", "recorded", "executing"}

\* The CancelledError arm of execute() covers the retry loop only, and closes
\* the row as CANCELLED; elsewhere the row stays as it is.  A second
\* cancellation or a failing write in the arm leaves RUNNING.
CancelArm(c) ==
  /\ run = "cancelling" /\ InFlight(c)
  /\ Goto(c, "gone")
  /\ \/ /\ InCancelArm(c)
        /\ UpdateState(c, "CANCELLED", "none", "none")
        /\ doubt' = [doubt EXCEPT ![c] =
                       IF pc[c] = "executing" THEN "cancel" ELSE @]
     \/ /\ doubt' = [doubt EXCEPT ![c] =
                       IF ToolEntered(c) /\ @ = "none" THEN "unseen" ELSE @]
        /\ UNCHANGED ledger
  /\ UNCHANGED <<log, run, cursor, outcome, started>>

CancelEnds ==
  /\ run = "cancelling" /\ \A c \in Calls : ~InFlight(c)
  /\ run' = "ended"
  /\ UNCHANGED <<ledger, log, cursor, pc, outcome, started, doubt>>

-----------------------------------------------------------------------------
\* With a ledger the deferred model/completed follows the batch.
CompleteModel ==
  /\ run = "exec" /\ \A c \in Calls : pc[c] = "done"
  /\ Emit(Event("model/completed", NoCall, "none"))
  /\ run' = "finalize" /\ cursor' = 0
  /\ UNCHANGED <<ledger, pc, outcome, started, doubt>>

\* finalize_execution, in input order.
EmitResult ==
  /\ run = "finalize"
  /\ LET c == Batch[cursor + 1]
     IN  Emit(Event("tool/result", c, outcome[c]))
  /\ IF cursor + 1 = Len(Batch)
     THEN run' = "ended" /\ cursor' = 0
     ELSE cursor' = cursor + 1 /\ UNCHANGED run
  /\ UNCHANGED <<ledger, pc, outcome, started, doubt>>

\* The process dies: the memory of the batch is gone.
ExecutorDies ==
  /\ run' = "ended" /\ cursor' = 0
  /\ pc' = [c \in Calls |-> "gone"]
  /\ outcome' = [c \in Calls |-> "none"]
  /\ doubt' = [c \in Calls |->
                 IF ToolEntered(c) /\ doubt[c] = "none" THEN "unseen" ELSE doubt[c]]
  /\ UNCHANGED <<ledger, log, started>>

-----------------------------------------------------------------------------
ExecutorTypeOK ==
  /\ run \in RunPhases
  /\ cursor \in 0..(Len(Batch) - 1)
  /\ pc \in [Calls -> CallPhases]
  /\ outcome \in [Calls -> Outcomes]
  /\ started \in [Calls -> Nat]
  /\ doubt \in [Calls -> Doubts]

ExecutorInit ==
  /\ run = "emit" /\ cursor = 0
  /\ pc = [c \in Calls |-> "wait"]
  /\ outcome = [c \in Calls |-> "none"]
  /\ started = [c \in Calls |-> 0]
  /\ doubt = [c \in Calls |-> "none"]
=============================================================================
