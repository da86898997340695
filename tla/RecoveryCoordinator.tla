------------------------ MODULE RecoveryCoordinator ------------------------
(***************************************************************************)
(* RecoveryCoordinator.recover (recovery/coordinator.py): the one way in   *)
(* which the dangling calls of an interrupted session are closed.          *)
(*                                                                         *)
(* A recovery holds the recovery lock while it reads the stream and the    *)
(* ledger, synthesises the results it can derive, and prepares the rest    *)
(* for a verdict; it waits for the verdicts without the lock; and it takes *)
(* the lock again for each of them and for the closing session/resumed.    *)
(* Everything it does within the lock is still cut by awaits, at which the *)
(* process can die.                                                        *)
(***************************************************************************)
EXTENDS EventLog

CONSTANTS Recoverers,     \* concurrent callers of recover()
          NoOne,          \* the holder of a free lock
          CallbackKinds,  \* the callbacks in use, a subset of Callbacks
          ReplaySafe      \* calls of a tool that declares replay_safe

Callbacks == {"auto",     \* AutoReconcileCallback
              "user",     \* DecisionsReconcileCallback
              "absent"}   \* no callback injected

ASSUME RecoveryAssumption ==
  /\ NoOne \notin Recoverers
  /\ CallbackKinds \subseteq Callbacks
  /\ ReplaySafe \subseteq Calls

VARIABLES
  lock,      \* the recovery lock: its holder
  rpc,       \* rpc[r]: where recover() of r is
  callback,  \* callback[r]: the callback injected into r
  view,      \* view[r]: session.events, read at the lock, and r's own appends
  ops,       \* ops[r]: the rows r read, as it has patched them
  todo,      \* todo[r]: what is left of each stage of the first lock section
  tokens,    \* tokens[r][c]: the state r's request on c was prepared in
  current    \* current[r]: the request r is serving and its verdict

rcVars == <<lock, rpc, callback, view, ops, todo, tokens, current>>

Stages == {"repair", "synthesize", "close", "report", "prepare"}
NoTodo == [s \in Stages |-> {}]
NoTokens == [c \in Calls |-> "none"]
NoRequest == [call |-> NoCall, verdict |-> "none"]
RecoverySteps == {"idle", "acquire", "decide", "settle", "ask", "reacquire",
                  "commit", "pair", "conclude", "last"}

-----------------------------------------------------------------------------
\* What the first lock section decides from the stream s and the rows.

\* MUTANT: any question in the stream proves that its call succeeded.
Repairable_Any(s, rows) ==
  {c \in Calls : rows[c].state = "RUNNING" /\ Has(s, "user/input-requested", c)}

\* A blocking question that is in the stream proves that its call succeeded, if
\* its result can be rebuilt from it.  Any other question, a plan approval above
\* all, is left to a verdict: nobody approves a plan on the user's behalf.
Restorable(s, c) ==
  \E i \in DOMAIN s : s[i] = Event("user/input-requested", c, "restorable")

Repairable(s, rows) ==
  {c \in Calls : rows[c].state = "RUNNING" /\ Restorable(s, c)}

Repaired(s, rows) ==
  [c \in Calls |-> IF c \in Repairable(s, rows)
                   THEN [rows[c] EXCEPT !.state = "SUCCEEDED",
                                        !.result = "ok", !.meta = "none"]
                   ELSE rows[c]]

\* MUTANT: only dangling calls are collected.
Undecided_Dangling(s, rows) ==
  {c \in Dangling(s) : rows[c].state \in ReconcileStates}

\* Calls whose fate only a verdict can tell: dangling and not provably done or
\* not started, or answered by an honest "unknown".
Undecided(s, rows) ==
  {c \in Dangling(s) : rows[c].state \in ReconcileStates}
    \cup {c \in Calls \ Dangling(s) : NeedsReconcile(rows[c])}

\* MUTANT: a row without a result is taken for a call that never ran.
SynthesizedContent_NotRun(row) ==
  CASE row.state = "ABSENT" \/ row.result = "none" -> "notexec"
    [] OTHER                                       -> row.result

\* _content_from_ledger, the pending policy, and the calls without a row.
SynthesizedContent(row) ==
  CASE row.state = "ABSENT"          -> "notexec"
    [] row.state = "PENDING"         -> "skipped"
    [] row.result # "none"           -> row.result
    [] row.state = "SUCCEEDED"       -> "ok"
    [] OTHER                         -> "fail"

\* MUTANT: verdicts are reported only by the recovery that commits them.
Unreported_Never(s, rows) == {}

\* Verdicts that are committed and not in the stream.
Unreported(s, rows) ==
  {c \in Calls : CommittedVerdict(rows[c]) /\ ~Has(s, "operation/reconciled", c)}

TodoAfter(s, rows) ==
  LET patched == Repaired(s, rows) IN
  [NoTodo EXCEPT
     !["repair"]     = Repairable(s, rows),
     !["synthesize"] = Dangling(s) \ Undecided(s, patched),
     !["report"]     = Unreported(s, patched),
     !["prepare"]    = Undecided(s, patched)]

\* The stages run in this order.
Before(stage) ==
  CASE stage = "repair"     -> {}
    [] stage = "synthesize" -> {"repair", "close"}
    [] stage = "close"      -> {"repair"}
    [] stage = "report"     -> {"repair", "synthesize", "close"}
    [] stage = "prepare"    -> {"repair", "synthesize", "close", "report"}

AtStage(r, stage, c) ==
  /\ rpc[r] = "settle"
  /\ c \in todo[r][stage]
  /\ \A s \in Before(stage) : todo[r][s] = {}

Done(r, stage, c) == todo' = [todo EXCEPT ![r][stage] = @ \ {c}]

\* session.append: the event is durable and in this session object.
Write(r, e) ==
  /\ Emit(e)
  /\ view' = [view EXCEPT ![r] = Append(@, e)]

Step(r, where) == rpc' = [rpc EXCEPT ![r] = where]

Forget(r) ==
  /\ view' = [view EXCEPT ![r] = <<>>]
  /\ ops' = [ops EXCEPT ![r] = [c \in Calls |-> NoRow]]
  /\ todo' = [todo EXCEPT ![r] = NoTodo]
  /\ current' = [current EXCEPT ![r] = NoRequest]

-----------------------------------------------------------------------------
Start(r, k) ==
  /\ rpc[r] = "idle"
  /\ Step(r, "acquire")
  /\ callback' = [callback EXCEPT ![r] = k]
  /\ UNCHANGED <<ledger, log, lock, view, ops, todo, tokens, current>>

LockFree == lock = NoOne

\* read_events is synchronous once the lock is held.
Acquire(r) ==
  /\ rpc[r] = "acquire" /\ LockFree
  /\ lock' = r
  /\ view' = [view EXCEPT ![r] = log]
  /\ Step(r, "decide")
  /\ UNCHANGED <<ledger, log, callback, ops, todo, tokens, current>>

\* Without a callback a recovery that needs a verdict refuses before it has
\* written anything.
Decide(r) ==
  /\ rpc[r] = "decide"
  /\ ~(callback[r] = "absent"
         /\ Undecided(view[r], Repaired(view[r], ledger)) # {})
  /\ ops' = [ops EXCEPT ![r] = Repaired(view[r], ledger)]
  /\ todo' = [todo EXCEPT ![r] = TodoAfter(view[r], ledger)]
  /\ Step(r, "settle")
  /\ UNCHANGED <<ledger, log, lock, callback, view, tokens, current>>

Repair(r, c) ==
  /\ AtStage(r, "repair", c)
  /\ ledger[c].state = "RUNNING"
  /\ UpdateState(c, "SUCCEEDED", "ok", "none")
  /\ Done(r, "repair", c)
  /\ UNCHANGED <<log, lock, rpc, callback, view, ops, tokens, current>>

\* The result first, and then, for a call that was never started, its row.
Synthesize(r, c) ==
  /\ AtStage(r, "synthesize", c)
  /\ Write(r, Event("tool/result", c, SynthesizedContent(ops[r][c])))
  /\ todo' = [todo EXCEPT
       ![r]["synthesize"] = @ \ {c},
       ![r]["close"] = IF ops[r][c].state = "PENDING" THEN {c} ELSE {}]
  /\ UNCHANGED <<ledger, lock, rpc, callback, ops, tokens, current>>

ClosePending(r, c) ==
  /\ AtStage(r, "close", c)
  /\ UpdateState(c, "CANCELLED", "cancelled", "none")
  /\ Done(r, "close", c)
  /\ UNCHANGED <<log, lock, rpc, callback, view, ops, tokens, current>>

\* A verdict that an earlier recovery committed but did not get to report.
Report(r, c) ==
  /\ AtStage(r, "report", c)
  /\ Write(r, Event("operation/reconciled", c, ops[r][c].meta))
  /\ Done(r, "report", c)
  /\ UNCHANGED <<ledger, lock, rpc, callback, ops, tokens, current>>

\* _prepare_reconcile: up to two transitions, then the request.
MarkUnknown(r, c) ==
  /\ AtStage(r, "prepare", c)
  /\ ops[r][c].state = "RUNNING"
  /\ UpdateState(c, "UNKNOWN", "none", "none")
  /\ ops' = [ops EXCEPT ![r][c].state = "UNKNOWN"]
  /\ UNCHANGED <<log, lock, rpc, callback, view, todo, tokens, current>>

MarkNeedReconcile(r, c) ==
  /\ AtStage(r, "prepare", c)
  /\ ops[r][c].state = "UNKNOWN"
  /\ UpdateState(c, "NEED_RECONCILE", "none", "none")
  /\ ops' = [ops EXCEPT ![r][c].state = "NEED_RECONCILE"]
  /\ tokens' = [tokens EXCEPT ![r][c] = "NEED_RECONCILE"]
  /\ UNCHANGED <<log, lock, rpc, callback, view, todo, current>>

Announced(r, c) == Has(view[r], "operation/reconcile-required", c)

Request(r, c) ==
  /\ AtStage(r, "prepare", c)
  /\ ops[r][c].state \notin {"RUNNING", "UNKNOWN"}
  /\ tokens' = [tokens EXCEPT ![r][c] = IF @ = "none" THEN ledger[c].state ELSE @]
  /\ IF Announced(r, c)
     THEN UNCHANGED <<log, view>>
     ELSE Write(r, Event("operation/reconcile-required", c, "none"))
  /\ Done(r, "prepare", c)
  /\ UNCHANGED <<ledger, lock, rpc, callback, ops, current>>

\* Release the lock and wait for the verdicts.
AskVerdicts(r) ==
  /\ rpc[r] = "settle" /\ todo[r] = NoTodo /\ tokens[r] # NoTokens
  /\ lock' = NoOne
  /\ Step(r, "ask")
  /\ Forget(r)
  /\ UNCHANGED <<ledger, log, callback, tokens>>

\* Nothing to ask: session/resumed closes the same lock section.
ResumeAtOnce(r) ==
  /\ rpc[r] = "settle" /\ todo[r] = NoTodo /\ tokens[r] = NoTokens
  /\ Emit(Event("session/resumed", NoCall, "none"))
  /\ lock' = NoOne
  /\ Step(r, "idle")
  /\ Forget(r)
  /\ UNCHANGED <<ledger, callback, tokens>>

-----------------------------------------------------------------------------
\* callback.resolve, outside the lock.
VerdictsFor(k, c) ==
  CASE k = "auto" -> IF c \in ReplaySafe THEN {"RETRY"} ELSE {"ABANDON"}
    [] k = "user" -> Verdicts
    [] OTHER      -> {}

Resolve(r, c, v) ==
  /\ rpc[r] = "ask" /\ tokens[r][c] # "none"
  /\ v \in VerdictsFor(callback[r], c)
  /\ current' = [current EXCEPT ![r] = [call |-> c, verdict |-> v]]
  /\ Step(r, "reacquire")
  /\ UNCHANGED <<ledger, log, lock, callback, view, ops, todo, tokens>>

Matches(r, c) == tokens[r][c] = ledger[c].state

\* Re-read under the lock; a row that has moved on makes the verdict stale.
Reacquire(r) ==
  /\ rpc[r] = "reacquire" /\ LockFree
  /\ LET c == current[r].call IN
       /\ Matches(r, c)
       /\ tokens' = [tokens EXCEPT ![r][c] = "none"]
       /\ ops' = [ops EXCEPT ![r][c] = ledger[c]]
  /\ lock' = r
  /\ view' = [view EXCEPT ![r] = log]
  /\ Step(r, "commit")
  /\ UNCHANGED <<ledger, log, callback, todo, current>>

\* _verdict_outcome
Target(v) ==
  CASE v = "CONFIRM_SUCCESS" -> "SUCCEEDED"
    [] v = "CONFIRM_FAILURE" -> "FAILED"
    [] v = "DEFER"           -> "NEED_RECONCILE"
    [] OTHER                 -> "CANCELLED"
VerdictContent(row, v) ==
  CASE v \in {"RETRY", "ABANDON"} -> "cancelled"
    [] v = "DEFER"                -> "none"
    [] row.result # "none"        -> row.result
    [] v = "CONFIRM_SUCCESS"      -> "ok"
    [] OTHER                      -> "fail"

CommitVerdict(r) ==
  LET c == current[r].call
      v == current[r].verdict
  IN /\ rpc[r] = "commit"
     /\ UpdateState(c, Target(v), VerdictContent(ops[r][c], v), v)
     /\ Step(r, "pair")
     /\ UNCHANGED <<log, lock, callback, view, ops, todo, tokens, current>>

\* MUTANT: the row alone is the record of a verdict.
Paired_Always(r, c) == TRUE
Paired(r, c) == Has(view[r], "tool/result", c)

\* Only the missing half of the pair is written, and nothing for a DEFER.
PairResult(r) ==
  LET c == current[r].call
      v == current[r].verdict
  IN /\ rpc[r] = "pair"
     /\ IF v = "DEFER" \/ Paired(r, c)
        THEN UNCHANGED <<log, view>>
        ELSE Write(r, Event("tool/result", c, VerdictContent(ops[r][c], v)))
     /\ Step(r, "conclude")
     /\ UNCHANGED <<ledger, lock, callback, ops, todo, tokens, current>>

\* At most one operation/reconciled per call, and the lock is free again.
Conclude(r) ==
  LET c == current[r].call IN
  /\ rpc[r] = "conclude"
  /\ IF Has(view[r], "operation/reconciled", c)
     THEN UNCHANGED log
     ELSE Emit(Event("operation/reconciled", c, current[r].verdict))
  /\ lock' = NoOne
  /\ Step(r, IF tokens[r] = NoTokens THEN "last" ELSE "ask")
  /\ Forget(r)
  /\ UNCHANGED <<ledger, callback, tokens>>

\* The last lock section only writes session/resumed.
ResumeAfterVerdicts(r) ==
  /\ rpc[r] = "last" /\ LockFree
  /\ Emit(Event("session/resumed", NoCall, "none"))
  /\ Step(r, "idle")
  /\ UNCHANGED <<ledger, lock, callback, view, ops, todo, tokens, current>>

-----------------------------------------------------------------------------
\* recover() raises: what it has written stays, the lock is released.
Leave(r) ==
  /\ rpc' = [rpc EXCEPT ![r] = "idle"]
  /\ lock' = IF lock = r THEN NoOne ELSE lock
  /\ tokens' = [tokens EXCEPT ![r] = NoTokens]
  /\ Forget(r)
  /\ UNCHANGED <<ledger, log, callback>>

\* ReconcileRequired, a stale verdict, a row that does not allow the move.
Refused(r) ==
  \/ rpc[r] = "decide" /\ callback[r] = "absent"
       /\ Undecided(view[r], Repaired(view[r], ledger)) # {}
  \/ rpc[r] = "reacquire" /\ LockFree /\ ~Matches(r, current[r].call)
  \/ rpc[r] = "commit" /\ ~CanMove(current[r].call, Target(current[r].verdict))
  \/ \E c \in Calls :
       \/ AtStage(r, "repair", c) /\ ledger[c].state # "RUNNING"
       \/ AtStage(r, "close", c) /\ ~CanMove(c, "CANCELLED")
       \/ AtStage(r, "prepare", c) /\ ops[r][c].state = "RUNNING"
            /\ ~CanMove(c, "UNKNOWN")
       \/ AtStage(r, "prepare", c) /\ ops[r][c].state = "UNKNOWN"
            /\ ~CanMove(c, "NEED_RECONCILE")

Refuse(r) == Refused(r) /\ Leave(r)

\* A lock timeout, a failing callback, a failing write, a cancelled request.
Abort(r) == rpc[r] # "idle" /\ Leave(r)

RecoveryDies ==
  /\ lock' = NoOne
  /\ rpc' = [r \in Recoverers |-> "idle"]
  /\ view' = [r \in Recoverers |-> <<>>]
  /\ ops' = [r \in Recoverers |-> [c \in Calls |-> NoRow]]
  /\ todo' = [r \in Recoverers |-> NoTodo]
  /\ tokens' = [r \in Recoverers |-> NoTokens]
  /\ current' = [r \in Recoverers |-> NoRequest]
  /\ UNCHANGED <<ledger, log, callback>>

\* What a recovery does on its own, once it has been called.
Advance(r) ==
  \/ Acquire(r) \/ Decide(r) \/ AskVerdicts(r) \/ ResumeAtOnce(r)
  \/ \E c \in Calls :
       \/ Repair(r, c) \/ Synthesize(r, c) \/ ClosePending(r, c) \/ Report(r, c)
       \/ MarkUnknown(r, c) \/ MarkNeedReconcile(r, c) \/ Request(r, c)
       \/ \E v \in Verdicts : Resolve(r, c, v)
  \/ Reacquire(r) \/ CommitVerdict(r) \/ PairResult(r) \/ Conclude(r)
  \/ ResumeAfterVerdicts(r) \/ Refuse(r)

-----------------------------------------------------------------------------
RecoveryTypeOK ==
  /\ lock \in Recoverers \cup {NoOne}
  /\ rpc \in [Recoverers -> RecoverySteps]
  /\ callback \in [Recoverers -> Callbacks]
  /\ view \in [Recoverers -> Seq(Events)]
  /\ ops \in [Recoverers -> [Calls -> Rows]]
  /\ todo \in [Recoverers -> [Stages -> SUBSET Calls]]
  /\ tokens \in [Recoverers -> [Calls -> States \cup {"none"}]]
  /\ current \in [Recoverers -> [call : Calls \cup {NoCall},
                                 verdict : Verdicts \cup {"none"}]]

RecoveryInit ==
  /\ lock = NoOne
  /\ rpc = [r \in Recoverers |-> "idle"]
  /\ callback = [r \in Recoverers |-> "absent"]
  /\ view = [r \in Recoverers |-> <<>>]
  /\ ops = [r \in Recoverers |-> [c \in Calls |-> NoRow]]
  /\ todo = [r \in Recoverers |-> NoTodo]
  /\ tokens = [r \in Recoverers |-> NoTokens]
  /\ current = [r \in Recoverers |-> NoRequest]
=============================================================================
