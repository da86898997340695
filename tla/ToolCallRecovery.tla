-------------------------- MODULE ToolCallRecovery --------------------------
(***************************************************************************)
(* One batch of tool calls, from the model's request to the results in the *)
(* session, through crashes, cancellations, storage failures and the       *)
(* recoveries that follow them: the tool executor and the recovery         *)
(* coordinator over the ledger and the event stream they share.            *)
(*                                                                         *)
(* MaxFaults bounds what can go wrong in a behaviour and MaxRecoveries     *)
(* the number of recover() calls; neither bound exists in the code.        *)
(***************************************************************************)
EXTENDS ToolExecutor, RecoveryCoordinator, FiniteSets

CONSTANTS
  MaxFaults, MaxRecoveries,
  LostReplies,   \* may a MUTATING tool raise ConnectionError?
  Cancellable,   \* may the run task be cancelled?
  LiveRecovery   \* may recover() be called while the run is in flight?

ASSUME BoundAssumption == MaxFaults \in Nat /\ MaxRecoveries \in Nat
ASSUME SwitchAssumption ==
  LostReplies \in BOOLEAN /\ Cancellable \in BOOLEAN /\ LiveRecovery \in BOOLEAN

VARIABLES
  faults, recoveries,
  overlap    \* history: recover() was called while the run was in flight

bounds == <<faults, recoveries>>
vars == <<ledger, log, exVars, rcVars, bounds, overlap>>

-----------------------------------------------------------------------------
\* What the run does on its own.
ExecutorStep ==
  /\ \/ EmitCall \/ CompleteModel \/ EmitResult \/ BatchRaises \/ CancelEnds
     \/ \E c \in Calls :
          \/ CreatePending(c) \/ CancelUnexecuted(c) \/ StartRunning(c)
          \/ BeginAttempt(c) \/ EnterTool(c)
          \/ \E answer \in {"ok", "fail"} : ToolReturns(c, answer)
          \/ AskUser(c) \/ Settle(c) \/ LedgerRefuses(c) \/ CancelArm(c)
  /\ UNCHANGED <<rcVars, bounds, overlap>>

\* What the world answers instead of a clean result.
ToolMisbehaves ==
  /\ \E c \in Calls :
       \/ Reject(c) \/ ToolRetries(c) \/ TimesOut(c)
       \/ LostReplies /\ LosesConnection(c)
  /\ UNCHANGED <<rcVars, bounds, overlap>>

RecoverCalled(r) ==
  /\ recoveries < MaxRecoveries
  /\ run = "ended" \/ LiveRecovery
  /\ log # <<>>
  /\ \E k \in CallbackKinds : Start(r, k)
  /\ recoveries' = recoveries + 1
  /\ overlap' = (overlap \/ run # "ended")
  /\ UNCHANGED <<exVars, faults>>

RecoveryStep(r) == Advance(r) /\ UNCHANGED <<exVars, bounds, overlap>>

\* Faults.
Fault(A) ==
  /\ faults < MaxFaults
  /\ A
  /\ faults' = faults + 1
  /\ UNCHANGED <<recoveries, overlap>>

Crash == log # <<>> /\ ExecutorDies /\ RecoveryDies
StorageFailure ==
  (\E c \in Calls : StorageFails(c)) /\ UNCHANGED rcVars
Cancellation == Cancellable /\ CancelRun /\ UNCHANGED rcVars
RecoveryFailure == (\E r \in Recoverers : Abort(r)) /\ UNCHANGED exVars

FaultStep ==
  \/ Fault(Crash) \/ Fault(StorageFailure)
  \/ Fault(Cancellation) \/ Fault(RecoveryFailure)

Next ==
  \/ ExecutorStep
  \/ ToolMisbehaves
  \/ \E r \in Recoverers : RecoverCalled(r) \/ RecoveryStep(r)
  \/ FaultStep

Init ==
  /\ LedgerInit /\ LogInit /\ ExecutorInit /\ RecoveryInit
  /\ faults = 0 /\ recoveries = 0 /\ overlap = FALSE

Spec == Init /\ [][Next]_vars

\* The event loop runs every task that can run; a lock that is free is taken
\* by a waiter; a session whose run has ended is recovered again (by the scan
\* at start-up or by the next resume) as long as something is open.
Open == Dangling(log) # {} \/ \E c \in Calls : NeedsReconcile(ledger[c])
RecoverWhenOpen(r) == Open /\ run = "ended" /\ RecoverCalled(r)

FairSpec ==
  /\ Spec
  /\ WF_vars(ExecutorStep)
  /\ \A r \in Recoverers : WF_vars(RecoveryStep(r)) /\ WF_vars(RecoverWhenOpen(r))

-----------------------------------------------------------------------------
TypeOK ==
  /\ LedgerTypeOK /\ LogTypeOK /\ ExecutorTypeOK /\ RecoveryTypeOK
  /\ faults \in 0..MaxFaults /\ recoveries \in 0..MaxRecoveries
  /\ overlap \in BOOLEAN

\* Write-ahead: the tool/call of a call is durable before its row, so a recovery
\* never has to invent the call event it pairs a result with; and the world
\* never sees an attempt that the durable row does not already count, so a row
\* that says "not started" is the truth (the records before Tool.execute,
\* runtime.py and executor.py; 07 section 6 of the specification).
CallEventFirst ==
  \A c \in Calls : ledger[c].state # "ABSENT" => Has(log, "tool/call", c)
AttemptFirst ==
  \A c \in Calls :
    /\ started[c] <= ledger[c].attempts
    /\ ledger[c].state \in {"ABSENT", "PENDING"} => started[c] = 0
WriteAhead == CallEventFirst /\ AttemptFirst

\* A question to the user is neither lost between the tool and the session nor
\* taken for granted: a row that says the question was put (and no verdict said
\* so) has the question in the stream; a question that can be restored never
\* ends up in a verdict; and one that cannot, a plan approval above all, is
\* ended by nothing but a verdict once the executor failed to settle its row
\* (_user_input_request_result); unless a recovery came while the call was
\* still asking.
QuestionNotLost ==
  ~overlap => \A c \in UserInput :
    /\ ledger[c].state = "SUCCEEDED" /\ ledger[c].meta = "none"
         => Has(log, "user/input-requested", c)
    /\ Restorable(log, c)
         => ledger[c].state \in {"RUNNING", "SUCCEEDED"} /\ ledger[c].meta = "none"
    /\ Has(log, "user/input-requested", c) /\ ~Restorable(log, c)
         /\ doubt[c] = "unseen" /\ ledger[c].state \in TerminalStates
         => ledger[c].meta \in FinalVerdicts

\* The side effect of a cut-off MUTATING call is not forgotten: until somebody
\* gave a verdict, no row claims to know how the call ended.  Only a question
\* in the stream that can be restored is proof of its own call.
UnprovenHeld ==
  \A c \in Mutating :
    doubt[c] \in {"timeout", "unseen"} /\ ledger[c].state \in TerminalStates
      => ledger[c].meta \in FinalVerdicts \/ Restorable(log, c)

-----------------------------------------------------------------------------
\* A row that is settled stays as it is: neither a late executor nor a second
\* recovery with another verdict rewrites it.
SettledOnce ==
  [][\A c \in Calls :
       ledger[c].state \in TerminalStates => ledger'[c] = ledger[c]]_vars

\* The tool of a MUTATING call is entered only while the row says RUNNING, no
\* result has been told, and nothing that happened to an earlier attempt left
\* its effect in doubt.
NoBlindRerun ==
  [][\A c \in Mutating :
       started'[c] > started[c] =>
         /\ ledger[c].state = "RUNNING"
         /\ ~Has(log, "tool/result", c)
         /\ doubt[c] = "none"]_vars

Resumed ==
  Len(log') = Len(log) + 1 /\ log'[Len(log')].type = "session/resumed"

\* A session is resumed with no dangling call, except those for which the
\* stream holds the user's DEFER (07 section 8 and the exemption in
\* _verdict_outcome); unless the run was in flight and announced another call after
\* the recovery had read the stream.
Deferred(c) == \E i \in DOMAIN log : log[i] = Event("operation/reconciled", c, "DEFER")
ResumeLeavesNothingDangling ==
  [][Resumed /\ ~overlap => \A c \in Dangling(log) : Deferred(c)]_vars

\* A session is resumed with the verdict of every settled row reported, and with
\* the request for that verdict before the report, where the operator saw it.
Reported(c) ==
  \E i, j \in DOMAIN log :
    /\ i < j /\ log[i].call = c /\ log[i].type = "operation/reconcile-required"
    /\ log[j].call = c /\ log[j].type = "operation/reconciled"
VerdictReported ==
  [][Resumed => \A c \in Calls : CommittedVerdict(ledger[c]) => Reported(c)]_vars

\* What the loop and the user may rely on: the abstract call of CallPromise.
\* Whatever crashes and however many recoveries follow, a call is told one
\* result, and that result is true.
Answer(c) ==
  LET told == {i \in DOMAIN log : log[i].type = "tool/result" /\ log[i].call = c}
  IN  IF told = {} THEN "none"
      ELSE IF Cardinality(told) > 1 THEN "twice"
      ELSE log[CHOOSE i \in told : TRUE].info
Outcome(c) ==
  CASE ledger[c].state = "SUCCEEDED"       -> "success"
    [] ledger[c].state \notin TerminalStates -> "open"
    [] OTHER                                 -> "other"
Promise == INSTANCE CallPromise WITH
  requested <- {c \in Calls : Has(log, "tool/call", c)},
  asked     <- {c \in Calls : Has(log, "user/input-requested", c)},
  outcome   <- [c \in Calls |-> Outcome(c)],
  told      <- [c \in Calls |-> Answer(c)],
  effects   <- started
KeepsPromise == Promise!Spec

\* Once the faults stop, every call is answered and nothing waits for a
\* verdict: the automatic callback is enough.
EventuallySettled == <>[](run = "ended" /\ ~Open)
=============================================================================
