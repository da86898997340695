----------------------- MODULE ToolCallRecoveryProofs -----------------------
(***************************************************************************)
(* What holds of ToolCallRecovery for every batch, every number of         *)
(* recoverers and every bound.  Without any hypothesis: type correctness,  *)
(* write-ahead, and that a settled row stays settled.  As long as nobody   *)
(* recovers a session whose run is in flight: the abstract call of         *)
(* CallPromise is kept, the side effect of a cut-off call is neither       *)
(* forgotten nor repeated, a question is not lost, and a session is        *)
(* resumed with every call answered and every verdict reported.            *)
(***************************************************************************)
EXTENDS ToolCallRecovery, TLAPS, FiniteSetTheorems

\* Type correctness is not inductive on its own.  A refused call must not be
\* settled, a verdict must be about a call, and what a recovery reports must be
\* a verdict.
RejectedIsOver ==
  \A c \in Calls : outcome[c] = "rejected" => pc[c] \in {"done", "gone"}

ServesRequest ==
  \A r \in Recoverers :
    rpc[r] \in {"reacquire", "commit", "pair", "conclude"}
      => current[r].call \in Calls /\ current[r].verdict \in Verdicts

TodoWhileSettling == \A r \in Recoverers : rpc[r] # "settle" => todo[r] = NoTodo

ReportsVerdicts ==
  \A r \in Recoverers : \A c \in todo[r]["report"] : CommittedVerdict(ops[r][c])

TypeInv ==
  TypeOK /\ RejectedIsOver /\ ServesRequest /\ TodoWhileSettling /\ ReportsVerdicts

\* The strengthening of AttemptFirst: an attempt is counted before it starts, and
\* rows that say "not started" have counted none.
AttemptCounted ==
  \A c \in Calls :
    /\ started[c] <= ledger[c].attempts
    /\ pc[c] = "recorded" => started[c] < ledger[c].attempts
    /\ ledger[c].state \in {"ABSENT", "PENDING"} => ledger[c].attempts = 0

-----------------------------------------------------------------------------
(* The ledger and the stream.                                               *)

LEMMA UpdateStateType ==
  ASSUME LedgerTypeOK, NEW c \in Calls, NEW s \in RowStates,
         NEW res \in Contents \cup {"none"},
         NEW m \in Verdicts \cup {"unproven", "none"},
         UpdateState(c, s, res, m)
  PROVE  LedgerTypeOK'
  BY DEF LedgerTypeOK, UpdateState, Rows, Coalesce, States

LEMMA CreateType ==
  ASSUME LedgerTypeOK, NEW c \in Calls, Create(c)
  PROVE  LedgerTypeOK'
  BY DEF LedgerTypeOK, Create, Rows, NoRow, States, RowStates

LEMMA RecordAttemptType ==
  ASSUME LedgerTypeOK, NEW c \in Calls, RecordAttempt(c)
  PROVE  LedgerTypeOK'
  BY DEF LedgerTypeOK, RecordAttempt, CanRecordAttempt, Rows

LEMMA EventIsEvent ==
  ASSUME NEW t \in EventTypes, NEW c \in Calls \cup {NoCall},
         NEW info \in EventInfos
  PROVE  Event(t, c, info) \in Events
  BY DEF Event, Events

LEMMA EmitType ==
  ASSUME LogTypeOK, NEW e \in Events, Emit(e)
  PROVE  LogTypeOK'
  BY DEF LogTypeOK, Emit

-----------------------------------------------------------------------------
(* The executor.                                                            *)

LEMMA BatchLength == Len(Batch) \in Nat \ {0}
  BY BatchAssumption

LEMMA BatchCall ==
  ASSUME cursor \in 0..(Len(Batch) - 1)
  PROVE  Batch[cursor + 1] \in Calls
  BY BatchAssumption

LEMMA SettleType ==
  ASSUME TypeInv, NEW c \in Calls, Settle(c)
  PROVE  LedgerTypeOK'
<1>1. outcome[c] # "rejected"
  BY DEF TypeInv, RejectedIsOver, Settle, Settleable
<1>2. outcome[c] \in Contents \cup {"none"}
  BY <1>1 DEF TypeInv, TypeOK, ExecutorTypeOK, Outcomes, Contents
<1>3. /\ SettleState(c) \in RowStates
      /\ SettleMeta(c) \in {"unproven", "none"}
  BY DEF SettleState, SettleMeta, RowStates, ReconcileStates, TerminalStates
<1>. QED
  BY <1>2, <1>3, UpdateStateType DEF Settle, TypeInv, TypeOK

LEMMA RaiseType ==
  ASSUME TypeInv, NEW c \in Calls, Raise(c)
  PROVE  ExecutorTypeOK' /\ RejectedIsOver' /\ UNCHANGED <<ledger, log>>
  BY DEF TypeInv, TypeOK, ExecutorTypeOK, RejectedIsOver, Raise, AfterRaise,
         Goto, CallPhases, Doubts

\* What one step of the run, or of the world around it, keeps.
ExecutorKept == ExecutorTypeOK' /\ LedgerTypeOK' /\ LogTypeOK' /\ RejectedIsOver'

LEMMA ExecutorStepType ==
  ASSUME TypeInv, ExecutorStep
  PROVE  ExecutorKept
<1>. USE DEF ExecutorKept
<1>1. ExecutorTypeOK /\ LedgerTypeOK /\ LogTypeOK /\ RejectedIsOver
  BY DEF TypeInv, TypeOK
<1>2. CASE EmitCall
  <2>1. Event("tool/call", Batch[cursor + 1], "none") \in Events
    BY <1>1, BatchCall, EventIsEvent DEF ExecutorTypeOK, EventTypes, EventInfos
  <2>2. LogTypeOK'
    BY <1>1, <1>2, <2>1, EmitType DEF EmitCall
  <2>3. cursor' \in 0..(Len(Batch) - 1) /\ run' \in RunPhases
    BY <1>1, <1>2, BatchLength
       DEF EmitCall, AllAnnounced, ExecutorTypeOK, RunPhases
  <2>. QED
    BY <1>1, <1>2, <2>2, <2>3
       DEF EmitCall, ExecutorTypeOK, LedgerTypeOK, RejectedIsOver
<1>3. CASE CompleteModel
  <2>1. Event("model/completed", NoCall, "none") \in Events
    BY EventIsEvent DEF EventTypes, EventInfos
  <2>2. LogTypeOK'
    BY <1>1, <1>3, <2>1, EmitType DEF CompleteModel
  <2>. QED
    BY <1>1, <1>3, <2>2, BatchLength
       DEF CompleteModel, ExecutorTypeOK, LedgerTypeOK, RejectedIsOver, RunPhases
<1>4. CASE EmitResult
  <2>1. Batch[cursor + 1] \in Calls
    BY <1>1, BatchCall DEF ExecutorTypeOK
  <2>2. outcome[Batch[cursor + 1]] \in EventInfos
    BY <1>1, <2>1 DEF ExecutorTypeOK, Outcomes, EventInfos, ResultContents
  <2>3. Event("tool/result", Batch[cursor + 1], outcome[Batch[cursor + 1]]) \in Events
    BY <2>1, <2>2, EventIsEvent DEF EventTypes
  <2>4. LogTypeOK'
    BY <1>1, <1>4, <2>3, EmitType DEF EmitResult
  <2>5. cursor' \in 0..(Len(Batch) - 1) /\ run' \in RunPhases
    BY <1>1, <1>4, BatchLength DEF EmitResult, ExecutorTypeOK, RunPhases
  <2>. QED
    BY <1>1, <1>4, <2>4, <2>5
       DEF EmitResult, ExecutorTypeOK, LedgerTypeOK, RejectedIsOver
<1>5. CASE BatchRaises \/ CancelEnds
  BY <1>1, <1>5 DEF BatchRaises, CancelEnds, ExecutorTypeOK, LedgerTypeOK,
     LogTypeOK, RejectedIsOver, RunPhases
<1>6. ASSUME NEW c \in Calls, CreatePending(c)
      PROVE  ExecutorKept
  <2>1. LedgerTypeOK'
    BY <1>1, <1>6, CreateType DEF CreatePending
  <2>. QED
    BY <1>1, <1>6, <2>1 DEF CreatePending, Goto, ExecutorTypeOK, LogTypeOK,
       RejectedIsOver, CallPhases
<1>7. ASSUME NEW c \in Calls, CancelUnexecuted(c)
      PROVE  ExecutorKept
  <2>1. LedgerTypeOK'
    BY <1>1, <1>7, UpdateStateType
       DEF CancelUnexecuted, RowStates, TerminalStates, Contents
  <2>. QED
    BY <1>1, <1>7, <2>1 DEF CancelUnexecuted, Goto, ExecutorTypeOK, LogTypeOK,
       RejectedIsOver, CallPhases, Outcomes
<1>8. ASSUME NEW c \in Calls, StartRunning(c)
      PROVE  ExecutorKept
  <2>1. LedgerTypeOK'
    BY <1>1, <1>8, UpdateStateType DEF StartRunning, RowStates, ReconcileStates
  <2>. QED
    BY <1>1, <1>8, <2>1 DEF StartRunning, Goto, ExecutorTypeOK, LogTypeOK,
       RejectedIsOver, CallPhases
<1>9. ASSUME NEW c \in Calls, BeginAttempt(c)
      PROVE  ExecutorKept
  <2>1. LedgerTypeOK'
    BY <1>1, <1>9, RecordAttemptType DEF BeginAttempt
  <2>. QED
    BY <1>1, <1>9, <2>1 DEF BeginAttempt, Goto, ExecutorTypeOK, LogTypeOK,
       RejectedIsOver, CallPhases
<1>10. ASSUME NEW c \in Calls, EnterTool(c)
       PROVE  ExecutorKept
  BY <1>1, <1>10 DEF EnterTool, Goto, ExecutorTypeOK, LedgerTypeOK, LogTypeOK,
     RejectedIsOver, CallPhases
<1>11. ASSUME NEW c \in Calls, NEW answer \in {"ok", "fail"}, ToolReturns(c, answer)
       PROVE  ExecutorKept
  BY <1>1, <1>11 DEF ToolReturns, Goto, ExecutorTypeOK, LedgerTypeOK, LogTypeOK,
     RejectedIsOver, CallPhases, Outcomes
<1>12. ASSUME NEW c \in Calls, AskUser(c)
       PROVE  ExecutorKept
  <2>1. \A kind \in QuestionInfos : Event("user/input-requested", c, kind) \in Events
    BY EventIsEvent DEF EventTypes, EventInfos
  <2>2. LogTypeOK'
    BY <1>1, <1>12, <2>1, EmitType DEF AskUser
  <2>. QED
    BY <1>1, <1>12, <2>2 DEF AskUser, IsQuestion, Goto, ExecutorTypeOK,
       LedgerTypeOK, RejectedIsOver, CallPhases
<1>13. ASSUME NEW c \in Calls, Settle(c)
       PROVE  ExecutorKept
  <2>1. LedgerTypeOK'
    BY <1>13, SettleType
  <2>. QED
    BY <1>1, <1>13, <2>1 DEF Settle, Goto, ExecutorTypeOK, LogTypeOK,
       RejectedIsOver, CallPhases
<1>14. ASSUME NEW c \in Calls, LedgerRefuses(c)
       PROVE  ExecutorKept
  BY <1>1, <1>14, RaiseType DEF LedgerRefuses, LedgerTypeOK, LogTypeOK
<1>15. ASSUME NEW c \in Calls, CancelArm(c)
       PROVE  ExecutorKept
  <2>1. LedgerTypeOK'
    BY <1>1, <1>15, UpdateStateType
       DEF CancelArm, RowStates, TerminalStates, LedgerTypeOK
  <2>. QED
    BY <1>1, <1>15, <2>1 DEF CancelArm, Goto, ExecutorTypeOK, LogTypeOK,
       RejectedIsOver, CallPhases, Doubts
<1>. QED
  BY <1>2, <1>3, <1>4, <1>5, <1>6, <1>7, <1>8, <1>9, <1>10, <1>11, <1>12, <1>13,
     <1>14, <1>15 DEF ExecutorStep

LEMMA ToolMisbehavesType ==
  ASSUME TypeInv, ToolMisbehaves
  PROVE  ExecutorKept
<1>. USE DEF ExecutorKept
<1>1. ExecutorTypeOK /\ LedgerTypeOK /\ LogTypeOK /\ RejectedIsOver
  BY DEF TypeInv, TypeOK
<1>2. ASSUME NEW c \in Calls, Reject(c) \/ ToolRetries(c) \/ TimesOut(c)
      PROVE  ExecutorKept
  BY <1>1, <1>2 DEF Reject, ToolRetries, TimesOut, Goto, ExecutorTypeOK,
     LedgerTypeOK, LogTypeOK, RejectedIsOver, CallPhases, Outcomes, Doubts
<1>3. ASSUME NEW c \in Calls, LosesConnection(c)
      PROVE  ExecutorKept
  BY <1>1, <1>3 DEF LosesConnection, Goto, ExecutorTypeOK,
     LedgerTypeOK, LogTypeOK, RejectedIsOver, CallPhases, Outcomes, Doubts
<1>. QED
  BY <1>2, <1>3 DEF ToolMisbehaves

-----------------------------------------------------------------------------
(* The recovery.                                                            *)

\* What one step of a recovery keeps.
RecoveryKept ==
  /\ RecoveryTypeOK' /\ LedgerTypeOK' /\ LogTypeOK'
  /\ ServesRequest' /\ TodoWhileSettling' /\ ReportsVerdicts'

LEMMA ConstantsType ==
  /\ NoTodo \in [Stages -> SUBSET Calls]
  /\ NoTokens \in [Calls -> States \cup {"none"}]
  /\ NoRow \in Rows
  /\ NoRequest \in [call : Calls \cup {NoCall}, verdict : Verdicts \cup {"none"}]
  BY DEF NoTodo, NoTokens, NoRow, NoRequest, Stages, States, Rows

LEMMA WriteType ==
  ASSUME LogTypeOK, view \in [Recoverers -> Seq(Events)],
         NEW r \in Recoverers, NEW e \in Events, Write(r, e)
  PROVE  LogTypeOK' /\ view' \in [Recoverers -> Seq(Events)]
  BY EmitType DEF Write

LEMMA ForgetType ==
  ASSUME RecoveryTypeOK, NEW r \in Recoverers, Forget(r)
  PROVE  /\ view' \in [Recoverers -> Seq(Events)]
         /\ ops' \in [Recoverers -> [Calls -> Rows]]
         /\ todo' \in [Recoverers -> [Stages -> SUBSET Calls]]
         /\ current' \in [Recoverers -> [call : Calls \cup {NoCall},
                                         verdict : Verdicts \cup {"none"}]]
  BY ConstantsType DEF RecoveryTypeOK, Forget

\* The steps that end a lock section or leave the recovery.
LEMMA ForgetKept ==
  ASSUME TypeInv, NEW r \in Recoverers, Forget(r),
         NEW where \in {"idle", "ask", "last"}, Step(r, where),
         LedgerTypeOK', LogTypeOK', lock' \in Recoverers \cup {NoOne},
         tokens' \in [Recoverers -> [Calls -> States \cup {"none"}]],
         UNCHANGED callback
  PROVE  RecoveryKept
<1>1. RecoveryTypeOK /\ ServesRequest /\ TodoWhileSettling /\ ReportsVerdicts
  BY DEF TypeInv, TypeOK
<1>2. rpc' \in [Recoverers -> RecoverySteps]
  BY <1>1 DEF RecoveryTypeOK, Step, RecoverySteps
<1>3. RecoveryTypeOK'
  BY <1>1, <1>2, ForgetType DEF RecoveryTypeOK
<1>4. \A q \in Recoverers :
        /\ q # r => /\ rpc'[q] = rpc[q] /\ todo'[q] = todo[q]
                    /\ ops'[q] = ops[q] /\ current'[q] = current[q]
        /\ q = r => rpc'[q] = where /\ todo'[q] = NoTodo
  BY <1>1 DEF RecoveryTypeOK, Forget, Step
<1>5. ServesRequest'
  BY <1>1, <1>4 DEF ServesRequest
<1>6. TodoWhileSettling'
  BY <1>1, <1>4 DEF TodoWhileSettling
<1>7. ReportsVerdicts'
  BY <1>1, <1>4 DEF ReportsVerdicts, NoTodo, Stages
<1>. QED
  BY <1>3, <1>5, <1>6, <1>7 DEF RecoveryKept

LEMMA TodoAfterType ==
  ASSUME NEW s, NEW rows
  PROVE  /\ TodoAfter(s, rows) \in [Stages -> SUBSET Calls]
         /\ TodoAfter(s, rows)["report"] = Unreported(s, Repaired(s, rows))
<1>1. /\ Repairable(s, rows) \subseteq Calls
      /\ Dangling(s) \subseteq Calls
      /\ Unreported(s, Repaired(s, rows)) \subseteq Calls
      /\ Undecided(s, Repaired(s, rows)) \subseteq Calls
  BY DEF Repairable, Dangling, Unreported, Undecided
<1>. QED
  BY <1>1, ConstantsType DEF TodoAfter, Stages

LEMMA RepairedType ==
  ASSUME NEW s, NEW rows \in [Calls -> Rows]
  PROVE  Repaired(s, rows) \in [Calls -> Rows]
<1>1. \A row \in Rows :
        [row EXCEPT !.state = "SUCCEEDED", !.result = "ok", !.meta = "none"] \in Rows
  BY DEF Rows, States, RowStates, TerminalStates, Contents
<1>. QED
  BY <1>1 DEF Repaired

LEMMA ContentType ==
  ASSUME NEW row \in Rows, NEW v \in Verdicts
  PROVE  /\ SynthesizedContent(row) \in EventInfos
         /\ VerdictContent(row, v) \in Contents \cup {"none"}
         /\ VerdictContent(row, v) \in EventInfos
         /\ Target(v) \in RowStates
<1>1. row.result \in Contents \cup {"none"}
  BY DEF Rows
<1>2. Contents \cup {"none"} \subseteq EventInfos
  BY DEF Contents, EventInfos, ResultContents
<1>3. SynthesizedContent(row) \in EventInfos
  BY <1>1, <1>2 DEF SynthesizedContent, EventInfos, ResultContents
<1>4. VerdictContent(row, v) \in Contents \cup {"none"}
  BY <1>1 DEF VerdictContent, Contents
<1>5. Target(v) \in RowStates
  BY DEF Target, RowStates, ReconcileStates, TerminalStates
<1>. QED
  BY <1>2, <1>3, <1>4, <1>5

LEMMA AtStageInCalls ==
  ASSUME RecoveryTypeOK, NEW r \in Recoverers, NEW stage \in Stages, NEW c,
         AtStage(r, stage, c)
  PROVE  c \in Calls /\ rpc[r] = "settle"
  BY DEF RecoveryTypeOK, AtStage

\* Finishing a call of a stage only shortens what is left to do.
LEMMA DoneType ==
  ASSUME TypeInv, NEW r \in Recoverers, NEW stage \in Stages, NEW c \in Calls,
         rpc[r] = "settle", Done(r, stage, c), UNCHANGED <<rpc, current>>,
         \A q \in Recoverers, d \in Calls : ops'[q][d].meta = ops[q][d].meta
  PROVE  /\ todo' \in [Recoverers -> [Stages -> SUBSET Calls]]
         /\ ServesRequest' /\ TodoWhileSettling' /\ ReportsVerdicts'
<1>1. RecoveryTypeOK /\ ServesRequest /\ TodoWhileSettling /\ ReportsVerdicts
  BY DEF TypeInv, TypeOK
<1>2. todo' \in [Recoverers -> [Stages -> SUBSET Calls]]
  BY <1>1 DEF RecoveryTypeOK, Done
<1>3. \A q \in Recoverers : q # r => todo'[q] = todo[q]
  BY <1>1 DEF RecoveryTypeOK, Done
<1>4. \A q \in Recoverers : todo'[q]["report"] \subseteq todo[q]["report"]
  BY <1>1 DEF RecoveryTypeOK, Done, Stages
<1>5. ReportsVerdicts'
  <2>1. SUFFICES ASSUME NEW q \in Recoverers, NEW d \in todo'[q]["report"]
                 PROVE  CommittedVerdict(ops'[q][d])
    BY DEF ReportsVerdicts
  <2>2. d \in Calls
    BY <1>2, <2>1 DEF Stages
  <2>. QED
    BY <1>1, <1>4, <2>1, <2>2 DEF ReportsVerdicts, CommittedVerdict
<1>. QED
  BY <1>1, <1>2, <1>3, <1>5 DEF ServesRequest, TodoWhileSettling

\* The steps of the first lock section, once its work is laid out.
LEMMA SettlingType ==
  ASSUME TypeInv, NEW r \in Recoverers, NEW c \in Calls,
         \/ Repair(r, c) \/ Synthesize(r, c) \/ ClosePending(r, c) \/ Report(r, c)
         \/ MarkUnknown(r, c) \/ MarkNeedReconcile(r, c) \/ Request(r, c)
  PROVE  RecoveryKept
<1>. USE DEF RecoveryKept
<1>1. /\ RecoveryTypeOK /\ LedgerTypeOK /\ LogTypeOK
      /\ ServesRequest /\ TodoWhileSettling /\ ReportsVerdicts
  BY DEF TypeInv, TypeOK
<1>2. "repair" \in Stages /\ "close" \in Stages /\ "report" \in Stages
      /\ "prepare" \in Stages /\ "synthesize" \in Stages
  BY DEF Stages
<1>3. rpc[r] = "settle"
  BY DEF Repair, Synthesize, ClosePending, Report, MarkUnknown,
     MarkNeedReconcile, Request, AtStage
<1>4. ops[r][c] \in Rows
  BY <1>1 DEF RecoveryTypeOK
<1>5. CASE Repair(r, c)
  <2>1. LedgerTypeOK'
    BY <1>1, <1>5, UpdateStateType DEF Repair, RowStates, TerminalStates, Contents
  <2>2. /\ todo' \in [Recoverers -> [Stages -> SUBSET Calls]]
        /\ ServesRequest' /\ TodoWhileSettling' /\ ReportsVerdicts'
    BY <1>2, <1>3, <1>5, DoneType DEF Repair
  <2>. QED
    BY <1>1, <1>5, <2>1, <2>2 DEF Repair, RecoveryTypeOK, LogTypeOK
<1>6. CASE Synthesize(r, c)
  <2>1. Event("tool/result", c, SynthesizedContent(ops[r][c])) \in Events
    <3>1. SynthesizedContent(ops[r][c]) \in EventInfos
      BY <1>4, ContentType DEF Verdicts
    <3>. QED
      BY <3>1, EventIsEvent DEF EventTypes
  <2>2. LogTypeOK' /\ view' \in [Recoverers -> Seq(Events)]
    BY <1>1, <1>6, <2>1, WriteType DEF Synthesize, RecoveryTypeOK
  <2>3. /\ todo' \in [Recoverers -> [Stages -> SUBSET Calls]]
        /\ \A q \in Recoverers : q # r => todo'[q] = todo[q]
        /\ \A q \in Recoverers : todo'[q]["report"] = todo[q]["report"]
    <3>. DEFINE rest == [[todo[r] EXCEPT !["synthesize"] = @ \ {c}]
                           EXCEPT !["close"] = IF ops[r][c].state = "PENDING"
                                               THEN {c} ELSE {}]
    <3>1. todo' = [todo EXCEPT ![r] = rest]
      BY <1>1, <1>6 DEF Synthesize, RecoveryTypeOK, Stages
    <3>2. todo[r] \in [Stages -> SUBSET Calls]
      BY <1>1 DEF RecoveryTypeOK
    <3>3. rest \in [Stages -> SUBSET Calls] /\ rest["report"] = todo[r]["report"]
      BY <3>2 DEF Stages
    <3>. QED
      BY <1>1, <3>1, <3>3 DEF RecoveryTypeOK
  <2>4. ServesRequest' /\ TodoWhileSettling' /\ ReportsVerdicts'
    BY <1>1, <1>3, <1>6, <2>3
       DEF Synthesize, ServesRequest, TodoWhileSettling, ReportsVerdicts
  <2>. QED
    BY <1>1, <1>6, <2>2, <2>3, <2>4 DEF Synthesize, RecoveryTypeOK, LedgerTypeOK
<1>7. CASE ClosePending(r, c)
  <2>1. LedgerTypeOK'
    BY <1>1, <1>7, UpdateStateType
       DEF ClosePending, RowStates, TerminalStates, Contents
  <2>2. /\ todo' \in [Recoverers -> [Stages -> SUBSET Calls]]
        /\ ServesRequest' /\ TodoWhileSettling' /\ ReportsVerdicts'
    BY <1>2, <1>3, <1>7, DoneType DEF ClosePending
  <2>. QED
    BY <1>1, <1>7, <2>1, <2>2 DEF ClosePending, RecoveryTypeOK, LogTypeOK
<1>8. CASE Report(r, c)
  <2>1. ops[r][c].meta \in Verdicts
    BY <1>1, <1>8 DEF Report, AtStage, ReportsVerdicts, CommittedVerdict
  <2>2. Event("operation/reconciled", c, ops[r][c].meta) \in Events
    BY <2>1, EventIsEvent DEF EventTypes, EventInfos
  <2>3. LogTypeOK' /\ view' \in [Recoverers -> Seq(Events)]
    BY <1>1, <1>8, <2>2, WriteType DEF Report, RecoveryTypeOK
  <2>4. /\ todo' \in [Recoverers -> [Stages -> SUBSET Calls]]
        /\ ServesRequest' /\ TodoWhileSettling' /\ ReportsVerdicts'
    BY <1>2, <1>3, <1>8, DoneType DEF Report
  <2>. QED
    BY <1>1, <1>8, <2>3, <2>4 DEF Report, RecoveryTypeOK, LedgerTypeOK
<1>9. CASE MarkUnknown(r, c) \/ MarkNeedReconcile(r, c)
  <2>1. LedgerTypeOK'
    BY <1>1, <1>9, UpdateStateType
       DEF MarkUnknown, MarkNeedReconcile, RowStates, ReconcileStates
  <2>2. /\ ops' \in [Recoverers -> [Calls -> Rows]]
        /\ \A q \in Recoverers, d \in Calls : ops'[q][d].meta = ops[q][d].meta
    <3>1. PICK s \in {"UNKNOWN", "NEED_RECONCILE"} :
            ops' = [ops EXCEPT ![r][c].state = s]
      BY <1>9 DEF MarkUnknown, MarkNeedReconcile
    <3>2. [ops[r][c] EXCEPT !.state = s] \in Rows
      BY <1>4 DEF Rows, States, RowStates, ReconcileStates
    <3>. QED
      BY <1>1, <1>4, <3>1, <3>2 DEF RecoveryTypeOK, Rows
  <2>3. tokens' \in [Recoverers -> [Calls -> States \cup {"none"}]]
    <3>1. "NEED_RECONCILE" \in States
      BY DEF States, RowStates, ReconcileStates
    <3>2. CASE MarkUnknown(r, c)
      BY <1>1, <3>2 DEF MarkUnknown, RecoveryTypeOK
    <3>3. CASE MarkNeedReconcile(r, c)
      <4>1. tokens' = [tokens EXCEPT ![r] = [@ EXCEPT ![c] = "NEED_RECONCILE"]]
        BY <3>3 DEF MarkNeedReconcile
      <4>2. tokens[r] \in [Calls -> States \cup {"none"}]
        BY <1>1 DEF RecoveryTypeOK
      <4>3. [tokens[r] EXCEPT ![c] = "NEED_RECONCILE"] \in [Calls -> States \cup {"none"}]
        BY <3>1, <4>2
      <4>. QED
        BY <1>1, <4>1, <4>3 DEF RecoveryTypeOK
    <3>. QED
      BY <1>9, <3>2, <3>3
  <2>4. ServesRequest' /\ TodoWhileSettling'
    BY <1>1, <1>9 DEF MarkUnknown, MarkNeedReconcile, ServesRequest, TodoWhileSettling
  <2>5. ReportsVerdicts'
    <3>1. \A q \in Recoverers : todo'[q]["report"] \subseteq Calls
                                /\ todo'[q]["report"] = todo[q]["report"]
      BY <1>1, <1>2, <1>9 DEF MarkUnknown, MarkNeedReconcile, RecoveryTypeOK
    <3>. QED
      BY <1>1, <2>2, <3>1 DEF ReportsVerdicts, CommittedVerdict
  <2>. QED
    BY <1>1, <1>9, <2>1, <2>2, <2>3, <2>4, <2>5
       DEF MarkUnknown, MarkNeedReconcile, RecoveryTypeOK, LogTypeOK
<1>10. CASE Request(r, c)
  <2>1. Event("operation/reconcile-required", c, "none") \in Events
    BY EventIsEvent DEF EventTypes, EventInfos
  <2>2. LogTypeOK' /\ view' \in [Recoverers -> Seq(Events)]
    BY <1>1, <1>10, <2>1, WriteType DEF Request, RecoveryTypeOK, LogTypeOK
  <2>3. ledger[c].state \in States
    BY <1>1 DEF LedgerTypeOK, Rows
  <2>4. tokens' \in [Recoverers -> [Calls -> States \cup {"none"}]]
    BY <1>1, <1>10, <2>3 DEF Request, RecoveryTypeOK
  <2>5. /\ todo' \in [Recoverers -> [Stages -> SUBSET Calls]]
        /\ ServesRequest' /\ TodoWhileSettling' /\ ReportsVerdicts'
    BY <1>2, <1>3, <1>10, DoneType DEF Request
  <2>. QED
    BY <1>1, <1>10, <2>2, <2>4, <2>5 DEF Request, RecoveryTypeOK, LedgerTypeOK
<1>. QED
  BY <1>5, <1>6, <1>7, <1>8, <1>9, <1>10

LEMMA LeaveType ==
  ASSUME TypeInv, NEW r \in Recoverers, Leave(r)
  PROVE  RecoveryKept
<1>1. /\ RecoveryTypeOK /\ LedgerTypeOK /\ LogTypeOK
  BY DEF TypeInv, TypeOK
<1>2. /\ Step(r, "idle") /\ Forget(r)
      /\ lock' \in Recoverers \cup {NoOne}
      /\ tokens' \in [Recoverers -> [Calls -> States \cup {"none"}]]
  BY <1>1, ConstantsType DEF Leave, Step, RecoveryTypeOK
<1>. QED
  BY <1>1, <1>2, ForgetKept DEF Leave, LedgerTypeOK, LogTypeOK

LEMMA AdvanceType ==
  ASSUME TypeInv, NEW r \in Recoverers, Advance(r)
  PROVE  RecoveryKept
<1>1. /\ RecoveryTypeOK /\ LedgerTypeOK /\ LogTypeOK
      /\ ServesRequest /\ TodoWhileSettling /\ ReportsVerdicts
  BY DEF TypeInv, TypeOK
<1>2. Event("session/resumed", NoCall, "none") \in Events
  BY EventIsEvent DEF EventTypes, EventInfos
<1>3. CASE Acquire(r)
  BY <1>1, <1>3 DEF Acquire, Step, RecoveryKept, RecoveryTypeOK, LedgerTypeOK,
     LogTypeOK, ServesRequest, TodoWhileSettling, ReportsVerdicts, RecoverySteps
<1>4. CASE Decide(r)
  <2>1. Repaired(view[r], ledger) \in [Calls -> Rows]
    BY <1>1, RepairedType DEF LedgerTypeOK
  <2>2. /\ TodoAfter(view[r], ledger) \in [Stages -> SUBSET Calls]
        /\ \A c \in TodoAfter(view[r], ledger)["report"] :
             CommittedVerdict(Repaired(view[r], ledger)[c])
    BY TodoAfterType DEF Unreported
  <2>3. /\ ops' = [ops EXCEPT ![r] = Repaired(view[r], ledger)]
        /\ todo' = [todo EXCEPT ![r] = TodoAfter(view[r], ledger)]
        /\ rpc' = [rpc EXCEPT ![r] = "settle"]
        /\ UNCHANGED <<ledger, log, lock, callback, view, tokens, current>>
    BY <1>4 DEF Decide, Step
  <2>4. RecoveryTypeOK'
    BY <1>1, <2>1, <2>2, <2>3 DEF RecoveryTypeOK, RecoverySteps
  <2>5. ServesRequest' /\ TodoWhileSettling'
    BY <1>1, <2>3 DEF ServesRequest, TodoWhileSettling, RecoveryTypeOK
  <2>6. ReportsVerdicts'
    BY <1>1, <2>2, <2>3 DEF ReportsVerdicts, RecoveryTypeOK, CommittedVerdict
  <2>. QED
    BY <1>1, <2>3, <2>4, <2>5, <2>6 DEF RecoveryKept, LedgerTypeOK, LogTypeOK
<1>5. CASE AskVerdicts(r)
  BY <1>1, <1>5, ForgetKept DEF AskVerdicts, RecoveryTypeOK, LedgerTypeOK, LogTypeOK
<1>6. CASE ResumeAtOnce(r)
  BY <1>1, <1>2, <1>6, EmitType, ForgetKept
     DEF ResumeAtOnce, RecoveryTypeOK, LedgerTypeOK
<1>7. CASE \E c \in Calls :
             \/ Repair(r, c) \/ Synthesize(r, c) \/ ClosePending(r, c)
             \/ Report(r, c) \/ MarkUnknown(r, c) \/ MarkNeedReconcile(r, c)
             \/ Request(r, c)
  BY <1>7, SettlingType
<1>8. CASE \E c \in Calls, v \in Verdicts : Resolve(r, c, v)
  <2>1. PICK c \in Calls, v \in Verdicts : Resolve(r, c, v)
    BY <1>8
  <2>2. RecoveryTypeOK'
    BY <1>1, <2>1 DEF Resolve, Step, RecoveryTypeOK, RecoverySteps
  <2>3. ServesRequest' /\ TodoWhileSettling' /\ ReportsVerdicts'
    BY <1>1, <2>1 DEF Resolve, Step, ServesRequest, TodoWhileSettling,
       ReportsVerdicts, RecoveryTypeOK
  <2>. QED
    BY <1>1, <2>1, <2>2, <2>3 DEF Resolve, RecoveryKept, LedgerTypeOK, LogTypeOK
<1>9. CASE Reacquire(r)
  <2>1. current[r].call \in Calls
    BY <1>1, <1>9 DEF Reacquire, ServesRequest
  <2>2. /\ tokens' = [tokens EXCEPT ![r][current[r].call] = "none"]
        /\ ops' = [ops EXCEPT ![r][current[r].call] = ledger[current[r].call]]
        /\ lock' = r
        /\ view' = [view EXCEPT ![r] = log]
        /\ rpc' = [rpc EXCEPT ![r] = "commit"]
        /\ rpc[r] = "reacquire"
        /\ UNCHANGED <<ledger, log, callback, todo, current>>
    BY <1>9 DEF Reacquire, Step
  <2>3. ledger[current[r].call] \in Rows
    BY <1>1, <2>1 DEF LedgerTypeOK
  <2>4. ops' \in [Recoverers -> [Calls -> Rows]]
    BY <1>1, <2>1, <2>2, <2>3 DEF RecoveryTypeOK
  <2>5. tokens' \in [Recoverers -> [Calls -> States \cup {"none"}]]
    BY <1>1, <2>1, <2>2 DEF RecoveryTypeOK
  <2>6. /\ lock' \in Recoverers \cup {NoOne}
        /\ view' \in [Recoverers -> Seq(Events)]
        /\ rpc' \in [Recoverers -> RecoverySteps]
    BY <1>1, <2>2 DEF RecoveryTypeOK, RecoverySteps, LogTypeOK
  <2>7. ServesRequest' /\ TodoWhileSettling'
    BY <1>1, <2>2 DEF ServesRequest, TodoWhileSettling, RecoveryTypeOK
  <2>8. ReportsVerdicts'
    <3>1. todo[r]["report"] = {}
      BY <1>1, <2>2 DEF TodoWhileSettling, NoTodo, Stages
    <3>2. \A q \in Recoverers : q # r => ops'[q] = ops[q]
      BY <1>1, <2>2 DEF RecoveryTypeOK
    <3>. QED
      BY <1>1, <2>2, <3>1, <3>2 DEF ReportsVerdicts
  <2>. QED
    BY <1>1, <2>2, <2>4, <2>5, <2>6, <2>7, <2>8
       DEF RecoveryKept, RecoveryTypeOK, LedgerTypeOK, LogTypeOK
<1>10. CASE CommitVerdict(r)
  <2>. DEFINE c == current[r].call
              v == current[r].verdict
  <2>1. c \in Calls /\ v \in Verdicts
    BY <1>1, <1>10 DEF CommitVerdict, ServesRequest
  <2>2. ops[r][c] \in Rows
    BY <1>1, <2>1 DEF RecoveryTypeOK
  <2>3. LedgerTypeOK'
    BY <1>1, <1>10, <2>1, <2>2, ContentType, UpdateStateType DEF CommitVerdict
  <2>. HIDE DEF c, v
  <2>4. RecoveryTypeOK'
    BY <1>1, <1>10 DEF CommitVerdict, Step, RecoveryTypeOK, RecoverySteps
  <2>5. ServesRequest' /\ TodoWhileSettling' /\ ReportsVerdicts'
    BY <1>1, <1>10 DEF CommitVerdict, Step, ServesRequest, TodoWhileSettling,
       ReportsVerdicts, RecoveryTypeOK
  <2>. QED
    BY <1>1, <1>10, <2>3, <2>4, <2>5 DEF CommitVerdict, RecoveryKept, LogTypeOK
<1>11. CASE PairResult(r)
  <2>. DEFINE c == current[r].call
              v == current[r].verdict
  <2>1. c \in Calls /\ v \in Verdicts
    BY <1>1, <1>11 DEF PairResult, ServesRequest
  <2>2. ops[r][c] \in Rows
    BY <1>1, <2>1 DEF RecoveryTypeOK
  <2>3. Event("tool/result", c, VerdictContent(ops[r][c], v)) \in Events
    BY <2>1, <2>2, ContentType, EventIsEvent DEF EventTypes
  <2>4. LogTypeOK' /\ view' \in [Recoverers -> Seq(Events)]
    BY <1>1, <1>11, <2>3, WriteType DEF PairResult, RecoveryTypeOK, LogTypeOK
  <2>. HIDE DEF c, v
  <2>5. RecoveryTypeOK'
    BY <1>1, <1>11, <2>4 DEF PairResult, Step, RecoveryTypeOK, RecoverySteps
  <2>6. ServesRequest' /\ TodoWhileSettling' /\ ReportsVerdicts'
    BY <1>1, <1>11 DEF PairResult, Step, ServesRequest, TodoWhileSettling,
       ReportsVerdicts, RecoveryTypeOK
  <2>. QED
    BY <1>1, <1>11, <2>4, <2>5, <2>6 DEF PairResult, RecoveryKept, LedgerTypeOK
<1>12. CASE Conclude(r)
  <2>1. current[r].call \in Calls /\ current[r].verdict \in Verdicts
    BY <1>1, <1>12 DEF Conclude, ServesRequest
  <2>2. Event("operation/reconciled", current[r].call, current[r].verdict) \in Events
    BY <2>1, EventIsEvent DEF EventTypes, EventInfos
  <2>3. LogTypeOK'
    BY <1>1, <1>12, <2>2, EmitType DEF Conclude, LogTypeOK
  <2>. QED
    BY <1>1, <1>12, <2>3, ForgetKept DEF Conclude, RecoveryTypeOK, LedgerTypeOK
<1>13. CASE ResumeAfterVerdicts(r)
  <2>1. LogTypeOK'
    BY <1>1, <1>2, <1>13, EmitType DEF ResumeAfterVerdicts
  <2>. QED
    BY <1>1, <1>13, <2>1 DEF ResumeAfterVerdicts, Step, RecoveryKept,
       RecoveryTypeOK, LedgerTypeOK, ServesRequest, TodoWhileSettling,
       ReportsVerdicts, RecoverySteps
<1>14. CASE Refuse(r)
  BY <1>14, LeaveType DEF Refuse
<1>. QED
  BY <1>3, <1>4, <1>5, <1>6, <1>7, <1>8, <1>9, <1>10, <1>11, <1>12, <1>13, <1>14
     DEF Advance

-----------------------------------------------------------------------------
(* Faults, and the whole system.                                            *)

LEMMA FaultType ==
  ASSUME TypeInv, FaultStep
  PROVE  ExecutorKept /\ RecoveryKept
<1>1. /\ ExecutorTypeOK /\ RecoveryTypeOK /\ LedgerTypeOK /\ LogTypeOK
      /\ RejectedIsOver /\ ServesRequest /\ TodoWhileSettling /\ ReportsVerdicts
  BY DEF TypeInv, TypeOK
<1>2. ASSUME UNCHANGED rcVars, ExecutorKept
      PROVE  RecoveryKept
  BY <1>1, <1>2 DEF ExecutorKept, RecoveryKept, rcVars, RecoveryTypeOK,
     ServesRequest, TodoWhileSettling, ReportsVerdicts
<1>3. CASE Crash
  <2>1. ExecutorKept
    BY <1>1, <1>3, BatchLength DEF Crash, ExecutorDies, ExecutorKept, ExecutorTypeOK,
       LedgerTypeOK, LogTypeOK, RejectedIsOver, RunPhases, CallPhases, Outcomes, Doubts
  <2>2. RecoveryTypeOK'
    BY <1>1, <1>3, ConstantsType DEF Crash, RecoveryDies, RecoveryTypeOK, RecoverySteps
  <2>3. ServesRequest' /\ TodoWhileSettling' /\ ReportsVerdicts'
    BY <1>3 DEF Crash, RecoveryDies, ServesRequest, TodoWhileSettling,
       ReportsVerdicts, NoTodo, Stages
  <2>. QED
    BY <2>1, <2>2, <2>3 DEF ExecutorKept, RecoveryKept
<1>4. CASE StorageFailure
  <2>1. ExecutorKept
    BY <1>1, <1>4, RaiseType
       DEF StorageFailure, StorageFails, ExecutorKept, LedgerTypeOK, LogTypeOK
  <2>. QED
    BY <1>2, <1>4, <2>1 DEF StorageFailure
<1>5. CASE Cancellation
  <2>1. ExecutorKept
    BY <1>1, <1>5 DEF Cancellation, CancelRun, ExecutorKept, ExecutorTypeOK,
       LedgerTypeOK, LogTypeOK, RejectedIsOver, RunPhases
  <2>. QED
    BY <1>2, <1>5, <2>1 DEF Cancellation
<1>6. CASE RecoveryFailure
  <2>1. PICK r \in Recoverers : Leave(r)
    BY <1>6 DEF RecoveryFailure, Abort
  <2>2. RecoveryKept
    BY <2>1, LeaveType
  <2>3. ExecutorKept
    BY <1>1, <1>6, <2>2 DEF RecoveryFailure, exVars, ExecutorKept, RecoveryKept,
       ExecutorTypeOK, RejectedIsOver
  <2>. QED
    BY <2>2, <2>3
<1>. QED
  BY <1>3, <1>4, <1>5, <1>6 DEF FaultStep, Fault

LEMMA TypeInit == Init => TypeInv
<1>. SUFFICES ASSUME Init PROVE TypeInv
  OBVIOUS
<1>1. LedgerTypeOK /\ LogTypeOK
  BY ConstantsType DEF Init, LedgerInit, LedgerTypeOK, LogInit, LogTypeOK
<1>2. ExecutorTypeOK /\ RejectedIsOver
  BY BatchLength DEF Init, ExecutorInit, ExecutorTypeOK, RejectedIsOver, RunPhases,
     CallPhases, Outcomes, Doubts
<1>3. RecoveryTypeOK
  BY ConstantsType DEF Init, RecoveryInit, RecoveryTypeOK, RecoverySteps, Callbacks
<1>4. ServesRequest /\ TodoWhileSettling /\ ReportsVerdicts
  BY DEF Init, RecoveryInit, ServesRequest, TodoWhileSettling, ReportsVerdicts,
     NoTodo, Stages
<1>5. faults \in 0..MaxFaults /\ recoveries \in 0..MaxRecoveries
  BY BoundAssumption DEF Init
<1>6. overlap \in BOOLEAN
  BY DEF Init
<1>. QED
  BY <1>1, <1>2, <1>3, <1>4, <1>5, <1>6 DEF TypeInv, TypeOK

LEMMA TypeStep == TypeInv /\ [Next]_vars => TypeInv'
<1>. SUFFICES ASSUME TypeInv, [Next]_vars PROVE TypeInv'
  OBVIOUS
<1>1. /\ ExecutorTypeOK /\ RecoveryTypeOK /\ LedgerTypeOK /\ LogTypeOK
      /\ RejectedIsOver /\ ServesRequest /\ TodoWhileSettling /\ ReportsVerdicts
      /\ faults \in 0..MaxFaults /\ recoveries \in 0..MaxRecoveries
      /\ overlap \in BOOLEAN
  BY DEF TypeInv, TypeOK
<1>2. ASSUME ExecutorKept, UNCHANGED <<rcVars, bounds, overlap>>
      PROVE  TypeInv'
  BY <1>1, <1>2 DEF ExecutorKept, rcVars, bounds, TypeInv, TypeOK, RecoveryTypeOK,
     ServesRequest, TodoWhileSettling, ReportsVerdicts
<1>3. ASSUME RecoveryKept, UNCHANGED exVars, faults' \in 0..MaxFaults,
             recoveries' \in 0..MaxRecoveries, overlap' \in BOOLEAN
      PROVE  TypeInv'
  BY <1>1, <1>3 DEF RecoveryKept, exVars, TypeInv, TypeOK, ExecutorTypeOK,
     RejectedIsOver
<1>4. CASE ExecutorStep
  BY <1>2, <1>4, ExecutorStepType DEF ExecutorStep
<1>5. CASE ToolMisbehaves
  BY <1>2, <1>5, ToolMisbehavesType DEF ToolMisbehaves
<1>6. ASSUME NEW r \in Recoverers, RecoverCalled(r)
      PROVE  TypeInv'
  <2>1. recoveries' \in 0..MaxRecoveries
    BY <1>1, <1>6, BoundAssumption DEF RecoverCalled
  <2>2. PICK k \in CallbackKinds : Start(r, k)
    BY <1>6 DEF RecoverCalled
  <2>3. k \in Callbacks
    BY RecoveryAssumption
  <2>4. RecoveryKept
    BY <1>1, <2>2, <2>3 DEF Start, Step, RecoveryKept, RecoveryTypeOK,
       RecoverySteps, LedgerTypeOK, LogTypeOK, ServesRequest, TodoWhileSettling,
       ReportsVerdicts
  <2>5. overlap' \in BOOLEAN
    BY <1>1, <1>6 DEF RecoverCalled
  <2>. QED
    BY <1>1, <1>3, <1>6, <2>1, <2>4, <2>5 DEF RecoverCalled
<1>7. ASSUME NEW r \in Recoverers, RecoveryStep(r)
      PROVE  TypeInv'
  BY <1>1, <1>3, <1>7, AdvanceType DEF RecoveryStep, bounds
<1>8. CASE FaultStep
  <2>1. faults' \in 0..MaxFaults /\ recoveries' \in 0..MaxRecoveries
    BY <1>1, <1>8, BoundAssumption DEF FaultStep, Fault
  <2>2. overlap' \in BOOLEAN
    BY <1>1, <1>8 DEF FaultStep, Fault
  <2>. QED
    BY <1>8, <2>1, <2>2, FaultType DEF ExecutorKept, RecoveryKept, TypeInv, TypeOK
<1>9. CASE UNCHANGED vars
  BY <1>1, <1>9 DEF vars, exVars, rcVars, bounds, TypeInv, TypeOK, ExecutorTypeOK,
     RecoveryTypeOK, LedgerTypeOK, LogTypeOK, RejectedIsOver, ServesRequest,
     TodoWhileSettling, ReportsVerdicts
<1>. QED
  BY <1>4, <1>5, <1>6, <1>7, <1>8, <1>9 DEF Next

\* Every variable of the executor, the recovery, the ledger and the stream
\* keeps its type, whatever fails and whenever it fails.
THEOREM TypeCorrect == Spec => []TypeOK
<1>1. Spec => []TypeInv
  BY TypeInit, TypeStep, PTL DEF Spec
<1>2. TypeInv => TypeOK
  BY DEF TypeInv
<1>. QED
  BY <1>1, <1>2, PTL

-----------------------------------------------------------------------------
(* What a step can do to the ledger.                                        *)

\* The only ways in which a row changes.
RowStep(c) ==
  \/ Create(c)
  \/ RecordAttempt(c)
  \/ \E s \in RowStates, res \in Contents \cup {"none"},
        m \in Verdicts \cup {"unproven", "none"} : UpdateState(c, s, res, m)

LedgerStep == UNCHANGED ledger \/ \E c \in Calls : RowStep(c)

LEMMA ExecutorLedger ==
  ASSUME TypeInv, ExecutorStep
  PROVE  LedgerStep
<1>1. ASSUME NEW c \in Calls, Settle(c)
      PROVE  RowStep(c)
  <2>1. outcome[c] # "rejected"
    BY <1>1 DEF TypeInv, RejectedIsOver, Settle, Settleable
  <2>2. outcome[c] \in Contents \cup {"none"}
    BY <2>1 DEF TypeInv, TypeOK, ExecutorTypeOK, Outcomes, Contents
  <2>3. SettleState(c) \in RowStates /\ SettleMeta(c) \in {"unproven", "none"}
    BY DEF SettleState, SettleMeta, RowStates, ReconcileStates, TerminalStates
  <2>. QED
    BY <1>1, <2>2, <2>3 DEF Settle, RowStep
<1>2. ASSUME NEW c \in Calls, CancelUnexecuted(c) \/ StartRunning(c) \/ CancelArm(c)
      PROVE  LedgerStep
  BY <1>2 DEF CancelUnexecuted, StartRunning, CancelArm, RowStep, LedgerStep,
     RowStates, ReconcileStates, TerminalStates, Contents
<1>. QED
  BY <1>1, <1>2 DEF ExecutorStep, EmitCall, CompleteModel, EmitResult, BatchRaises,
     CancelEnds, CreatePending, BeginAttempt, EnterTool, ToolReturns, AskUser,
     LedgerRefuses, Raise, RowStep, LedgerStep

LEMMA AdvanceLedger ==
  ASSUME TypeInv, NEW r \in Recoverers, Advance(r)
  PROVE  LedgerStep
<1>1. CASE CommitVerdict(r)
  <2>. DEFINE c == current[r].call
              v == current[r].verdict
  <2>1. c \in Calls /\ v \in Verdicts
    BY <1>1 DEF CommitVerdict, TypeInv, ServesRequest
  <2>2. ops[r][c] \in Rows
    BY <2>1 DEF TypeInv, TypeOK, RecoveryTypeOK
  <2>3. UpdateState(c, Target(v), VerdictContent(ops[r][c], v), v)
    BY <1>1 DEF CommitVerdict
  <2>4. RowStep(c)
    BY <2>1, <2>2, <2>3, ContentType DEF RowStep
  <2>. QED
    BY <2>1, <2>4 DEF LedgerStep
<1>2. ASSUME NEW c \in Calls,
             \/ Repair(r, c) \/ ClosePending(r, c)
             \/ MarkUnknown(r, c) \/ MarkNeedReconcile(r, c)
      PROVE  RowStep(c)
  BY <1>2 DEF Repair, ClosePending, MarkUnknown, MarkNeedReconcile, RowStep,
     RowStates, ReconcileStates, TerminalStates, Contents
<1>3. ASSUME NEW c \in Calls,
             \/ Synthesize(r, c) \/ Report(r, c) \/ Request(r, c)
             \/ \E v \in Verdicts : Resolve(r, c, v)
      PROVE  UNCHANGED ledger
  BY <1>3 DEF Synthesize, Report, Request, Resolve
<1>4. ASSUME \/ Acquire(r) \/ Decide(r) \/ AskVerdicts(r) \/ ResumeAtOnce(r)
             \/ Reacquire(r) \/ PairResult(r) \/ Conclude(r)
             \/ ResumeAfterVerdicts(r) \/ Refuse(r)
      PROVE  UNCHANGED ledger
  BY <1>4 DEF Acquire, Decide, AskVerdicts, ResumeAtOnce, Reacquire, PairResult,
     Conclude, ResumeAfterVerdicts, Refuse, Leave
<1>. QED
  BY <1>1, <1>2, <1>3, <1>4 DEF Advance, LedgerStep

LEMMA NextLedger ==
  ASSUME TypeInv, [Next]_vars
  PROVE  LedgerStep
<1>1. CASE ToolMisbehaves
  BY <1>1 DEF ToolMisbehaves, Reject, ToolRetries, TimesOut, LosesConnection, LedgerStep
<1>2. ASSUME NEW r \in Recoverers, RecoverCalled(r)
      PROVE  LedgerStep
  BY <1>2 DEF RecoverCalled, Start, LedgerStep
<1>3. CASE FaultStep
  BY <1>3 DEF FaultStep, Fault, Crash, ExecutorDies, StorageFailure, StorageFails,
     Raise, Cancellation, CancelRun, RecoveryFailure, Abort, Leave, LedgerStep
<1>4. CASE UNCHANGED vars
  BY <1>4 DEF vars, LedgerStep
<1>. QED
  BY <1>1, <1>2, <1>3, <1>4, ExecutorLedger, AdvanceLedger DEF Next, RecoveryStep

LEMMA AllowedMoves ==
  /\ \A s \in TerminalStates \cup {"ABSENT"} : Allowed(s) = {}
  /\ \A s \in States : "PENDING" \notin Allowed(s) /\ "ABSENT" \notin Allowed(s)
  BY DEF Allowed, States, RowStates, TerminalStates, ReconcileStates

-----------------------------------------------------------------------------
(* A settled row.                                                           *)

LEMMA SettledStep ==
  ASSUME TypeInv, [Next]_vars, NEW c \in Calls, ledger[c].state \in TerminalStates
  PROVE  ledger'[c] = ledger[c]
<1>1. CASE UNCHANGED ledger
  BY <1>1
<1>2. ASSUME NEW d \in Calls, RowStep(d)
      PROVE  ledger'[c] = ledger[c]
  <2>1. c # d
    BY <1>2, AllowedMoves DEF RowStep, Create, RecordAttempt, CanRecordAttempt,
       UpdateState, CanMove, TerminalStates
  <2>. QED
    BY <1>2, <2>1 DEF RowStep, Create, RecordAttempt, UpdateState,
       TypeInv, TypeOK, LedgerTypeOK
<1>. QED
  BY <1>1, <1>2, NextLedger DEF LedgerStep

\* A row that has reached SUCCEEDED, FAILED or CANCELLED is never written
\* again: not by the executor, not by any number of recoveries, even ones that
\* run while the batch is in flight.
THEOREM SettledRowStays == Spec => SettledOnce
<1>1. TypeInv /\ [Next]_vars =>
        [\A c \in Calls : ledger[c].state \in TerminalStates => ledger'[c] = ledger[c]]_vars
  BY SettledStep
<1>. QED
  BY <1>1, TypeInit, TypeStep, PTL DEF Spec, SettledOnce

-----------------------------------------------------------------------------
(* Write-ahead.                                                             *)

\* Counts never go down, and "not started" is never written over a count.
LEMMA CountsKept ==
  ASSUME TypeInv, AttemptCounted, LedgerStep, NEW c \in Calls
  PROVE  /\ ledger'[c].attempts \in Nat
         /\ ledger[c].attempts <= ledger'[c].attempts
         /\ ledger'[c].state \in {"ABSENT", "PENDING"} => ledger'[c].attempts = 0
<1>1. LedgerTypeOK /\ ledger[c] \in Rows
  BY DEF TypeInv, TypeOK, LedgerTypeOK
<1>2. /\ ledger[c].attempts \in Nat /\ ledger[c].state \in States
      /\ ledger[c].state \in {"ABSENT", "PENDING"} => ledger[c].attempts = 0
  BY <1>1 DEF Rows, AttemptCounted
<1>3. CASE UNCHANGED ledger
  BY <1>2, <1>3
<1>4. ASSUME NEW d \in Calls, d # c, RowStep(d)
      PROVE  ledger'[c] = ledger[c]
  BY <1>1, <1>4 DEF RowStep, Create, RecordAttempt, UpdateState, LedgerTypeOK
<1>5. CASE Create(c)
  BY <1>1, <1>2, <1>5 DEF Create, NoRow, LedgerTypeOK
<1>6. CASE RecordAttempt(c)
  <2>1. /\ ledger'[c].attempts = ledger[c].attempts + 1
        /\ ledger'[c].state = "RUNNING"
    BY <1>1, <1>6 DEF RecordAttempt, CanRecordAttempt, LedgerTypeOK, Rows
  <2>. QED
    BY <1>2, <2>1
<1>7. CASE \E s \in RowStates, res \in Contents \cup {"none"},
              m \in Verdicts \cup {"unproven", "none"} : UpdateState(c, s, res, m)
  <2>1. PICK s \in RowStates, res \in Contents \cup {"none"},
             m \in Verdicts \cup {"unproven", "none"} : UpdateState(c, s, res, m)
    BY <1>7
  <2>2. /\ ledger'[c].attempts = ledger[c].attempts
        /\ ledger'[c].state = s
        /\ s \in Allowed(ledger[c].state)
    BY <1>1, <2>1 DEF UpdateState, CanMove, LedgerTypeOK
  <2>3. s \notin {"ABSENT", "PENDING"}
    BY <1>2, <2>2, AllowedMoves
  <2>. QED
    BY <1>2, <2>2, <2>3
<1>. QED
  BY <1>2, <1>3, <1>4, <1>5, <1>6, <1>7 DEF LedgerStep, RowStep

\* Only BeginAttempt puts a call where its tool is entered next, and only
\* EnterTool enters it.
LEMMA AttemptsInOrder ==
  ASSUME TypeInv, [Next]_vars
  PROVE  \/ \E c \in Calls : BeginAttempt(c)
         \/ \E c \in Calls : EnterTool(c)
         \/ /\ UNCHANGED started
            /\ \A c \in Calls : pc'[c] = "recorded" => pc[c] = "recorded"
<1>. DEFINE Quiet == /\ UNCHANGED started
                     /\ \A c \in Calls : pc'[c] = "recorded" => pc[c] = "recorded"
<1>1. pc \in [Calls -> CallPhases]
  BY DEF TypeInv, TypeOK, ExecutorTypeOK
<1>2. ASSUME NEW c \in Calls,
             \/ CreatePending(c) \/ CancelUnexecuted(c) \/ StartRunning(c)
             \/ (\E answer \in {"ok", "fail"} : ToolReturns(c, answer))
             \/ AskUser(c) \/ Settle(c) \/ LedgerRefuses(c) \/ CancelArm(c)
             \/ Reject(c) \/ ToolRetries(c) \/ TimesOut(c) \/ StorageFails(c)
      PROVE  Quiet
  BY <1>1, <1>2 DEF CreatePending, CancelUnexecuted, StartRunning, ToolReturns,
     AskUser, Settle, LedgerRefuses, CancelArm, Reject, ToolRetries, TimesOut,
     StorageFails, Raise, AfterRaise, Goto
<1>3. ASSUME NEW c \in Calls, LosesConnection(c)
      PROVE  Quiet
  BY <1>1, <1>3 DEF LosesConnection, Goto
<1>4. CASE UNCHANGED <<pc, started>>
  BY <1>4
<1>5. CASE ExecutorDies
  BY <1>5 DEF ExecutorDies
<1>6. CASE ExecutorStep
  BY <1>2, <1>4, <1>6 DEF ExecutorStep, EmitCall, CompleteModel, EmitResult,
     BatchRaises, CancelEnds
<1>7. CASE ToolMisbehaves
  BY <1>2, <1>3, <1>7 DEF ToolMisbehaves
<1>8. CASE FaultStep
  BY <1>2, <1>4, <1>5, <1>8 DEF FaultStep, Fault, Crash, StorageFailure,
     Cancellation, CancelRun, RecoveryFailure, exVars
<1>9. ASSUME NEW r \in Recoverers, RecoverCalled(r) \/ RecoveryStep(r)
      PROVE  Quiet
  BY <1>4, <1>9 DEF RecoverCalled, RecoveryStep, exVars
<1>10. CASE UNCHANGED vars
  BY <1>4, <1>10 DEF vars, exVars
<1>. QED
  BY <1>6, <1>7, <1>8, <1>9, <1>10 DEF Next

LEMMA AttemptStep ==
  ASSUME TypeInv, AttemptCounted, [Next]_vars
  PROVE  AttemptCounted'
<1>1. /\ started \in [Calls -> Nat] /\ pc \in [Calls -> CallPhases]
      /\ ledger \in [Calls -> Rows]
  BY DEF TypeInv, TypeOK, ExecutorTypeOK, LedgerTypeOK
<1>2. \A c \in Calls : ledger[c].attempts \in Nat
  BY <1>1 DEF Rows
<1>3. \A c \in Calls :
        /\ ledger'[c].attempts \in Nat
        /\ ledger[c].attempts <= ledger'[c].attempts
        /\ ledger'[c].state \in {"ABSENT", "PENDING"} => ledger'[c].attempts = 0
  BY CountsKept, NextLedger
<1>4. ASSUME NEW c \in Calls, BeginAttempt(c)
      PROVE  AttemptCounted'
  <2>1. /\ ledger'[c].attempts = ledger[c].attempts + 1
        /\ started' = started /\ pc' = [pc EXCEPT ![c] = "recorded"]
    BY <1>1, <1>4 DEF BeginAttempt, RecordAttempt, Goto, Rows
  <2>. QED
    BY <1>1, <1>2, <1>3, <2>1 DEF AttemptCounted
<1>5. ASSUME NEW c \in Calls, EnterTool(c)
      PROVE  AttemptCounted'
  <2>1. /\ started' = [started EXCEPT ![c] = @ + 1] /\ pc[c] = "recorded"
        /\ pc' = [pc EXCEPT ![c] = "executing"] /\ ledger' = ledger
    BY <1>5 DEF EnterTool, Goto
  <2>. QED
    BY <1>1, <1>2, <1>3, <2>1 DEF AttemptCounted
<1>6. CASE /\ UNCHANGED started
           /\ \A c \in Calls : pc'[c] = "recorded" => pc[c] = "recorded"
  BY <1>1, <1>2, <1>3, <1>6 DEF AttemptCounted
<1>. QED
  BY <1>4, <1>5, <1>6, AttemptsInOrder

\* A call that has not been admitted has no attempt to count.
LEMMA AttemptInit == Init => AttemptCounted
<1>. SUFFICES ASSUME Init PROVE AttemptCounted
  OBVIOUS
<1>1. ASSUME NEW c \in Calls
      PROVE  /\ started[c] = 0 /\ pc[c] = "wait"
             /\ ledger[c].attempts = 0 /\ started[c] <= ledger[c].attempts
  <2>1. ledger[c] = NoRow
    BY DEF Init, LedgerInit
  <2>. QED
    BY <2>1 DEF Init, ExecutorInit, NoRow
<1>. QED
  BY <1>1 DEF AttemptCounted

\* No tool is ever entered before the attempt is durable in its row, and a row
\* that says "not started" is the truth, for every batch and any recovery.
THEOREM AttemptFirstHolds == Spec => []AttemptFirst
<1>1. Init => AttemptCounted
  BY AttemptInit
<1>2. TypeInv /\ AttemptCounted /\ [Next]_vars => TypeInv' /\ AttemptCounted'
  BY TypeStep, AttemptStep
<1>3. TypeInv /\ AttemptCounted => AttemptFirst
  <2>1. SUFFICES ASSUME TypeInv, AttemptCounted, NEW c \in Calls
                 PROVE  /\ started[c] <= ledger[c].attempts
                        /\ ledger[c].state \in {"ABSENT", "PENDING"} => started[c] = 0
    BY DEF AttemptFirst
  <2>2. started[c] \in Nat
    BY <2>1 DEF TypeInv, TypeOK, ExecutorTypeOK
  <2>. QED
    BY <2>1, <2>2 DEF AttemptCounted
<1>. QED
  BY <1>1, <1>2, <1>3, TypeInit, PTL DEF Spec

-----------------------------------------------------------------------------
(* The tool/call event of a call comes before its row.                      *)

\* The strengthening of CallEventFirst: the loop over the batch has written an
\* event for each call it has passed, and nothing runs before it has ended.
BatchAnnounced ==
  /\ run = "emit" => \A i \in 1..cursor : Has(log, "tool/call", Batch[i])
  /\ run = "exec" => \A c \in Calls : Has(log, "tool/call", c)

\* The stream only grows, at its end.
LogGrows == UNCHANGED log \/ \E e : Emit(e)

LEMMA HasKept ==
  ASSUME LogTypeOK, LogGrows, NEW type, NEW c, Has(log, type, c)
  PROVE  Has(log', type, c)
<1>1. PICK i \in DOMAIN log : log[i].type = type /\ log[i].call = c
  BY DEF Has
<1>2. ASSUME NEW e, Emit(e)
      PROVE  i \in DOMAIN log' /\ log'[i] = log[i]
  <2>1. log \in Seq(Events \cup {e})
    BY DEF LogTypeOK
  <2>. QED
    BY <1>1, <1>2, <2>1 DEF Emit
<1>. QED
  BY <1>1, <1>2 DEF Has, LogGrows

LEMMA HasEmitted ==
  ASSUME LogTypeOK, NEW e, Emit(e)
  PROVE  Has(log', e.type, e.call)
<1>1. log \in Seq(Events \cup {e})
  BY DEF LogTypeOK
<1>2. Len(log) + 1 \in DOMAIN log' /\ log'[Len(log) + 1] = e
  BY <1>1 DEF Emit
<1>. QED
  BY <1>2 DEF Has

LEMMA NextLog ==
  ASSUME [Next]_vars
  PROVE  LogGrows
<1>1. CASE ExecutorStep
  BY <1>1 DEF ExecutorStep, EmitCall, CompleteModel, EmitResult, BatchRaises,
     CancelEnds, CreatePending, CancelUnexecuted, StartRunning, BeginAttempt,
     EnterTool, ToolReturns, AskUser, Settle, LedgerRefuses, Raise, CancelArm, LogGrows
<1>2. CASE ToolMisbehaves
  BY <1>2 DEF ToolMisbehaves, Reject, ToolRetries, TimesOut, LosesConnection, LogGrows
<1>3. ASSUME NEW r \in Recoverers, RecoverCalled(r)
      PROVE  LogGrows
  BY <1>3 DEF RecoverCalled, Start, LogGrows
<1>4. ASSUME NEW r \in Recoverers, Advance(r)
      PROVE  LogGrows
  <2>1. ASSUME NEW c \in Calls,
               \/ Repair(r, c) \/ Synthesize(r, c) \/ ClosePending(r, c)
               \/ Report(r, c) \/ MarkUnknown(r, c) \/ MarkNeedReconcile(r, c)
               \/ Request(r, c) \/ \E v \in Verdicts : Resolve(r, c, v)
        PROVE  LogGrows
    BY <2>1 DEF Repair, Synthesize, ClosePending, Report, MarkUnknown,
       MarkNeedReconcile, Request, Resolve, Write, LogGrows
  <2>. QED
    BY <1>4, <2>1 DEF Advance, Acquire, Decide, AskVerdicts, ResumeAtOnce, Reacquire,
       CommitVerdict, PairResult, Conclude, ResumeAfterVerdicts, Refuse, Leave,
       Write, LogGrows
<1>5. CASE FaultStep
  BY <1>5 DEF FaultStep, Fault, Crash, ExecutorDies, StorageFailure, StorageFails,
     Raise, Cancellation, CancelRun, RecoveryFailure, Abort, Leave, LogGrows
<1>6. CASE UNCHANGED vars
  BY <1>6 DEF vars, LogGrows
<1>. QED
  BY <1>1, <1>2, <1>3, <1>4, <1>5, <1>6 DEF Next, RecoveryStep

\* The row of a call that has none yet stays absent, except where the executor
\* admits the call.
LEMMA RowsBegin ==
  ASSUME TypeInv, [Next]_vars, NEW c \in Calls,
         ledger[c].state = "ABSENT", ledger'[c].state # "ABSENT"
  PROVE  run = "exec"
<1>1. LedgerTypeOK /\ ~UNCHANGED ledger
  BY DEF TypeInv, TypeOK
<1>2. ASSUME NEW s, NEW res, NEW m, NEW d \in Calls, UpdateState(d, s, res, m)
      PROVE  FALSE
  <2>1. d # c
    BY <1>2, AllowedMoves DEF UpdateState, CanMove
  <2>. QED
    BY <1>1, <1>2, <2>1 DEF UpdateState, LedgerTypeOK
<1>3. ASSUME NEW d \in Calls, RecordAttempt(d)
      PROVE  FALSE
  <2>1. d # c
    BY <1>3 DEF RecordAttempt, CanRecordAttempt
  <2>. QED
    BY <1>1, <1>3, <2>1 DEF RecordAttempt, LedgerTypeOK
<1>4. \E d \in Calls : Create(d)
  BY <1>1, <1>2, <1>3, NextLedger DEF LedgerStep, RowStep
<1>5. CASE ExecutorStep
  <2>1. CASE \E d \in Calls : CreatePending(d)
    BY <2>1 DEF CreatePending
  <2>2. CASE ~\E d \in Calls : CreatePending(d)
    <3>1. \/ UNCHANGED ledger
          \/ \E d \in Calls : \/ RecordAttempt(d)
                              \/ \E s, res, m : UpdateState(d, s, res, m)
      BY <1>5, <2>2 DEF ExecutorStep, EmitCall, CompleteModel, EmitResult,
         BatchRaises, CancelEnds, CancelUnexecuted, StartRunning, BeginAttempt,
         EnterTool, ToolReturns, AskUser, Settle, LedgerRefuses, Raise, CancelArm
    <3>. QED
      BY <1>1, <1>2, <1>3, <3>1
  <2>. QED
    BY <2>1, <2>2
<1>6. ASSUME NEW r \in Recoverers, Advance(r)
      PROVE  FALSE
  <2>1. \/ UNCHANGED ledger
        \/ \E d \in Calls : \E s, res, m : UpdateState(d, s, res, m)
    <3>1. CASE CommitVerdict(r)
      BY <3>1 DEF CommitVerdict, TypeInv, ServesRequest
    <3>2. CASE ~CommitVerdict(r)
      BY <1>6, <3>2 DEF Advance, Acquire, Decide, AskVerdicts, ResumeAtOnce, Repair,
         Synthesize, ClosePending, Report, MarkUnknown, MarkNeedReconcile, Request,
         Resolve, Reacquire, PairResult, Conclude, ResumeAfterVerdicts, Refuse, Leave
    <3>. QED
      BY <3>1, <3>2
  <2>. QED
    BY <1>1, <1>2, <2>1
<1>7. CASE ToolMisbehaves
  BY <1>1, <1>7 DEF ToolMisbehaves, Reject, ToolRetries, TimesOut, LosesConnection
<1>8. ASSUME NEW r \in Recoverers, RecoverCalled(r)
      PROVE  FALSE
  BY <1>1, <1>8 DEF RecoverCalled, Start
<1>9. CASE FaultStep
  BY <1>1, <1>9 DEF FaultStep, Fault, Crash, ExecutorDies, StorageFailure,
     StorageFails, Raise, Cancellation, CancelRun, RecoveryFailure, Abort, Leave
<1>10. CASE UNCHANGED vars
  BY <1>1, <1>10 DEF vars
<1>. QED
  BY <1>5, <1>6, <1>7, <1>8, <1>9, <1>10 DEF Next, RecoveryStep

\* The phases of the run that BatchAnnounced speaks of begin only in EmitCall.
LEMMA PhasesBegin ==
  ASSUME [Next]_vars
  PROVE  \/ EmitCall
         \/ /\ run' = "emit" => run = "emit" /\ cursor' = cursor
            /\ run' = "exec" => run = "exec"
<1>1. CASE ExecutorStep
  BY <1>1 DEF ExecutorStep, CompleteModel, EmitResult, BatchRaises,
     CancelEnds, CreatePending, CancelUnexecuted, StartRunning, BeginAttempt,
     EnterTool, ToolReturns, AskUser, Settle, LedgerRefuses, Raise, CancelArm
<1>2. CASE ToolMisbehaves
  BY <1>2 DEF ToolMisbehaves, Reject, ToolRetries, TimesOut, LosesConnection
<1>3. ASSUME NEW r \in Recoverers, RecoverCalled(r) \/ RecoveryStep(r)
      PROVE  UNCHANGED <<run, cursor>>
  BY <1>3 DEF RecoverCalled, RecoveryStep, exVars
<1>4. CASE FaultStep
  BY <1>4 DEF FaultStep, Fault, Crash, ExecutorDies, StorageFailure, StorageFails,
     Raise, Cancellation, CancelRun, RecoveryFailure, exVars
<1>5. CASE UNCHANGED vars
  BY <1>5 DEF vars, exVars
<1>. QED
  BY <1>1, <1>2, <1>3, <1>4, <1>5 DEF Next

LEMMA AnnouncedStep ==
  ASSUME TypeInv, BatchAnnounced, [Next]_vars
  PROVE  BatchAnnounced'
<1>1. /\ LogTypeOK /\ LogGrows /\ cursor \in 0..(Len(Batch) - 1)
  BY NextLog DEF TypeInv, TypeOK, ExecutorTypeOK
<1>2. CASE EmitCall
  <2>1. \A i \in 1..cursor : Has(log', "tool/call", Batch[i])
    BY <1>1, <1>2, HasKept DEF EmitCall, BatchAnnounced
  <2>2. Has(log', "tool/call", Batch[cursor + 1])
    <3>. DEFINE e == Event("tool/call", Batch[cursor + 1], "none")
    <3>1. Emit(e) /\ e.type = "tool/call" /\ e.call = Batch[cursor + 1]
      BY <1>2 DEF EmitCall, Event
    <3>. HIDE DEF e
    <3>. QED
      BY <1>1, <3>1, HasEmitted
  <2>3. \A i \in 1..(cursor + 1) : Has(log', "tool/call", Batch[i])
    BY <1>1, <2>1, <2>2
  <2>4. CASE AllAnnounced
    <3>1. \A c \in Calls : Has(log', "tool/call", c)
      BY <2>3, <2>4, BatchAssumption DEF AllAnnounced
    <3>. QED
      BY <1>2, <2>4, <3>1 DEF EmitCall, BatchAnnounced
  <2>5. CASE ~AllAnnounced
    BY <1>2, <2>3, <2>5 DEF EmitCall, BatchAnnounced
  <2>. QED
    BY <2>4, <2>5
<1>3. CASE /\ run' = "emit" => run = "emit" /\ cursor' = cursor
           /\ run' = "exec" => run = "exec"
  BY <1>1, <1>3, HasKept DEF BatchAnnounced
<1>. QED
  BY <1>2, <1>3, PhasesBegin

\* A row never exists without the tool/call event that requested its call, so a
\* recovery never has to invent the request it pairs a result with.
THEOREM CallEventFirstHolds == Spec => []CallEventFirst
<1>1. Init => BatchAnnounced /\ CallEventFirst
  <2>. SUFFICES ASSUME Init PROVE BatchAnnounced /\ CallEventFirst
    OBVIOUS
  <2>1. BatchAnnounced
    BY DEF Init, ExecutorInit, BatchAnnounced
  <2>2. ASSUME NEW c \in Calls
        PROVE  ledger[c].state = "ABSENT"
    BY DEF Init, LedgerInit, NoRow
  <2>. QED
    BY <2>1, <2>2 DEF CallEventFirst
<1>2. TypeInv /\ BatchAnnounced /\ CallEventFirst /\ [Next]_vars => CallEventFirst'
  <2>. SUFFICES ASSUME TypeInv, BatchAnnounced, CallEventFirst, [Next]_vars,
                       NEW c \in Calls, ledger'[c].state # "ABSENT"
                PROVE  Has(log', "tool/call", c)
    BY DEF CallEventFirst
  <2>1. Has(log, "tool/call", c)
    BY RowsBegin DEF CallEventFirst, BatchAnnounced
  <2>. QED
    BY <2>1, NextLog, HasKept DEF TypeInv, TypeOK
<1>. QED
  BY <1>1, <1>2, TypeInit, TypeStep, AnnouncedStep, PTL DEF Spec

\* Nothing happens before its record is durable: no row before the tool/call
\* event, no entry of a tool before the attempt.
THEOREM WriteAheadHolds == Spec => []WriteAhead
<1>1. CallEventFirst /\ AttemptFirst => WriteAhead
  BY DEF WriteAhead
<1>. QED
  BY <1>1, CallEventFirstHolds, AttemptFirstHolds, PTL

-----------------------------------------------------------------------------
(* From here on one inductive invariant, under the hypothesis ~overlap.     *)

Question == "user/input-requested"
Required == "operation/reconcile-required"
Reconciled == "operation/reconciled"

\* The run and a recovery are never active together.
Calm == run # "ended" => \A r \in Recoverers : rpc[r] = "idle"

\* While the run lives, the row of a call is where execute() left it.
RowFits(c) ==
  run # "ended" =>
    /\ pc[c] = "wait" => ledger[c].state = "ABSENT"
    /\ pc[c] \in {"skipping", "pending"} => ledger[c].state = "PENDING"
    /\ pc[c] \in {"running", "recorded", "executing", "returned", "asked"}
         => ledger[c].state = "RUNNING"
FlightInRun(c) == run \notin {"exec", "cancelling"} => ~InFlight(c)

\* What is known of the world: a tool that was entered was counted, and a call
\* that was refused or is not yet running was not entered.
Entered(c) ==
  /\ ToolEntered(c) \/ doubt[c] # "none" => started[c] > 0
  /\ outcome[c] = "rejected" \/ pc[c] \in {"wait", "skipping", "pending"}
       => started[c] = 0

\* The strengthening of UnprovenHeld: a call whose effect is in doubt is at its
\* end, and still has the outcome that makes its row UNKNOWN.
Held(c) ==
  c \in Mutating /\ doubt[c] \in {"timeout", "unseen"} =>
    /\ pc[c] \in {"returned", "done", "gone"}
    /\ pc[c] = "returned" => outcome[c] = "timeout"
    /\ ledger[c].state \in TerminalStates
         => ledger[c].meta \in FinalVerdicts \/ Restorable(log, c)

\* Where no reply is lost, an attempt that is repeated has left no doubt.
Undoubted(c) ==
  ~LostReplies /\ c \in Mutating
    /\ pc[c] \in {"wait", "skipping", "pending", "running", "recorded", "executing"}
      => doubt[c] = "none"

\* A question is put once, by a call that then has only to settle as succeeded;
\* one that can be restored is never taken to a verdict.
QuestionPut(c) ==
  /\ Has(log, Question, c) =>
       /\ c \in UserInput
       /\ run # "ended" =>
            /\ pc[c] \in {"asked", "done", "gone"}
            /\ ledger[c].state \in {"RUNNING", "SUCCEEDED"}
  /\ Restorable(log, c) =>
       ledger[c].state \in {"RUNNING", "SUCCEEDED"} /\ ledger[c].meta = "none"
  /\ run # "ended" /\ pc[c] = "asked" => outcome[c] = "ok" /\ Has(log, Question, c)
SuccessAsked(c) ==
  c \in UserInput /\ ledger[c].state = "SUCCEEDED" /\ ledger[c].meta = "none"
    => Has(log, Question, c)

\* Success is only claimed where it is known.
Succeeded(c) == ledger[c].state = "SUCCEEDED" \/ Has(log, Question, c)
OutcomeTrue(c) ==
  run # "ended" /\ pc[c] = "done" /\ outcome[c] = "ok" => Succeeded(c)
Claims(row) == row.result = "ok" \/ row.state = "SUCCEEDED"
RowTrue(c) == Claims(ledger[c]) => Succeeded(c)

\* What the meta column of a row says of its state, and of the request.
MetaRight(c) ==
  /\ ledger[c].meta = "unproven" => ledger[c].state \in {"UNKNOWN", "NEED_RECONCILE"}
  /\ CommittedVerdict(ledger[c]) => Has(log, Required, c)
  /\ ledger[c].meta \in FinalVerdicts => ledger[c].state \in TerminalStates
  /\ ledger[c].meta = "DEFER" => ledger[c].state = "NEED_RECONCILE"

CallGood(c) ==
  /\ RowFits(c) /\ FlightInRun(c) /\ Entered(c) /\ Held(c) /\ Undoubted(c)
  /\ QuestionPut(c) /\ SuccessAsked(c) /\ OutcomeTrue(c) /\ RowTrue(c) /\ MetaRight(c)

-----------------------------------------------------------------------------
(* The ledger and the stream, point by point.                               *)

\* The columns of a row after a step; attempts are AttemptCounted's matter.
RowIs(c, s, res, m) ==
  ledger'[c].state = s /\ ledger'[c].result = res /\ ledger'[c].meta = m

RowTo(c, s, res, m) ==
  /\ s \in Allowed(ledger[c].state)
  /\ RowIs(c, s, Coalesce(res, ledger[c].result), Coalesce(m, ledger[c].meta))

LEMMA RowUpdated ==
  ASSUME LedgerTypeOK, NEW c \in Calls, NEW s, NEW res, NEW m,
         UpdateState(c, s, res, m)
  PROVE  RowTo(c, s, res, m) /\ \A d \in Calls \ {c} : ledger'[d] = ledger[d]
  BY DEF LedgerTypeOK, UpdateState, CanMove, RowTo, RowIs

\* An append adds one event at the end and keeps the others.
LEMMA Appended ==
  ASSUME LogTypeOK, NEW e, Emit(e)
  PROVE  /\ DOMAIN log' = DOMAIN log \cup {Len(log) + 1}
         /\ Len(log) \in Nat /\ DOMAIN log = 1..Len(log)
         /\ log'[Len(log) + 1] = e
         /\ \A i \in DOMAIN log : log'[i] = log[i]
<1>1. log \in Seq(Events \cup {e})
  BY DEF LogTypeOK
<1>. QED
  BY <1>1 DEF Emit

LEMMA HasAfter ==
  ASSUME LogTypeOK, NEW e, Emit(e)
  PROVE  \A t, c : Has(log', t, c) <=> Has(log, t, c) \/ (e.type = t /\ e.call = c)
<1>1. /\ DOMAIN log' = DOMAIN log \cup {Len(log) + 1}
      /\ log'[Len(log) + 1] = e
      /\ \A i \in DOMAIN log : log'[i] = log[i]
  BY Appended
<1>. QED
  BY <1>1 DEF Has

\* With the event spelled out.
LEMMA HasAfterEvent ==
  ASSUME LogTypeOK, NEW type, NEW d, NEW info, Emit(Event(type, d, info))
  PROVE  \A t, c : Has(log', t, c) <=> Has(log, t, c) \/ (type = t /\ d = c)
<1>. DEFINE e == Event(type, d, info)
<1>1. e.type = type /\ e.call = d
  BY DEF Event
<1>. HIDE DEF e
<1>2. Emit(e)
  BY DEF e
<1>. QED
  BY <1>1, <1>2, HasAfter

\* A question that can be restored is a question.
LEMMA RestorableAsked ==
  ASSUME NEW s, NEW c, Restorable(s, c)
  PROVE  Has(s, Question, c)
  BY DEF Restorable, Has, Event, Question

\* Which questions of a stream can be restored changes with a question only.
LEMMA RestorableAfter ==
  ASSUME LogTypeOK, NEW type, NEW d, NEW info, Emit(Event(type, d, info))
  PROVE  /\ \A c : Restorable(log, c) => Restorable(log', c)
         /\ \A c : Restorable(log', c)
                    => Restorable(log, c) \/ (type = Question /\ c = d)
<1>. DEFINE e == Event(type, d, info)
<1>1. /\ DOMAIN log' = DOMAIN log \cup {Len(log) + 1}
      /\ log'[Len(log) + 1] = e
      /\ \A i \in DOMAIN log : log'[i] = log[i]
  BY Appended
<1>2. \A c : e = Event("user/input-requested", c, "restorable")
              => type = Question /\ c = d
  BY DEF Event, Question
<1>. HIDE DEF e
<1>. QED
  BY <1>1, <1>2 DEF Restorable

-----------------------------------------------------------------------------
(* The kinds of steps when nobody recovers a live session.                  *)

CallMoves(c) ==
  \/ Reject(c) \/ CreatePending(c) \/ CancelUnexecuted(c) \/ StartRunning(c)
  \/ BeginAttempt(c) \/ EnterTool(c) \/ ToolRetries(c) \/ TimesOut(c)
  \/ LostReplies /\ LosesConnection(c)
  \/ \E answer \in {"ok", "fail"} : ToolReturns(c, answer)
  \/ AskUser(c) \/ Settle(c) \/ Raise(c) \/ CancelArm(c)

BatchMoves ==
  EmitCall \/ CompleteModel \/ EmitResult \/ BatchRaises \/ CancelEnds \/ CancelRun

RunMoves ==
  /\ BatchMoves \/ \E c \in Calls : CallMoves(c)
  /\ UNCHANGED rcVars

RecoveryMoves(r) ==
  /\ (\E k \in CallbackKinds : Start(r, k)) \/ Advance(r) \/ Leave(r)
  /\ UNCHANGED exVars

LEMMA Busy ==
  ASSUME NEW r \in Recoverers, Advance(r)
  PROVE  rpc[r] # "idle"
  BY DEF Advance, Acquire, Decide, AskVerdicts, ResumeAtOnce, Repair, Synthesize,
     ClosePending, Report, MarkUnknown, MarkNeedReconcile, Request, AtStage, Resolve,
     Reacquire, CommitVerdict, PairResult, Conclude, ResumeAfterVerdicts, Refuse,
     Refused

LEMMA KindsOfSteps ==
  ASSUME Calm, ~overlap, ~overlap', [Next]_vars
  PROVE  \/ RunMoves /\ run # "ended"
         \/ run = "ended" /\ \E r \in Recoverers : RecoveryMoves(r)
         \/ Crash
         \/ UNCHANGED vars
<1>1. CASE ExecutorStep
  BY <1>1 DEF ExecutorStep, LedgerRefuses, RunMoves, BatchMoves, CallMoves,
     EmitCall, CompleteModel, EmitResult, BatchRaises, CancelEnds, CreatePending,
     CancelUnexecuted, StartRunning, BeginAttempt, EnterTool, ToolReturns, AskUser,
     Settle, Raise, CancelArm
<1>2. CASE ToolMisbehaves
  BY <1>2 DEF ToolMisbehaves, RunMoves, CallMoves, Reject, ToolRetries, TimesOut,
     LosesConnection
<1>3. ASSUME NEW r \in Recoverers, RecoverCalled(r)
      PROVE  run = "ended" /\ RecoveryMoves(r)
  BY <1>3 DEF RecoverCalled, RecoveryMoves
<1>4. ASSUME NEW r \in Recoverers, RecoveryStep(r)
      PROVE  run = "ended" /\ RecoveryMoves(r)
  BY <1>4, Busy DEF RecoveryStep, RecoveryMoves, Calm
<1>5. CASE Fault(StorageFailure) \/ Fault(Cancellation)
  BY <1>5 DEF Fault, StorageFailure, StorageFails, Cancellation, CancelRun, Raise,
     RunMoves, BatchMoves, CallMoves
<1>6. CASE Fault(RecoveryFailure)
  BY <1>6 DEF Fault, RecoveryFailure, Abort, RecoveryMoves, Calm
<1>7. CASE Fault(Crash)
  BY <1>7 DEF Fault
<1>. QED
  BY <1>1, <1>2, <1>3, <1>4, <1>5, <1>6, <1>7 DEF Next, FaultStep

-----------------------------------------------------------------------------
(* A step of one call, point by point.                                      *)

Unmoved(d) ==
  /\ pc'[d] = pc[d] /\ outcome'[d] = outcome[d] /\ ledger'[d] = ledger[d]
  /\ started'[d] = started[d] /\ doubt'[d] = doubt[d]

SameWorld(c) == started'[c] = started[c] /\ doubt'[c] = doubt[c]

UnseenIfEntered(c) ==
  doubt'[c] = IF ToolEntered(c) /\ doubt[c] = "none" THEN "unseen" ELSE doubt[c]

Admitting(c) ==
  /\ pc[c] = "wait" /\ SameWorld(c)
  /\ \/ /\ pc'[c] = "done" /\ outcome'[c] = "rejected" /\ ledger'[c] = ledger[c]
     \/ /\ pc'[c] \in {"skipping", "pending"} /\ outcome'[c] = outcome[c]
        /\ ledger[c].state = "ABSENT" /\ RowIs(c, "PENDING", "none", "none")

Preparing(c) ==
  /\ SameWorld(c)
  /\ \/ /\ pc[c] = "skipping" /\ pc'[c] = "done" /\ outcome'[c] = "cancelled"
        /\ RowTo(c, "CANCELLED", "cancelled", "none")
     \/ /\ pc[c] = "pending" /\ pc'[c] = "running" /\ outcome'[c] = outcome[c]
        /\ RowTo(c, "RUNNING", "none", "none")
     \/ /\ pc[c] = "running" /\ pc'[c] = "recorded" /\ outcome'[c] = outcome[c]
        /\ ledger[c].state = "RUNNING"
        /\ RowIs(c, "RUNNING", ledger[c].result, ledger[c].meta)

Entering(c) ==
  /\ pc[c] = "recorded" /\ pc'[c] = "executing" /\ outcome'[c] = outcome[c]
  /\ started'[c] = started[c] + 1 /\ doubt'[c] = doubt[c]
  /\ ledger'[c] = ledger[c]

Answering(c) ==
  /\ pc[c] = "executing" /\ started'[c] = started[c] /\ ledger'[c] = ledger[c]
  /\ \/ /\ pc'[c] = "running" /\ outcome'[c] = outcome[c] /\ doubt'[c] = doubt[c]
     \/ /\ pc'[c] = "returned" /\ outcome'[c] \in {"ok", "fail"}
        /\ doubt'[c] = doubt[c]
     \/ /\ pc'[c] = "returned" /\ outcome'[c] = "timeout" /\ doubt'[c] = "timeout"
     \/ /\ LostReplies /\ doubt'[c] = "lost"
        /\ \/ pc'[c] = "running" /\ outcome'[c] = outcome[c]
           \/ pc'[c] = "returned" /\ outcome'[c] = "fail"

Asking(c) ==
  /\ pc[c] = "returned" /\ IsQuestion(c) /\ pc'[c] = "asked"
  /\ outcome'[c] = outcome[c] /\ SameWorld(c) /\ ledger'[c] = ledger[c]

Settling(c) ==
  /\ Settleable(c) /\ pc'[c] = "done" /\ outcome'[c] = outcome[c] /\ SameWorld(c)
  /\ RowTo(c, SettleState(c), outcome[c], SettleMeta(c))

Raising(c) ==
  /\ pc[c] \in {"skipping", "pending", "running"} \/ Settleable(c)
  /\ pc'[c] = AfterRaise(c) /\ outcome'[c] = outcome[c]
  /\ started'[c] = started[c] /\ UnseenIfEntered(c) /\ ledger'[c] = ledger[c]

Cancelling(c) ==
  /\ InFlight(c) /\ pc'[c] = "gone" /\ outcome'[c] = outcome[c]
  /\ started'[c] = started[c]
  /\ \/ /\ InCancelArm(c) /\ RowTo(c, "CANCELLED", "none", "none")
        /\ doubt'[c] = IF pc[c] = "executing" THEN "cancel" ELSE doubt[c]
     \/ UnseenIfEntered(c) /\ ledger'[c] = ledger[c]

OwnStep(c) ==
  \/ Admitting(c) \/ Preparing(c) \/ Entering(c) \/ Answering(c)
  \/ Asking(c) \/ Settling(c) \/ Raising(c) \/ Cancelling(c)

LEMMA CallStep ==
  ASSUME TypeInv, NEW c \in Calls, CallMoves(c)
  PROVE  /\ OwnStep(c)
         /\ \A d \in Calls \ {c} : Unmoved(d)
         /\ run \in {"exec", "cancelling"} /\ UNCHANGED <<run, cursor>>
         /\ \/ UNCHANGED log
            \/ AskUser(c) /\ Asking(c) /\ UNCHANGED ledger
<1>1. /\ pc \in [Calls -> CallPhases] /\ outcome \in [Calls -> Outcomes]
      /\ started \in [Calls -> Nat] /\ doubt \in [Calls -> Doubts]
      /\ LedgerTypeOK /\ ledger \in [Calls -> Rows]
  BY DEF TypeInv, TypeOK, ExecutorTypeOK, LedgerTypeOK
<1>. USE DEF OwnStep, Unmoved, SameWorld, UnseenIfEntered
<1>2. CASE Reject(c)
  BY <1>1, <1>2 DEF Reject, Goto, Admitting
<1>3. CASE CreatePending(c)
  <2>1. /\ ledger' = [ledger EXCEPT ![c] = [NoRow EXCEPT !.state = "PENDING"]]
        /\ pc[c] = "wait" /\ ledger[c].state = "ABSENT" /\ run = "exec"
        /\ UNCHANGED <<log, run, cursor, outcome, started, doubt>>
    BY <1>3 DEF CreatePending, Create
  <2>2. RowIs(c, "PENDING", "none", "none")
    BY <1>1, <2>1 DEF NoRow, RowIs
  <2>3. /\ pc'[c] \in {"skipping", "pending"}
        /\ \A d \in Calls \ {c} : pc'[d] = pc[d] /\ ledger'[d] = ledger[d]
    BY <1>1, <1>3, <2>1 DEF CreatePending, Goto
  <2>. QED
    BY <2>1, <2>2, <2>3 DEF Admitting
<1>4. CASE CancelUnexecuted(c)
  BY <1>1, <1>4, RowUpdated DEF CancelUnexecuted, Goto, Preparing
<1>5. CASE StartRunning(c)
  BY <1>1, <1>5, RowUpdated DEF StartRunning, Goto, Preparing
<1>6. CASE BeginAttempt(c)
  <2>1. /\ pc[c] = "running" /\ run = "exec" /\ ledger[c].state = "RUNNING"
        /\ pc' = [pc EXCEPT ![c] = "recorded"]
        /\ ledger' = [ledger EXCEPT ![c].attempts = @ + 1]
        /\ UNCHANGED <<log, run, cursor, outcome, started, doubt>>
    BY <1>6 DEF BeginAttempt, RecordAttempt, CanRecordAttempt, Goto
  <2>2. RowIs(c, "RUNNING", ledger[c].result, ledger[c].meta)
    BY <1>1, <2>1 DEF RowIs, Rows
  <2>3. \A d \in Calls \ {c} : Unmoved(d)
    BY <1>1, <2>1
  <2>4. Preparing(c)
    BY <1>1, <2>1, <2>2 DEF Preparing
  <2>. QED
    BY <2>1, <2>3, <2>4
<1>7. CASE EnterTool(c)
  BY <1>1, <1>7 DEF EnterTool, Goto, Entering
<1>8. CASE ToolRetries(c)
  BY <1>1, <1>8 DEF ToolRetries, Goto, Answering
<1>9. CASE TimesOut(c)
  BY <1>1, <1>9 DEF TimesOut, Goto, Answering
<1>10. CASE LostReplies /\ LosesConnection(c)
  BY <1>1, <1>10 DEF LosesConnection, Goto, Answering
<1>11. CASE \E answer \in {"ok", "fail"} : ToolReturns(c, answer)
  BY <1>1, <1>11 DEF ToolReturns, Goto, Answering
<1>12. CASE AskUser(c)
  BY <1>1, <1>12 DEF AskUser, Goto, Asking
<1>13. CASE Settle(c)
  BY <1>1, <1>13, RowUpdated DEF Settle, Goto, Settling
<1>14. CASE Raise(c)
  <2>1. /\ pc[c] \in {"skipping", "pending", "running"} \/ Settleable(c)
        /\ run = "exec"
        /\ pc' = [pc EXCEPT ![c] = AfterRaise(c)]
        /\ UNCHANGED <<ledger, log, run, cursor, outcome, started>>
    BY <1>14 DEF Raise, Goto
  <2>2. /\ doubt'[c] = IF ToolEntered(c) /\ doubt[c] = "none"
                       THEN "unseen" ELSE doubt[c]
        /\ \A d \in Calls \ {c} : doubt'[d] = doubt[d]
    BY <1>1, <1>14 DEF Raise
  <2>3. /\ pc'[c] = AfterRaise(c)
        /\ \A d \in Calls \ {c} : pc'[d] = pc[d]
    BY <1>1, <2>1
  <2>4. Raising(c)
    BY <2>1, <2>2, <2>3 DEF Raising
  <2>. QED
    BY <2>1, <2>2, <2>3, <2>4
<1>15. CASE CancelArm(c)
  <2>1. /\ run = "cancelling" /\ InFlight(c) /\ pc' = [pc EXCEPT ![c] = "gone"]
        /\ UNCHANGED <<log, run, cursor, outcome, started>>
    BY <1>15 DEF CancelArm, Goto
  <2>2. pc'[c] = "gone" /\ \A d \in Calls \ {c} : pc'[d] = pc[d]
    BY <1>1, <2>1
  <2>3. CASE /\ InCancelArm(c)
             /\ UpdateState(c, "CANCELLED", "none", "none")
             /\ doubt' = [doubt EXCEPT ![c] =
                            IF pc[c] = "executing" THEN "cancel" ELSE @]
    <3>1. /\ doubt'[c] = IF pc[c] = "executing" THEN "cancel" ELSE doubt[c]
          /\ \A d \in Calls \ {c} : doubt'[d] = doubt[d]
      BY <1>1, <2>3
    <3>2. /\ RowTo(c, "CANCELLED", "none", "none")
          /\ \A d \in Calls \ {c} : ledger'[d] = ledger[d]
      BY <1>1, <2>3, RowUpdated
    <3>3. Cancelling(c)
      BY <2>1, <2>2, <2>3, <3>1, <3>2 DEF Cancelling
    <3>. QED
      BY <2>1, <2>2, <3>1, <3>2, <3>3
  <2>4. CASE /\ doubt' = [doubt EXCEPT ![c] =
                            IF ToolEntered(c) /\ @ = "none" THEN "unseen" ELSE @]
             /\ UNCHANGED ledger
    <3>1. /\ doubt'[c] = IF ToolEntered(c) /\ doubt[c] = "none"
                         THEN "unseen" ELSE doubt[c]
          /\ \A d \in Calls \ {c} : doubt'[d] = doubt[d]
      BY <1>1, <2>4
    <3>2. Cancelling(c)
      BY <2>1, <2>2, <2>4, <3>1 DEF Cancelling
    <3>. QED
      BY <2>1, <2>2, <2>4, <3>1, <3>2
  <2>. QED
    BY <1>15, <2>3, <2>4 DEF CancelArm
<1>. QED
  BY <1>2, <1>3, <1>4, <1>5, <1>6, <1>7, <1>8, <1>9, <1>10, <1>11, <1>12, <1>13,
     <1>14, <1>15 DEF CallMoves

-----------------------------------------------------------------------------
(* A step of the run keeps what is known of each call.                      *)

LEMMA CallType ==
  ASSUME TypeInv, NEW c \in Calls
  PROVE  /\ ledger[c].state \in States /\ ledger[c].attempts \in Nat
         /\ ledger[c].result \in Contents \cup {"none"}
         /\ ledger[c].meta \in Verdicts \cup {"unproven", "none"}
         /\ pc[c] \in CallPhases /\ outcome[c] \in Outcomes
         /\ started[c] \in Nat /\ doubt[c] \in Doubts
         /\ run \in RunPhases /\ LogTypeOK
  BY DEF TypeInv, TypeOK, LedgerTypeOK, ExecutorTypeOK, Rows

\* What the run writes to the stream, as far as recovery reads it.
LEMMA RunLog ==
  ASSUME TypeInv, RunMoves
  PROVE  /\ \A d : Has(log', Question, d)
                     <=> Has(log, Question, d) \/ (d \in Calls /\ AskUser(d))
         /\ \A d : Has(log', Required, d) <=> Has(log, Required, d)
         /\ \A d : Restorable(log, d) => Restorable(log', d)
         /\ \A d : Restorable(log', d)
                     => Restorable(log, d) \/ (d \in Calls /\ AskUser(d))
<1>1. LogTypeOK
  BY DEF TypeInv, TypeOK
<1>. USE DEF Question, Required
<1>2. CASE EmitCall
  BY <1>1, <1>2, HasAfterEvent, RestorableAfter DEF EmitCall, AskUser
<1>3. CASE CompleteModel
  BY <1>1, <1>3, HasAfterEvent, RestorableAfter DEF CompleteModel, AskUser
<1>4. CASE EmitResult
  BY <1>1, <1>4, HasAfterEvent, RestorableAfter DEF EmitResult, AskUser
<1>5. CASE BatchRaises \/ CancelEnds \/ CancelRun
  BY <1>1, <1>5 DEF BatchRaises, CancelEnds, CancelRun, AskUser
<1>6. ASSUME NEW c \in Calls, CallMoves(c)
      PROVE  /\ \A d : Has(log', Question, d)
                     <=> Has(log, Question, d) \/ (d \in Calls /\ AskUser(d))
             /\ \A d : Has(log', Required, d) <=> Has(log, Required, d)
             /\ \A d : Restorable(log, d) => Restorable(log', d)
             /\ \A d : Restorable(log', d)
                         => Restorable(log, d) \/ (d \in Calls /\ AskUser(d))
  <2>1. CASE AskUser(c)
    <3>1. \A d \in Calls : AskUser(d) => d = c
      <4>. SUFFICES ASSUME NEW d \in Calls, AskUser(d), d # c PROVE FALSE
        OBVIOUS
      <4>1. pc'[c] = "asked" /\ pc[c] = "returned" /\ pc'[d] = pc[d]
        BY <2>1, CallType DEF AskUser, Goto, TypeInv, TypeOK, ExecutorTypeOK
      <4>2. pc'[d] = "asked" /\ pc[d] = "returned"
        BY DEF AskUser, Goto, TypeInv, TypeOK, ExecutorTypeOK
      <4>. QED
        BY <4>1, <4>2
    <3>. QED
      BY <1>1, <2>1, <3>1, HasAfterEvent, RestorableAfter DEF AskUser
  <2>2. CASE UNCHANGED log
    <3>1. \A d \in Calls : ~AskUser(d)
      <4>. SUFFICES ASSUME NEW d \in Calls, AskUser(d) PROVE FALSE
        OBVIOUS
      <4>1. log' # log
        BY <1>1, Appended DEF AskUser
      <4>. QED
        BY <2>2, <4>1
    <3>. QED
      BY <2>2, <3>1
  <2>. QED
    BY <1>6, <2>1, <2>2, CallStep
<1>. QED
  BY <1>2, <1>3, <1>4, <1>5, <1>6 DEF RunMoves, BatchMoves

LEMMA OwnKeeps ==
  ASSUME TypeInv, NEW c \in Calls, CallGood(c), OwnStep(c),
         run \in {"exec", "cancelling"}, run' = run,
         Has(log', Question, c)
           <=> Has(log, Question, c) \/ (pc[c] = "returned" /\ pc'[c] = "asked"),
         Restorable(log, c) => Restorable(log', c),
         Restorable(log', c)
           => Restorable(log, c) \/ (pc[c] = "returned" /\ pc'[c] = "asked"),
         Has(log', Required, c) <=> Has(log, Required, c)
  PROVE  CallGood(c)'
<1>. DEFINE asks == Has(log, Question, c)
            put  == Has(log', Question, c)
            firm == Restorable(log, c)
            stay == Restorable(log', c)
            need == Has(log, Required, c)
            said == Has(log', Required, c)
<1>1. /\ ledger[c].state \in States /\ ledger[c].attempts \in Nat
      /\ ledger[c].result \in Contents \cup {"none"}
      /\ ledger[c].meta \in Verdicts \cup {"unproven", "none"}
      /\ pc[c] \in CallPhases /\ outcome[c] \in Outcomes
      /\ started[c] \in Nat /\ doubt[c] \in Doubts
  BY CallType
<1>2. /\ asks \in BOOLEAN /\ put \in BOOLEAN /\ need \in BOOLEAN /\ said \in BOOLEAN
      /\ firm \in BOOLEAN /\ stay \in BOOLEAN /\ (firm => asks) /\ (firm => stay)
      /\ put <=> asks \/ (pc[c] = "returned" /\ pc'[c] = "asked")
      /\ stay => firm \/ (pc[c] = "returned" /\ pc'[c] = "asked")
      /\ said <=> need
  BY RestorableAsked DEF Has, Restorable
<1>3. /\ RowFits(c) /\ FlightInRun(c) /\ Entered(c) /\ Held(c) /\ Undoubted(c)
      /\ QuestionPut(c) /\ SuccessAsked(c) /\ OutcomeTrue(c) /\ RowTrue(c)
      /\ MetaRight(c)
  BY DEF CallGood
<1>. HIDE DEF asks, put, firm, stay, need, said
<1>. USE DEF States, RowStates, ReconcileStates, TerminalStates, Contents, Verdicts,
       FinalVerdicts, Outcomes, CallPhases, Doubts, Coalesce, Allowed, RowTo,
       CommittedVerdict, RowIs
<1>. USE DEF OwnStep, Admitting, Preparing, Entering, Answering, Asking, Settling,
       Raising, Cancelling, SameWorld, UnseenIfEntered, NoRow, Settleable, IsQuestion,
       AfterRaise, InCancelArm, InFlight, ToolEntered, SettleState, SettleMeta
<1>5. RowFits(c)'
  BY <1>1, <1>3 DEF RowFits
<1>6. FlightInRun(c)'
  BY <1>1, <1>3 DEF FlightInRun
<1>7. Entered(c)'
  BY <1>1, <1>3 DEF Entered, RowFits, TypeInv, RejectedIsOver
<1>8. Held(c)'
  BY <1>1, <1>2, <1>3 DEF Held, RowFits, Entered, firm, stay
<1>9. Undoubted(c)'
  BY <1>1, <1>3 DEF Undoubted
<1>10. QuestionPut(c)'
  BY <1>1, <1>2, <1>3 DEF QuestionPut, RowFits, MetaRight, asks, put, firm, stay
<1>11. SuccessAsked(c)'
  BY <1>1, <1>2, <1>3 DEF SuccessAsked, QuestionPut, asks, put
<1>12. OutcomeTrue(c)'
  BY <1>1, <1>2, <1>3 DEF OutcomeTrue, Succeeded, QuestionPut, asks, put
<1>13. RowTrue(c)'
  BY <1>1, <1>2, <1>3 DEF RowTrue, Claims, Succeeded, asks, put
<1>14. MetaRight(c)'
  BY <1>1, <1>2, <1>3 DEF MetaRight, RowFits, need, said
<1>. QED
  BY <1>5, <1>6, <1>7, <1>8, <1>9, <1>10, <1>11, <1>12, <1>13, <1>14 DEF CallGood

LEMMA UnmovedKeeps ==
  ASSUME TypeInv, NEW c \in Calls, CallGood(c), Unmoved(c),
         run' # "ended" => run # "ended",
         run' \notin {"exec", "cancelling"} => ~InFlight(c),
         Has(log', Question, c) <=> Has(log, Question, c),
         Restorable(log', c) <=> Restorable(log, c),
         Has(log', Required, c) <=> Has(log, Required, c)
  PROVE  CallGood(c)'
<1>1. /\ RowFits(c) /\ FlightInRun(c) /\ Entered(c) /\ Held(c) /\ Undoubted(c)
      /\ QuestionPut(c) /\ SuccessAsked(c) /\ OutcomeTrue(c) /\ RowTrue(c)
      /\ MetaRight(c)
  BY DEF CallGood
<1>. USE DEF Unmoved
<1>2. RowFits(c)' /\ FlightInRun(c)'
  BY <1>1 DEF RowFits, FlightInRun, InFlight
<1>3. Entered(c)' /\ Held(c)' /\ Undoubted(c)'
  BY <1>1 DEF Entered, Held, Undoubted, ToolEntered
<1>4. QuestionPut(c)' /\ SuccessAsked(c)' /\ OutcomeTrue(c)' /\ RowTrue(c)'
  BY <1>1 DEF QuestionPut, SuccessAsked, OutcomeTrue, RowTrue, Claims, Succeeded
<1>5. MetaRight(c)'
  BY <1>1 DEF MetaRight, CommittedVerdict
<1>. QED
  BY <1>2, <1>3, <1>4, <1>5 DEF CallGood

LEMMA BatchStep ==
  ASSUME TypeInv, BatchMoves, NEW c \in Calls
  PROVE  /\ UNCHANGED <<ledger, pc, outcome, started, doubt>>
         /\ Unmoved(c) /\ ~(\E d \in Calls : AskUser(d))
         /\ run # "ended"
         /\ run' \notin {"exec", "cancelling"} /\ FlightInRun(c) => ~InFlight(c)
<1>1. UNCHANGED <<ledger, pc, outcome, started, doubt>> /\ run # "ended"
  BY DEF BatchMoves, EmitCall, CompleteModel, EmitResult, BatchRaises, CancelEnds,
     CancelRun
<1>2. ~(\E d \in Calls : AskUser(d))
  <2>. SUFFICES ASSUME NEW d \in Calls, AskUser(d) PROVE FALSE
    OBVIOUS
  <2>1. pc[d] = "returned" /\ pc'[d] = "asked"
    BY DEF AskUser, Goto, TypeInv, TypeOK, ExecutorTypeOK
  <2>. QED
    BY <1>1, <2>1
<1>3. run' \notin {"exec", "cancelling"} /\ FlightInRun(c) => ~InFlight(c)
  BY DEF BatchMoves, EmitCall, CompleteModel, EmitResult, BatchRaises, CancelEnds,
     CancelRun, FlightInRun, InFlight
<1>. QED
  BY <1>1, <1>2, <1>3 DEF Unmoved

LEMMA RunKeepsCalls ==
  ASSUME TypeInv, \A c \in Calls : CallGood(c), RunMoves
  PROVE  \A c \in Calls : CallGood(c)'
<1>. SUFFICES ASSUME NEW c \in Calls PROVE CallGood(c)'
  OBVIOUS
<1>1. /\ Has(log', Question, c) <=> Has(log, Question, c) \/ AskUser(c)
      /\ Has(log', Required, c) <=> Has(log, Required, c)
      /\ Restorable(log, c) => Restorable(log', c)
      /\ Restorable(log', c) => Restorable(log, c) \/ AskUser(c)
  BY RunLog
<1>2. CASE BatchMoves
  <2>1. /\ Unmoved(c) /\ ~AskUser(c) /\ run # "ended"
        /\ run' \notin {"exec", "cancelling"} => ~InFlight(c)
    BY <1>2, BatchStep DEF CallGood
  <2>. QED
    BY <1>1, <2>1, UnmovedKeeps
<1>3. ASSUME NEW d \in Calls, CallMoves(d)
      PROVE  CallGood(c)'
  <2>1. /\ OwnStep(d) /\ \A b \in Calls \ {d} : Unmoved(b)
        /\ run \in {"exec", "cancelling"} /\ run' = run
    BY <1>3, CallStep
  <2>2. AskUser(c) => pc[c] = "returned" /\ pc'[c] = "asked"
    BY DEF AskUser, Goto, TypeInv, TypeOK, ExecutorTypeOK
  <2>3. CASE c # d
    <3>1. Unmoved(c)
      BY <2>1, <2>3
    <3>2. ~AskUser(c)
      BY <2>2, <3>1 DEF Unmoved
    <3>. QED
      BY <1>1, <2>1, <3>1, <3>2, UnmovedKeeps
  <2>4. CASE c = d
    <3>1. pc[c] = "returned" /\ pc'[c] = "asked" => AskUser(c) \/ Has(log', Question, c)
      BY <1>3, <2>4
         DEF CallMoves, Reject, CreatePending, CancelUnexecuted, StartRunning,
             BeginAttempt, EnterTool, ToolRetries, TimesOut, LosesConnection,
             ToolReturns, Settle, Raise, AfterRaise, CancelArm, Goto, TypeInv, TypeOK,
             ExecutorTypeOK
    <3>. QED
      BY <1>1, <2>1, <2>2, <2>4, <3>1, OwnKeeps
  <2>. QED
    BY <2>3, <2>4
<1>. QED
  BY <1>2, <1>3 DEF RunMoves

-----------------------------------------------------------------------------
(* What the stream says: answers, and verdicts.                             *)

Told(c) == Has(log, "tool/result", c)

\* A call is answered once, and by the run only after the whole batch.
AnswersLast ==
  /\ run \in {"emit", "exec", "cancelling"} => \A c \in Calls : ~Told(c)
  /\ run = "finalize" => \A i \in 1..Len(Batch) : Told(Batch[i]) => i <= cursor
OneAnswer ==
  \A i, j \in DOMAIN log :
    log[i].type = "tool/result" /\ log[j].type = "tool/result"
      /\ log[i].call = log[j].call => i = j

\* A verdict is reported after its request, and a final one after the answer.
VerdictsInOrder ==
  \A i \in DOMAIN log : log[i].type = Reconciled =>
    /\ \E j \in DOMAIN log :
         j < i /\ log[j].type = Required /\ log[j].call = log[i].call
    /\ log[i].info # "DEFER" => Told(log[i].call)

StreamGood == AnswersLast /\ OneAnswer /\ VerdictsInOrder

LEMMA OneAnswerKept ==
  ASSUME LogTypeOK, OneAnswer, NEW e, Emit(e),
         e.type = "tool/result" => ~Told(e.call)
  PROVE  OneAnswer'
<1>1. /\ DOMAIN log' = DOMAIN log \cup {Len(log) + 1}
      /\ log'[Len(log) + 1] = e
      /\ \A i \in DOMAIN log : log'[i] = log[i]
  BY Appended
<1>2. ASSUME NEW i \in DOMAIN log, log[i].type = "tool/result",
             e.type = "tool/result", log[i].call = e.call
      PROVE  FALSE
  BY <1>2 DEF Told, Has
<1>. QED
  BY <1>1, <1>2 DEF OneAnswer

LEMMA VerdictsKept ==
  ASSUME LogTypeOK, VerdictsInOrder, NEW e, Emit(e),
         e.type = Reconciled =>
           /\ Has(log, Required, e.call)
           /\ e.info # "DEFER" => Told(e.call)
  PROVE  VerdictsInOrder'
<1>1. /\ DOMAIN log' = DOMAIN log \cup {Len(log) + 1}
      /\ Len(log) \in Nat /\ DOMAIN log = 1..Len(log)
      /\ log'[Len(log) + 1] = e
      /\ \A i \in DOMAIN log : log'[i] = log[i]
  BY Appended
<1>2. \A c : Told(c) => Has(log', "tool/result", c)
  BY HasAfter DEF Told
<1>. SUFFICES ASSUME NEW i \in DOMAIN log', log'[i].type = Reconciled
              PROVE  /\ \E j \in DOMAIN log' :
                          j < i /\ log'[j].type = Required
                            /\ log'[j].call = log'[i].call
                     /\ log'[i].info # "DEFER" => Has(log', "tool/result", log'[i].call)
  BY DEF VerdictsInOrder, Told
<1>3. CASE i \in DOMAIN log
  BY <1>1, <1>2, <1>3 DEF VerdictsInOrder
<1>4. CASE i = Len(log) + 1
  <2>1. PICK j \in DOMAIN log : log[j].type = Required /\ log[j].call = e.call
    BY <1>1, <1>4 DEF Has
  <2>2. j < i /\ j \in DOMAIN log' /\ log'[j] = log[j]
    BY <1>1, <1>4
  <2>. QED
    BY <1>1, <1>2, <1>4, <2>1, <2>2
<1>. QED
  BY <1>1, <1>3, <1>4

\* An event of another kind.
LEMMA StreamKept ==
  ASSUME LogTypeOK, OneAnswer, VerdictsInOrder,
         NEW type, NEW c, NEW info, Emit(Event(type, c, info)),
         type # "tool/result", type # Reconciled
  PROVE  OneAnswer' /\ VerdictsInOrder' /\ \A d : Told(d)' <=> Told(d)
<1>. DEFINE e == Event(type, c, info)
<1>1. e.type = type /\ Emit(e)
  BY DEF Event
<1>2. \A d : Told(d)' <=> Told(d)
  BY HasAfterEvent DEF Told
<1>. HIDE DEF e
<1>. QED
  BY <1>1, <1>2, OneAnswerKept, VerdictsKept

\* An answer to a call that had none.
LEMMA AnswerKept ==
  ASSUME LogTypeOK, OneAnswer, VerdictsInOrder,
         NEW c, NEW info, Emit(Event("tool/result", c, info)), ~Told(c)
  PROVE  OneAnswer' /\ VerdictsInOrder' /\ \A d : Told(d)' <=> Told(d) \/ d = c
<1>. DEFINE e == Event("tool/result", c, info)
<1>1. e.type = "tool/result" /\ e.call = c /\ Emit(e)
  BY DEF Event
<1>2. \A d : Told(d)' <=> Told(d) \/ d = c
  BY HasAfterEvent DEF Told
<1>. HIDE DEF e
<1>. QED
  BY <1>1, <1>2, OneAnswerKept, VerdictsKept DEF Reconciled

LEMMA RunKeepsStream ==
  ASSUME TypeInv, StreamGood, RunMoves
  PROVE  StreamGood'
<1>1. /\ LogTypeOK /\ AnswersLast /\ OneAnswer /\ VerdictsInOrder
      /\ cursor \in 0..(Len(Batch) - 1) /\ Len(Batch) \in Nat \ {0}
  BY BatchLength DEF TypeInv, TypeOK, ExecutorTypeOK, StreamGood
<1>2. CASE EmitResult
  <2>. DEFINE c == Batch[cursor + 1]
  <2>1. /\ run = "finalize" /\ Emit(Event("tool/result", c, outcome[c]))
        /\ \/ run' = "ended"
           \/ run' = "finalize" /\ cursor' = cursor + 1
    BY <1>2 DEF EmitResult
  <2>2. cursor + 1 \in 1..Len(Batch) /\ ~Told(c)
    BY <1>1, <2>1 DEF AnswersLast
  <2>3. OneAnswer' /\ VerdictsInOrder' /\ \A d : Told(d)' <=> Told(d) \/ d = c
    BY <1>1, <2>1, <2>2, AnswerKept
  <2>4. AnswersLast'
    <3>1. \A i \in 1..Len(Batch) : Batch[i] = c => i = cursor + 1
      BY <2>2, BatchAssumption
    <3>2. \A i \in 1..Len(Batch) : Told(Batch[i])' => i <= cursor + 1
      BY <1>1, <2>1, <2>3, <3>1 DEF AnswersLast
    <3>. QED
      BY <2>1, <3>2 DEF AnswersLast
  <2>. QED
    BY <2>3, <2>4 DEF StreamGood
<1>3. CASE EmitCall
  <2>1. OneAnswer' /\ VerdictsInOrder' /\ \A d : Told(d)' <=> Told(d)
    BY <1>1, <1>3, StreamKept DEF EmitCall, Reconciled
  <2>. QED
    BY <1>1, <1>3, <2>1 DEF EmitCall, StreamGood, AnswersLast
<1>4. CASE CompleteModel
  <2>1. OneAnswer' /\ VerdictsInOrder' /\ \A d : Told(d)' <=> Told(d)
    BY <1>1, <1>4, StreamKept DEF CompleteModel, Reconciled
  <2>2. run = "exec" /\ run' = "finalize"
    BY <1>4 DEF CompleteModel
  <2>3. \A i \in 1..Len(Batch) : Batch[i] \in Calls
    BY BatchAssumption
  <2>. QED
    BY <1>1, <2>1, <2>2, <2>3 DEF StreamGood, AnswersLast
<1>5. CASE BatchRaises \/ CancelEnds \/ CancelRun
  BY <1>1, <1>5 DEF BatchRaises, CancelEnds, CancelRun, StreamGood, AnswersLast,
     OneAnswer, VerdictsInOrder, Told
<1>6. ASSUME NEW c \in Calls, CallMoves(c)
      PROVE  StreamGood'
  <2>1. run' = run /\ run \in {"exec", "cancelling"} /\ UNCHANGED cursor
    BY <1>6, CallStep
  <2>2. CASE UNCHANGED log
    BY <1>1, <2>1, <2>2
       DEF StreamGood, AnswersLast, OneAnswer, VerdictsInOrder, Told
  <2>3. CASE AskUser(c)
    <3>1. OneAnswer' /\ VerdictsInOrder' /\ \A d : Told(d)' <=> Told(d)
      BY <1>1, <2>3, StreamKept DEF AskUser, Reconciled
    <3>. QED
      BY <1>1, <2>1, <3>1 DEF StreamGood, AnswersLast
  <2>. QED
    BY <1>6, <2>2, <2>3, CallStep
<1>. QED
  BY <1>2, <1>3, <1>4, <1>5, <1>6 DEF RunMoves, BatchMoves

-----------------------------------------------------------------------------
(* What a recovery knows.                                                   *)

\* The recovery lock is held in the critical steps and nowhere else, and the
\* events read under it are still the stream.
Inside(r) == rpc[r] \in {"decide", "settle", "commit", "pair", "conclude"}
OneInside == \A r \in Recoverers : Inside(r) <=> lock = r
FreshView == \A r \in Recoverers : Inside(r) => view[r] = log

\* A request is prepared in the state NEED_RECONCILE, and is pending only while
\* its recovery is asking.
TokensFit(r) ==
  /\ \A c \in Calls : tokens[r][c] \in {"none", "NEED_RECONCILE"}
  /\ rpc[r] \in {"idle", "acquire", "decide", "last"} => tokens[r] = NoTokens

\* In the first lock section: the rows that were read are the rows that are
\* there, up to what the section itself has done, and what is left to do covers
\* every call without an answer and every verdict without a report.
RowsRead(r, c) ==
  /\ Claims(ops[r][c]) => Succeeded(c)
  /\ ops[r][c].state \in {"ABSENT", "PENDING"} => started[c] = 0
  /\ ops[r][c].state = "PENDING" => ledger[c].state \in {"PENDING", "CANCELLED"}
  /\ ops[r][c].state \in ReconcileStates \/ ledger[c].state \in ReconcileStates
       => ops[r][c].state = ledger[c].state \/ c \in todo[r]["repair"]
  /\ ops[r][c].state = "RUNNING" => ~Restorable(log, c)
WorkLaidOut(r, c) ==
  /\ c \in todo[r]["repair"] => ops[r][c].state = "SUCCEEDED" /\ Restorable(log, c)
  /\ c \in todo[r]["close"] => ops[r][c].state = "PENDING"
  /\ c \in todo[r]["prepare"] => ops[r][c].state \in ReconcileStates
  /\ c \in todo[r]["synthesize"] => Has(log, "tool/call", c) /\ ~Told(c)
  /\ c \in todo[r]["report"] => ops[r][c].meta = ledger[c].meta
WorkCovers(r, c) ==
  /\ Has(log, "tool/call", c) /\ ~Told(c)
       => c \in todo[r]["synthesize"] \/ ops[r][c].state \in ReconcileStates
  /\ ops[r][c].state \in ReconcileStates
       => c \in todo[r]["prepare"] \/ tokens[r][c] # "none"
  /\ tokens[r][c] # "none" => c \in todo[r]["prepare"] \/ Has(log, Required, c)
  /\ CommittedVerdict(ledger[c]) => Has(log, Reconciled, c) \/ c \in todo[r]["report"]
Settled(r) ==
  rpc[r] = "settle" =>
    \A c \in Calls : RowsRead(r, c) /\ WorkLaidOut(r, c) /\ WorkCovers(r, c)

\* While a verdict is being served.
Judged(r) ==
  LET c == current[r].call
      v == current[r].verdict
  IN  /\ Claims(ops[r][c]) => Succeeded(c)
      /\ Has(log, Required, c)
      /\ rpc[r] = "commit" => ledger[c].state = "NEED_RECONCILE"
      /\ rpc[r] \in {"pair", "conclude"} => ledger[c].state = Target(v)
      /\ rpc[r] = "conclude" /\ v # "DEFER" => Told(c)
Serves(r) ==
  /\ rpc[r] \in {"ask", "reacquire", "commit", "pair", "conclude"} =>
       \A c \in Calls : tokens[r][c] # "none" => Has(log, Required, c)
  /\ rpc[r] = "reacquire" => tokens[r][current[r].call] # "none"
  /\ rpc[r] \in {"commit", "pair", "conclude"} => Judged(r)

\* Once the requests are out, every call for which none is pending is dealt with:
\* no verdict is left to report and none can come, and it is answered, or the
\* stream holds the user's DEFER.
Serving(r, c) == rpc[r] \in {"commit", "pair", "conclude"} /\ current[r].call = c
Dealt(c) ==
  /\ \/ Has(log, Reconciled, c)
     \/ ~CommittedVerdict(ledger[c]) /\ ledger[c].state \notin ReconcileStates
  /\ Has(log, "tool/call", c) /\ ~Told(c) => Deferred(c)
AllDealt(r) ==
  rpc[r] \in {"ask", "reacquire", "commit", "pair", "conclude", "last"} =>
    \A c \in Calls : tokens[r][c] = "none" /\ ~Serving(r, c) => Dealt(c)

RecoveryGood(r) == TokensFit(r) /\ Settled(r) /\ Serves(r) /\ AllDealt(r)

-----------------------------------------------------------------------------
(* What a recovery does to a row.                                           *)

\* The step of a recovery that changes the row of c, point by point.
Proven(c) ==
  ledger[c].state = "RUNNING" /\ Restorable(log, c)
    /\ RowTo(c, "SUCCEEDED", "ok", "none")
Closed(c) == ledger[c].state = "PENDING" /\ RowTo(c, "CANCELLED", "cancelled", "none")
Marked(c) ==
  \/ ledger[c].state = "RUNNING" /\ ~Restorable(log, c)
       /\ RowTo(c, "UNKNOWN", "none", "none")
  \/ ledger[c].state = "UNKNOWN" /\ RowTo(c, "NEED_RECONCILE", "none", "none")
Decided(c) ==
  /\ ledger[c].state = "NEED_RECONCILE" /\ Has(log, Required, c)
  /\ \E v \in Verdicts, content \in Contents \cup {"none"} :
       /\ RowTo(c, Target(v), content, v)
       /\ content = "ok" => v = "CONFIRM_SUCCESS" \/ Succeeded(c)

RecoveredRow(c) ==
  ledger'[c] = ledger[c] \/ Proven(c) \/ Closed(c) \/ Marked(c) \/ Decided(c)

LEMMA RecoveredRows ==
  ASSUME TypeInv, NEW r \in Recoverers, RecoveryGood(r), RecoveryMoves(r)
  PROVE  /\ \A c \in Calls : RecoveredRow(c)
         /\ UNCHANGED ledger \/ Inside(r)
<1>. USE DEF RecoveredRow
<1>1. LedgerTypeOK /\ RecoveryTypeOK
  BY DEF TypeInv, TypeOK
<1>2. ASSUME NEW c \in Calls, Repair(r, c)
      PROVE  (\A d \in Calls : RecoveredRow(d)) /\ Inside(r)
  <2>1. /\ rpc[r] = "settle" /\ c \in todo[r]["repair"] /\ ledger[c].state = "RUNNING"
        /\ UpdateState(c, "SUCCEEDED", "ok", "none")
    BY <1>2 DEF Repair, AtStage
  <2>2. Restorable(log, c)
    BY <2>1 DEF RecoveryGood, Settled, WorkLaidOut
  <2>. QED
    BY <1>1, <2>1, <2>2, RowUpdated DEF Proven, Inside
<1>3. ASSUME NEW c \in Calls, ClosePending(r, c)
      PROVE  (\A d \in Calls : RecoveredRow(d)) /\ Inside(r)
  <2>1. /\ rpc[r] = "settle" /\ c \in todo[r]["close"]
        /\ UpdateState(c, "CANCELLED", "cancelled", "none")
    BY <1>3 DEF ClosePending, AtStage
  <2>2. ledger[c].state \in {"PENDING", "CANCELLED"}
    BY <2>1 DEF RecoveryGood, Settled, WorkLaidOut, RowsRead
  <2>3. ledger[c].state = "PENDING"
    BY <2>1, <2>2, AllowedMoves DEF UpdateState, CanMove, TerminalStates
  <2>. QED
    BY <1>1, <2>1, <2>3, RowUpdated DEF Closed, Inside
<1>4. ASSUME NEW c \in Calls, MarkUnknown(r, c)
      PROVE  (\A d \in Calls : RecoveredRow(d)) /\ Inside(r)
  <2>1. /\ rpc[r] = "settle" /\ ops[r][c].state = "RUNNING"
        /\ UpdateState(c, "UNKNOWN", "none", "none")
    BY <1>4 DEF MarkUnknown, AtStage
  <2>2. ~Restorable(log, c)
    BY <2>1 DEF RecoveryGood, Settled, RowsRead
  <2>3. ledger[c].state = "RUNNING"
    BY <2>1 DEF UpdateState, CanMove, Allowed, TerminalStates
  <2>. QED
    BY <1>1, <2>1, <2>2, <2>3, RowUpdated DEF Marked, Inside
<1>5. ASSUME NEW c \in Calls, MarkNeedReconcile(r, c)
      PROVE  (\A d \in Calls : RecoveredRow(d)) /\ Inside(r)
  <2>1. /\ rpc[r] = "settle" /\ c \in todo[r]["prepare"] /\ ops[r][c].state = "UNKNOWN"
        /\ UpdateState(c, "NEED_RECONCILE", "none", "none")
    BY <1>5 DEF MarkNeedReconcile, AtStage
  <2>2. RowsRead(r, c) /\ WorkLaidOut(r, c)
    BY <2>1 DEF RecoveryGood, Settled
  <2>3. ledger[c].state = "UNKNOWN"
    BY <2>1, <2>2 DEF RowsRead, WorkLaidOut, ReconcileStates
  <2>. QED
    BY <1>1, <2>1, <2>3, RowUpdated DEF Marked, Inside
<1>6. CASE CommitVerdict(r)
  <2>. DEFINE c == current[r].call
              v == current[r].verdict
  <2>1. /\ rpc[r] = "commit"
        /\ UpdateState(c, Target(v), VerdictContent(ops[r][c], v), v)
    BY <1>6 DEF CommitVerdict
  <2>2. c \in Calls /\ v \in Verdicts /\ ops[r][c] \in Rows
    BY <1>1, <2>1 DEF TypeInv, ServesRequest, RecoveryTypeOK
  <2>3. /\ Claims(ops[r][c]) => Succeeded(c)
        /\ Has(log, Required, c) /\ ledger[c].state = "NEED_RECONCILE"
    BY <2>1 DEF RecoveryGood, Serves, Judged
  <2>4. VerdictContent(ops[r][c], v) \in Contents \cup {"none"}
    BY <2>2, ContentType
  <2>5. VerdictContent(ops[r][c], v) = "ok" => v = "CONFIRM_SUCCESS" \/ Succeeded(c)
    BY <2>2, <2>3 DEF VerdictContent, Claims
  <2>. HIDE DEF c, v
  <2>6. /\ RowTo(c, Target(v), VerdictContent(ops[r][c], v), v)
        /\ \A d \in Calls \ {c} : ledger'[d] = ledger[d]
    BY <1>1, <2>1, <2>2, RowUpdated
  <2>7. Decided(c)
    BY <2>2, <2>3, <2>4, <2>5, <2>6 DEF Decided
  <2>. QED
    BY <2>1, <2>6, <2>7 DEF Inside
<1>7. CASE \E k \in CallbackKinds : Start(r, k)
  BY <1>7 DEF Start
<1>8. CASE Leave(r) \/ Refuse(r)
  BY <1>8 DEF Leave, Refuse
<1>9. ASSUME \/ Acquire(r) \/ Decide(r) \/ AskVerdicts(r) \/ ResumeAtOnce(r)
             \/ \E c \in Calls : \/ Synthesize(r, c) \/ Report(r, c) \/ Request(r, c)
                                 \/ \E v \in Verdicts : Resolve(r, c, v)
             \/ Reacquire(r) \/ PairResult(r) \/ Conclude(r) \/ ResumeAfterVerdicts(r)
      PROVE  UNCHANGED ledger
  BY <1>9 DEF Acquire, Decide, AskVerdicts, ResumeAtOnce, Synthesize, Report, Request,
     Resolve, Reacquire, PairResult, Conclude, ResumeAfterVerdicts
<1>. QED
  BY <1>2, <1>3, <1>4, <1>5, <1>6, <1>7, <1>8, <1>9 DEF RecoveryMoves, Advance

LEMMA RecoveredRowGood ==
  ASSUME TypeInv, AttemptCounted, NEW c \in Calls, CallGood(c), RecoveredRow(c),
         run = "ended", UNCHANGED exVars,
         Has(log', Question, c) <=> Has(log, Question, c),
         Restorable(log', c) <=> Restorable(log, c),
         Has(log, Required, c) => Has(log', Required, c)
  PROVE  CallGood(c)'
<1>. DEFINE asks == Has(log, Question, c)
            put  == Has(log', Question, c)
            firm == Restorable(log, c)
            stay == Restorable(log', c)
            need == Has(log, Required, c)
            said == Has(log', Required, c)
<1>1. /\ ledger[c].state \in States
      /\ ledger[c].result \in Contents \cup {"none"}
      /\ ledger[c].meta \in Verdicts \cup {"unproven", "none"}
  BY CallType
<1>2. /\ asks \in BOOLEAN /\ put \in BOOLEAN /\ need \in BOOLEAN /\ said \in BOOLEAN
      /\ firm \in BOOLEAN /\ stay \in BOOLEAN /\ (firm => asks) /\ (stay <=> firm)
      /\ put <=> asks
      /\ need => said
  BY RestorableAsked DEF Has, Restorable
<1>3. /\ RowFits(c) /\ FlightInRun(c) /\ Entered(c) /\ Held(c) /\ Undoubted(c)
      /\ QuestionPut(c) /\ SuccessAsked(c) /\ OutcomeTrue(c) /\ RowTrue(c)
      /\ MetaRight(c)
  BY DEF CallGood
<1>4. /\ run' = run /\ pc'[c] = pc[c] /\ outcome'[c] = outcome[c]
      /\ started'[c] = started[c] /\ doubt'[c] = doubt[c]
  BY DEF exVars
<1>5. ledger[c].state = "PENDING" => started[c] = 0 /\ doubt[c] = "none"
  <2>1. started[c] \in Nat /\ doubt[c] \in Doubts /\ ledger[c].attempts \in Nat
    BY CallType
  <2>2. ledger[c].state = "PENDING" => started[c] <= 0
    BY DEF AttemptCounted
  <2>. QED
    BY <1>3, <2>1, <2>2 DEF Entered
<1>. HIDE DEF asks, put, firm, stay, need, said
<1>. USE DEF States, RowStates, ReconcileStates, TerminalStates, Contents, Verdicts,
       FinalVerdicts, Coalesce, Allowed, RowTo, RowIs, CommittedVerdict, Target
<1>. USE DEF RecoveredRow, Proven, Closed, Marked, Decided, Succeeded
<1>6. RowFits(c)' /\ FlightInRun(c)' /\ OutcomeTrue(c)'
  BY <1>3, <1>4 DEF RowFits, FlightInRun, OutcomeTrue, InFlight
<1>7. Entered(c)' /\ Undoubted(c)'
  BY <1>3, <1>4 DEF Entered, Undoubted, ToolEntered
<1>8. Held(c)'
  BY <1>1, <1>2, <1>3, <1>4, <1>5 DEF Held, firm, stay
<1>9. QuestionPut(c)'
  BY <1>1, <1>2, <1>3, <1>4 DEF QuestionPut, asks, put, firm, stay
<1>10. SuccessAsked(c)'
  BY <1>1, <1>2, <1>3, <1>4 DEF SuccessAsked, asks, put, firm
<1>11. RowTrue(c)'
  BY <1>1, <1>2, <1>3 DEF RowTrue, Claims, asks, put, firm
<1>12. MetaRight(c)'
  BY <1>1, <1>2, <1>3 DEF MetaRight, need, said
<1>. QED
  BY <1>6, <1>7, <1>8, <1>9, <1>10, <1>11, <1>12 DEF CallGood

-----------------------------------------------------------------------------
(* The recovery lock.                                                       *)

Aside(q) ==
  /\ rpc'[q] = rpc[q] /\ view'[q] = view[q] /\ ops'[q] = ops[q]
  /\ todo'[q] = todo[q] /\ tokens'[q] = tokens[q] /\ current'[q] = current[q]

LEMMA OthersAside ==
  ASSUME TypeInv, NEW r \in Recoverers, RecoveryMoves(r), NEW q \in Recoverers \ {r}
  PROVE  Aside(q)
<1>1. /\ rpc \in [Recoverers -> RecoverySteps]
      /\ view \in [Recoverers -> Seq(Events)]
      /\ ops \in [Recoverers -> [Calls -> Rows]]
      /\ todo \in [Recoverers -> [Stages -> SUBSET Calls]]
      /\ tokens \in [Recoverers -> [Calls -> States \cup {"none"}]]
      /\ current \in [Recoverers -> [call : Calls \cup {NoCall},
                                     verdict : Verdicts \cup {"none"}]]
  BY DEF TypeInv, TypeOK, RecoveryTypeOK
<1>. USE DEF Aside, Step, Forget, Done, Write
<1>2. CASE (\E k \in CallbackKinds : Start(r, k)) \/ Acquire(r) \/ Decide(r)
             \/ AskVerdicts(r) \/ ResumeAtOnce(r)
  BY <1>1, <1>2 DEF Start, Acquire, Decide, AskVerdicts, ResumeAtOnce
<1>3. ASSUME NEW c \in Calls,
             \/ Repair(r, c) \/ Synthesize(r, c) \/ ClosePending(r, c) \/ Report(r, c)
      PROVE  Aside(q)
  BY <1>1, <1>3 DEF Repair, Synthesize, ClosePending, Report
<1>4. ASSUME NEW c \in Calls,
             \/ MarkUnknown(r, c) \/ MarkNeedReconcile(r, c) \/ Request(r, c)
             \/ \E v \in Verdicts : Resolve(r, c, v)
      PROVE  Aside(q)
  BY <1>1, <1>4 DEF MarkUnknown, MarkNeedReconcile, Request, Resolve
<1>5. CASE Reacquire(r) \/ CommitVerdict(r) \/ PairResult(r)
  BY <1>1, <1>5 DEF Reacquire, CommitVerdict, PairResult
<1>6. CASE Conclude(r) \/ ResumeAfterVerdicts(r)
  BY <1>1, <1>6 DEF Conclude, ResumeAfterVerdicts
<1>7. CASE Leave(r) \/ Refuse(r)
  BY <1>1, <1>7 DEF Leave, Refuse
<1>. QED
  BY <1>2, <1>3, <1>4, <1>5, <1>6, <1>7 DEF RecoveryMoves, Advance

\* Where r may write: within its lock section, or for the closing event while
\* the lock is free.
MayWrite(r) == Inside(r) \/ (rpc[r] = "last" /\ lock = NoOne)

LEMMA LockStep ==
  ASSUME TypeInv, OneInside, NEW r \in Recoverers, RecoveryMoves(r)
  PROVE  /\ OneInside'
         /\ UNCHANGED <<ledger, log>> \/ MayWrite(r)
<1>1. /\ rpc \in [Recoverers -> RecoverySteps]
      /\ lock \in Recoverers \cup {NoOne} /\ NoOne \notin Recoverers
  BY RecoveryAssumption DEF TypeInv, TypeOK, RecoveryTypeOK
<1>2. \A q \in Recoverers \ {r} : rpc'[q] = rpc[q]
  BY OthersAside DEF Aside
<1>. DEFINE Kept(l, w) == lock' = l /\ rpc'[r] = w
<1>3. /\ \/ Kept(r, "decide") /\ lock = NoOne /\ ~Inside(r)
         \/ Kept(r, "commit") /\ lock = NoOne /\ ~Inside(r)
         \/ lock' = lock /\ Inside(r) /\ rpc'[r] \in {"settle", "pair", "conclude"}
         \/ lock' = NoOne /\ Inside(r) /\ rpc'[r] \in {"ask", "idle", "last"}
         \/ lock' = lock /\ ~Inside(r) /\ rpc'[r] \in {"acquire", "reacquire", "idle"}
      /\ UNCHANGED <<ledger, log>> \/ MayWrite(r)
  <2>. USE DEF Inside, MayWrite, Step, LockFree
  <2>1. CASE (\E k \in CallbackKinds : Start(r, k)) \/ Acquire(r) \/ Decide(r)
               \/ AskVerdicts(r) \/ ResumeAtOnce(r)
    BY <1>1, <2>1 DEF Start, Acquire, Decide, AskVerdicts, ResumeAtOnce
  <2>2. ASSUME NEW c \in Calls,
               \/ Repair(r, c) \/ Synthesize(r, c) \/ ClosePending(r, c)
               \/ Report(r, c) \/ MarkUnknown(r, c) \/ MarkNeedReconcile(r, c)
               \/ Request(r, c)
        PROVE  lock' = lock /\ Inside(r) /\ rpc'[r] = "settle"
    BY <1>1, <2>2 DEF Repair, Synthesize, ClosePending, Report, MarkUnknown,
       MarkNeedReconcile, Request, AtStage
  <2>3. ASSUME NEW c \in Calls, NEW v \in Verdicts, Resolve(r, c, v)
        PROVE  /\ lock' = lock /\ ~Inside(r) /\ rpc'[r] = "reacquire"
               /\ UNCHANGED <<ledger, log>>
    BY <1>1, <2>3 DEF Resolve
  <2>4. CASE Reacquire(r) \/ CommitVerdict(r) \/ PairResult(r)
    BY <1>1, <2>4 DEF Reacquire, CommitVerdict, PairResult
  <2>5. CASE Conclude(r) \/ ResumeAfterVerdicts(r)
    BY <1>1, <2>5 DEF Conclude, ResumeAfterVerdicts
  <2>6. CASE Leave(r) \/ Refuse(r)
    <3>1. /\ lock' = (IF lock = r THEN NoOne ELSE lock)
          /\ rpc'[r] = "idle" /\ UNCHANGED <<ledger, log>>
      BY <1>1, <2>6 DEF Leave, Refuse
    <3>. QED
      BY <3>1 DEF OneInside
  <2>. QED
    BY <2>1, <2>2, <2>3, <2>4, <2>5, <2>6 DEF RecoveryMoves, Advance
<1>4. OneInside'
  BY <1>1, <1>2, <1>3 DEF OneInside, Inside
<1>. QED
  BY <1>3, <1>4

-----------------------------------------------------------------------------
(* What a recovery writes to the stream.                                    *)

\* An answer that may be told: the first, to a call that was requested, and true.
MayTell(c, info) ==
  /\ Has(log, "tool/call", c) /\ ~Told(c)
  /\ info \in ResultContents
  /\ info = "ok" => Succeeded(c)
  /\ info \in {"skipped", "notexec", "rejected"} => started[c] = 0

MayReport(c, info) == Has(log, Required, c) /\ (info # "DEFER" => Told(c))

RecoveryWrites ==
  \/ UNCHANGED log
  \/ \E c \in Calls, info \in EventInfos :
       \/ Emit(Event("tool/result", c, info)) /\ MayTell(c, info)
       \/ Emit(Event(Reconciled, c, info)) /\ MayReport(c, info)
  \/ \E c \in Calls : Emit(Event(Required, c, "none"))
  \/ Emit(Event("session/resumed", NoCall, "none"))

LEMMA RecoveryWritesRight ==
  ASSUME TypeInv, CallEventFirst, OneInside, FreshView, NEW r \in Recoverers,
         \A c \in Calls : CallGood(c), RecoveryGood(r), RecoveryMoves(r)
  PROVE  RecoveryWrites
<1>. USE DEF RecoveryWrites
<1>1. RecoveryTypeOK
  BY DEF TypeInv, TypeOK
<1>2. Inside(r) => view[r] = log
  BY DEF FreshView
<1>3. ASSUME NEW c \in Calls, Synthesize(r, c)
      PROVE  RecoveryWrites
  <2>. DEFINE row == ops[r][c]
  <2>1. /\ rpc[r] = "settle" /\ c \in todo[r]["synthesize"] /\ row \in Rows
        /\ Emit(Event("tool/result", c, SynthesizedContent(row)))
    BY <1>1, <1>3 DEF Synthesize, AtStage, Write, RecoveryTypeOK
  <2>2. RowsRead(r, c) /\ WorkLaidOut(r, c)
    BY <2>1 DEF RecoveryGood, Settled
  <2>3. /\ Has(log, "tool/call", c) /\ ~Told(c)
        /\ Claims(row) => Succeeded(c)
        /\ row.state \in {"ABSENT", "PENDING"} => started[c] = 0
    BY <2>1, <2>2 DEF RowsRead, WorkLaidOut
  <2>4. row.result \in Contents \cup {"none"}
    BY <2>1 DEF Rows
  <2>. HIDE DEF row
  <2>5. /\ SynthesizedContent(row) \in ResultContents
        /\ SynthesizedContent(row) = "ok" => Claims(row)
        /\ SynthesizedContent(row) \in {"skipped", "notexec", "rejected"}
             => row.state \in {"ABSENT", "PENDING"}
    BY <2>4 DEF SynthesizedContent, ResultContents, Contents, Claims
  <2>6. MayTell(c, SynthesizedContent(row)) /\ SynthesizedContent(row) \in EventInfos
    BY <2>3, <2>5 DEF MayTell, EventInfos
  <2>. QED
    BY <2>1, <2>6
<1>4. ASSUME NEW c \in Calls, Report(r, c)
      PROVE  RecoveryWrites
  <2>. DEFINE info == ops[r][c].meta
  <2>1. /\ rpc[r] = "settle" /\ c \in todo[r]["report"]
        /\ todo[r]["synthesize"] = {} /\ todo[r]["repair"] = {}
        /\ Emit(Event(Reconciled, c, info))
    BY <1>4 DEF Report, AtStage, Before, Write, Reconciled
  <2>2. RowsRead(r, c) /\ WorkLaidOut(r, c) /\ WorkCovers(r, c)
    BY <2>1 DEF RecoveryGood, Settled
  <2>3. info \in Verdicts /\ info = ledger[c].meta
    BY <2>1, <2>2 DEF TypeInv, ReportsVerdicts, CommittedVerdict, WorkLaidOut
  <2>4. Has(log, Required, c)
    BY <2>3 DEF CallGood, MetaRight, CommittedVerdict
  <2>5. ASSUME info # "DEFER"
        PROVE  Told(c)
    <3>1. ledger[c].state \in TerminalStates
      BY <2>3, <2>5 DEF CallGood, MetaRight, Verdicts
    <3>2. ops[r][c].state \notin ReconcileStates
      BY <2>1, <2>2, <3>1 DEF RowsRead, ReconcileStates, TerminalStates
    <3>3. Has(log, "tool/call", c)
      BY <3>1 DEF CallEventFirst, TerminalStates
    <3>. QED
      BY <2>1, <2>2, <3>2, <3>3 DEF WorkCovers
  <2>6. info \in EventInfos
    BY <2>3 DEF EventInfos
  <2>. HIDE DEF info
  <2>. QED
    BY <2>1, <2>4, <2>5, <2>6 DEF MayReport
<1>5. ASSUME NEW c \in Calls, Request(r, c)
      PROVE  RecoveryWrites
  BY <1>5 DEF Request, Write, Required
<1>6. CASE PairResult(r)
  <2>. DEFINE c == current[r].call
              v == current[r].verdict
              info == VerdictContent(ops[r][c], v)
  <2>1. /\ rpc[r] = "pair"
        /\ \/ UNCHANGED log
           \/ /\ v # "DEFER" /\ ~Paired(r, c)
              /\ Emit(Event("tool/result", c, info))
    BY <1>6 DEF PairResult, Write
  <2>2. c \in Calls /\ v \in Verdicts /\ ops[r][c] \in Rows
    BY <1>1, <2>1 DEF TypeInv, ServesRequest, RecoveryTypeOK
  <2>3. /\ Claims(ops[r][c]) => Succeeded(c)
        /\ ledger[c].state = Target(v)
    BY <2>1 DEF RecoveryGood, Serves, Judged
  <2>4. Has(log, "tool/call", c)
    BY <2>2, <2>3, AllowedMoves DEF CallEventFirst, Target
  <2>5. /\ v # "DEFER" => info \in Contents
        /\ info \in EventInfos
        /\ info = "ok" => Succeeded(c)
    <3>1. /\ v # "DEFER" => info \in Contents
          /\ info \in EventInfos
      <4>1. info \in Contents \cup {"none"} /\ info \in EventInfos
        BY <2>2, ContentType
      <4>2. v # "DEFER" => info # "none"
        BY DEF VerdictContent
      <4>. QED
        BY <4>1, <4>2
    <3>2. info = "ok" => v = "CONFIRM_SUCCESS" \/ Claims(ops[r][c])
      BY DEF VerdictContent, Claims
    <3>. QED
      BY <2>3, <3>1, <3>2 DEF Target, Succeeded
  <2>6. ~Paired(r, c) => ~Told(c)
    BY <1>2, <2>1 DEF Paired, Told, Inside
  <2>. HIDE DEF c, v, info
  <2>7. CASE v # "DEFER" /\ ~Paired(r, c) /\ Emit(Event("tool/result", c, info))
    <3>1. MayTell(c, info)
      BY <2>4, <2>5, <2>6, <2>7 DEF MayTell, ResultContents, Contents
    <3>. QED
      BY <2>2, <2>5, <2>7, <3>1
  <2>. QED
    BY <2>1, <2>7
<1>7. CASE Conclude(r)
  <2>. DEFINE c == current[r].call
              v == current[r].verdict
  <2>1. /\ rpc[r] = "conclude"
        /\ UNCHANGED log \/ Emit(Event(Reconciled, c, v))
    BY <1>7 DEF Conclude, Reconciled
  <2>2. c \in Calls /\ v \in Verdicts
    BY <2>1 DEF TypeInv, ServesRequest
  <2>3. MayReport(c, v)
    BY <2>1 DEF RecoveryGood, Serves, Judged, MayReport
  <2>4. v \in EventInfos
    BY <2>2 DEF EventInfos
  <2>. HIDE DEF c, v
  <2>. QED
    BY <2>1, <2>2, <2>3, <2>4
<1>8. CASE (\E k \in CallbackKinds : Start(r, k)) \/ Leave(r) \/ Refuse(r)
  BY <1>8 DEF Start, Leave, Refuse
<1>9. ASSUME \/ Acquire(r) \/ Decide(r) \/ AskVerdicts(r) \/ ResumeAtOnce(r)
             \/ \E c \in Calls :
                  \/ Repair(r, c) \/ ClosePending(r, c) \/ MarkUnknown(r, c)
                  \/ MarkNeedReconcile(r, c) \/ \E v \in Verdicts : Resolve(r, c, v)
             \/ Reacquire(r) \/ CommitVerdict(r) \/ ResumeAfterVerdicts(r)
      PROVE  RecoveryWrites
  BY <1>9 DEF Acquire, Decide, AskVerdicts, ResumeAtOnce, Repair, ClosePending,
     MarkUnknown, MarkNeedReconcile, Resolve, Reacquire, CommitVerdict,
     ResumeAfterVerdicts
<1>. QED
  BY <1>3, <1>4, <1>5, <1>6, <1>7, <1>8, <1>9 DEF RecoveryMoves, Advance

\* What the stream holds after such a step.
StreamAfter ==
  /\ \A d : Has(log', Question, d) <=> Has(log, Question, d)
  /\ \A d : Restorable(log', d) <=> Restorable(log, d)
  /\ \A d : Has(log', "tool/call", d) <=> Has(log, "tool/call", d)
  /\ \A d : Has(log, Required, d) => Has(log', Required, d)
  /\ \A d : Has(log, Reconciled, d) => Has(log', Reconciled, d)
  /\ \A d : Told(d) => Told(d)'
  /\ \A d : Deferred(d) => Deferred(d)'

LEMMA RecoveryKeepsStream ==
  ASSUME TypeInv, StreamGood, run = "ended", UNCHANGED exVars, RecoveryWrites
  PROVE  StreamGood' /\ StreamAfter
<1>. USE DEF StreamAfter
<1>1. LogTypeOK /\ OneAnswer /\ VerdictsInOrder
  BY DEF TypeInv, TypeOK, StreamGood
<1>2. AnswersLast'
  BY DEF exVars, AnswersLast
<1>3. ASSUME NEW e, Emit(e)
      PROVE  \A d : Deferred(d) => Deferred(d)'
  <2>1. /\ DOMAIN log' = DOMAIN log \cup {Len(log) + 1}
        /\ \A i \in DOMAIN log : log'[i] = log[i]
    BY <1>1, <1>3, Appended
  <2>. QED
    BY <2>1 DEF Deferred
<1>4. CASE UNCHANGED log
  BY <1>1, <1>2, <1>4 DEF StreamGood, OneAnswer, VerdictsInOrder, Told, Deferred,
     Restorable
<1>5. ASSUME NEW c \in Calls, NEW info \in EventInfos,
             Emit(Event("tool/result", c, info)), MayTell(c, info)
      PROVE  StreamGood' /\ StreamAfter
  <2>1. OneAnswer' /\ VerdictsInOrder'
    BY <1>1, <1>5, AnswerKept DEF MayTell
  <2>2. \A t, d : Has(log', t, d) <=> Has(log, t, d) \/ (t = "tool/result" /\ d = c)
    BY <1>1, <1>5, HasAfterEvent
  <2>3. \A d : Restorable(log', d) <=> Restorable(log, d)
    BY <1>1, <1>5, RestorableAfter DEF Question
  <2>. QED
    BY <1>2, <1>3, <1>5, <2>1, <2>2, <2>3
       DEF StreamGood, Told, Question, Required, Reconciled
<1>6. ASSUME NEW c \in Calls, NEW info \in EventInfos,
             Emit(Event(Reconciled, c, info)), MayReport(c, info)
      PROVE  StreamGood' /\ StreamAfter
  <2>. DEFINE e == Event(Reconciled, c, info)
  <2>1. e.type = Reconciled /\ e.call = c /\ e.info = info /\ Emit(e)
    BY <1>6 DEF Event
  <2>2. \A t, d : Has(log', t, d) <=> Has(log, t, d) \/ (t = Reconciled /\ d = c)
    BY <1>1, <1>6, HasAfterEvent
  <2>4. \A d : Restorable(log', d) <=> Restorable(log, d)
    BY <1>1, <1>6, RestorableAfter DEF Question, Reconciled
  <2>. HIDE DEF e
  <2>3. OneAnswer' /\ VerdictsInOrder'
    BY <1>1, <1>6, <2>1, OneAnswerKept, VerdictsKept DEF MayReport, Reconciled
  <2>. QED
    BY <1>2, <1>3, <2>1, <2>2, <2>3, <2>4
       DEF StreamGood, Told, Question, Required, Reconciled
<1>7. ASSUME NEW type, NEW c, Emit(Event(type, c, "none")),
             type \in {Required, "session/resumed"}
      PROVE  StreamGood' /\ StreamAfter
  <2>1. /\ OneAnswer' /\ VerdictsInOrder'
        /\ \A d : Told(d)' <=> Told(d)
    BY <1>1, <1>7, StreamKept DEF Required, Reconciled
  <2>2. \A t, d : Has(log', t, d) <=> Has(log, t, d) \/ (type = t /\ d = c)
    BY <1>1, <1>7, HasAfterEvent
  <2>3. \A d : Restorable(log', d) <=> Restorable(log, d)
    BY <1>1, <1>7, RestorableAfter DEF Question, Required
  <2>. QED
    BY <1>2, <1>3, <1>7, <2>1, <2>2, <2>3 DEF StreamGood, Question, Required, Reconciled
<1>. QED
  BY <1>4, <1>5, <1>6, <1>7 DEF RecoveryWrites

LEMMA WriteView ==
  ASSUME RecoveryTypeOK, NEW r \in Recoverers, NEW e, Write(r, e), view[r] = log
  PROVE  view'[r] = log'
  BY DEF RecoveryTypeOK, Write, Emit

LEMMA ViewStep ==
  ASSUME TypeInv, OneInside, FreshView, NEW r \in Recoverers, RecoveryMoves(r)
  PROVE  FreshView'
<1>1. RecoveryTypeOK /\ NoOne \notin Recoverers
  BY RecoveryAssumption DEF TypeInv, TypeOK
<1>2. ASSUME NEW q \in Recoverers \ {r}, Inside(q)'
      PROVE  view'[q] = log'
  <2>1. Aside(q) /\ Inside(q)
    BY <1>2, OthersAside DEF Aside, Inside
  <2>2. ~MayWrite(r)
    BY <1>1, <2>1 DEF OneInside, MayWrite
  <2>. QED
    BY <2>1, <2>2, LockStep DEF FreshView, Aside
<1>3. Inside(r)' => view'[r] = log'
  <2>1. Inside(r) => view[r] = log
    BY DEF FreshView
  <2>. USE DEF Inside, Step, Forget, RecoveryTypeOK
  <2>2. CASE (\E k \in CallbackKinds : Start(r, k)) \/ Acquire(r) \/ Decide(r)
               \/ AskVerdicts(r) \/ ResumeAtOnce(r)
    BY <1>1, <2>1, <2>2 DEF Start, Acquire, Decide, AskVerdicts, ResumeAtOnce
  <2>3. ASSUME NEW c \in Calls,
               \/ Repair(r, c) \/ ClosePending(r, c) \/ MarkUnknown(r, c)
               \/ MarkNeedReconcile(r, c) \/ \E v \in Verdicts : Resolve(r, c, v)
        PROVE  Inside(r)' => view'[r] = log'
    BY <1>1, <2>1, <2>3 DEF Repair, ClosePending, MarkUnknown, MarkNeedReconcile,
       Resolve
  <2>4. ASSUME NEW c \in Calls, Synthesize(r, c) \/ Report(r, c) \/ Request(r, c)
        PROVE  Inside(r)' => view'[r] = log'
    <3>1. view[r] = log
      BY <2>1, <2>4 DEF Synthesize, Report, Request, AtStage
    <3>2. UNCHANGED <<log, view>> \/ \E e : Write(r, e)
      BY <2>4 DEF Synthesize, Report, Request
    <3>. QED
      BY <1>1, <3>1, <3>2, WriteView
  <2>5. CASE Reacquire(r) \/ CommitVerdict(r)
    BY <1>1, <2>1, <2>5 DEF Reacquire, CommitVerdict
  <2>6. CASE PairResult(r)
    <3>1. view[r] = log
      BY <2>1, <2>6 DEF PairResult
    <3>2. UNCHANGED <<log, view>> \/ \E e : Write(r, e)
      BY <2>6 DEF PairResult
    <3>. QED
      BY <1>1, <3>1, <3>2, WriteView
  <2>7. CASE Conclude(r) \/ ResumeAfterVerdicts(r)
    BY <1>1, <2>7 DEF Conclude, ResumeAfterVerdicts
  <2>8. CASE Leave(r) \/ Refuse(r)
    BY <1>1, <2>8 DEF Leave, Refuse
  <2>. QED
    BY <2>2, <2>3, <2>4, <2>5, <2>7, <2>8, <2>6 DEF RecoveryMoves, Advance
<1>. QED
  BY <1>2, <1>3 DEF FreshView

-----------------------------------------------------------------------------
(* A recovery keeps what the others know.                                   *)

LEMMA DealtKept ==
  ASSUME TypeInv, NEW c \in Calls, RecoveredRow(c), StreamAfter, Dealt(c)
  PROVE  Dealt(c)'
<1>1. ledger[c].state \in States /\ ledger[c].meta \in Verdicts \cup {"unproven", "none"}
  BY CallType
<1>2. ledger[c].state \notin ReconcileStates /\ ~CommittedVerdict(ledger[c])
        => ledger'[c].state \notin ReconcileStates /\ ~CommittedVerdict(ledger'[c])
  BY <1>1 DEF RecoveredRow, Proven, Closed, Marked, Decided, RowTo, RowIs, Coalesce,
     ReconcileStates, CommittedVerdict
<1>. QED
  BY <1>2 DEF Dealt, StreamAfter

LEMMA AsideGood ==
  ASSUME TypeInv, OneInside, NEW r \in Recoverers, RecoveryMoves(r),
         NEW q \in Recoverers \ {r}, RecoveryGood(q),
         \A c \in Calls : RecoveredRow(c), StreamAfter
  PROVE  RecoveryGood(q)'
<1>1. Aside(q) /\ started' = started
  BY OthersAside DEF RecoveryMoves, exVars
<1>2. TokensFit(q)'
  BY <1>1 DEF Aside, TokensFit, RecoveryGood
<1>3. CASE Inside(q)
  <2>1. ledger' = ledger /\ log' = log
    BY <1>3, LockStep, RecoveryAssumption DEF OneInside, MayWrite
  <2>. USE DEF Aside, Succeeded, Told
  <2>2. Settled(q)'
    BY <1>1, <2>1 DEF RecoveryGood, Settled, RowsRead, WorkLaidOut, WorkCovers
  <2>3. Serves(q)'
    BY <1>1, <2>1 DEF RecoveryGood, Serves, Judged
  <2>4. AllDealt(q)'
    BY <1>1, <2>1 DEF RecoveryGood, AllDealt, Serving, Dealt, Deferred
  <2>. QED
    BY <1>2, <2>2, <2>3, <2>4 DEF RecoveryGood
<1>4. CASE ~Inside(q)
  <2>1. Settled(q)' /\ Serves(q)'
    BY <1>1, <1>4 DEF RecoveryGood, Settled, Serves, StreamAfter, Inside, Aside
  <2>2. AllDealt(q)'
    <3>. SUFFICES ASSUME rpc'[q] \in {"ask", "reacquire", "last"},
                         NEW c \in Calls, tokens'[q][c] = "none"
                  PROVE  Dealt(c)'
      BY <1>1, <1>4 DEF AllDealt, Aside, Inside, Serving
    <3>1. Dealt(c)
      BY <1>1 DEF RecoveryGood, AllDealt, Serving, Aside
    <3>. QED
      BY <3>1, DealtKept
  <2>. QED
    BY <1>2, <2>1, <2>2 DEF RecoveryGood
<1>. QED
  BY <1>3, <1>4

-----------------------------------------------------------------------------
(* The first lock section.                                                  *)

\* What Decide reads, call by call.
LEMMA DecidePoint ==
  ASSUME TypeInv, NEW r \in Recoverers, Decide(r), view[r] = log, NEW c \in Calls,
         CallGood(c)
  PROVE  LET row   == ops'[r][c]
             asked == ledger[c].state = "RUNNING" /\ Restorable(log, c)
             open  == Has(log, "tool/call", c) /\ ~Told(c)
         IN  /\ asked => row.state = "SUCCEEDED" /\ row.meta = "none"
             /\ ~asked => row = ledger[c]
             /\ c \in todo'[r]["repair"] <=> asked
             /\ c \notin todo'[r]["close"]
             /\ c \in todo'[r]["prepare"] <=> row.state \in ReconcileStates
             /\ c \in todo'[r]["synthesize"] <=>
                  open /\ row.state \notin ReconcileStates
             /\ c \in todo'[r]["report"] <=>
                  CommittedVerdict(row) /\ ~Has(log, Reconciled, c)
<1>. DEFINE patched == Repaired(log, ledger)
            row     == patched[c]
            asked   == ledger[c].state = "RUNNING" /\ Restorable(log, c)
            open    == Has(log, "tool/call", c) /\ ~Told(c)
<1>1. RecoveryTypeOK /\ LedgerTypeOK /\ ledger[c] \in Rows
  BY DEF TypeInv, TypeOK, LedgerTypeOK
<1>2. /\ ops'[r] = patched /\ todo'[r] = TodoAfter(log, ledger)
  BY <1>1 DEF Decide, RecoveryTypeOK
<1>3. c \in Repairable(log, ledger) <=> asked
  BY DEF Repairable
<1>4. /\ asked => row = [ledger[c] EXCEPT !.state = "SUCCEEDED", !.result = "ok",
                                          !.meta = "none"]
      /\ ~asked => row = ledger[c]
  BY <1>3 DEF Repaired
<1>5. asked => row.state = "SUCCEEDED" /\ row.meta = "none"
  BY <1>1, <1>4 DEF Rows
<1>6. c \in Dangling(log) <=> open
  BY DEF Dangling, Told
<1>7. row.meta = "unproven" => row.state \in ReconcileStates
  BY <1>4, <1>5 DEF CallGood, MetaRight, ReconcileStates
<1>8. c \in Undecided(log, patched) <=> row.state \in ReconcileStates
  BY <1>7 DEF Undecided, NeedsReconcile, HasUnprovenSideEffect
<1>9. c \in Unreported(log, patched) <=>
        CommittedVerdict(row) /\ ~Has(log, Reconciled, c)
  BY DEF Unreported, Reconciled
<1>. HIDE DEF patched, row, asked, open
<1>10. /\ todo'[r]["repair"] = Repairable(log, ledger)
       /\ todo'[r]["synthesize"] = Dangling(log) \ Undecided(log, patched)
       /\ todo'[r]["close"] = {}
       /\ todo'[r]["report"] = Unreported(log, patched)
       /\ todo'[r]["prepare"] = Undecided(log, patched)
  BY <1>2 DEF TodoAfter, NoTodo, Stages, patched
<1>. QED
  BY <1>2, <1>3, <1>4, <1>5, <1>6, <1>8, <1>9, <1>10 DEF row, asked, open

LEMMA DecideGood ==
  ASSUME TypeInv, AttemptCounted, UNCHANGED exVars,
         NEW r \in Recoverers, Decide(r), view[r] = log,
         \A c \in Calls : CallGood(c), RecoveryGood(r)
  PROVE  RecoveryGood(r)'
<1>1. /\ RecoveryTypeOK /\ rpc[r] = "decide" /\ rpc'[r] = "settle"
      /\ tokens[r] = NoTokens
      /\ UNCHANGED <<ledger, log, lock, callback, view, tokens, current>>
  BY DEF TypeInv, TypeOK, RecoveryTypeOK, Decide, Step, RecoveryGood, TokensFit
<1>2. ASSUME NEW c \in Calls
      PROVE  RowsRead(r, c)' /\ WorkLaidOut(r, c)' /\ WorkCovers(r, c)'
  <2>. DEFINE row   == ops'[r][c]
              asked == ledger[c].state = "RUNNING" /\ Restorable(log, c)
              open  == Has(log, "tool/call", c) /\ ~Told(c)
  <2>1. /\ asked => row.state = "SUCCEEDED" /\ row.meta = "none"
        /\ ~asked => row = ledger[c]
        /\ c \in todo'[r]["repair"] <=> asked
        /\ c \notin todo'[r]["close"]
        /\ c \in todo'[r]["prepare"] <=> row.state \in ReconcileStates
        /\ c \in todo'[r]["synthesize"] <=> open /\ row.state \notin ReconcileStates
        /\ c \in todo'[r]["report"] <=>
             CommittedVerdict(row) /\ ~Has(log, Reconciled, c)
    BY DecidePoint
  <2>2. /\ ledger[c].state \in {"ABSENT", "PENDING"} => started[c] = 0
        /\ RowTrue(c) /\ MetaRight(c) /\ QuestionPut(c)
        /\ started'[c] = started[c] /\ ledger'[c] = ledger[c] /\ log' = log
    <3>1. started[c] \in Nat /\ ledger[c].attempts \in Nat
      BY CallType
    <3>2. ledger[c].state \in {"ABSENT", "PENDING"} => started[c] <= 0
      BY <3>1 DEF AttemptCounted
    <3>3. started'[c] = started[c]
      BY DEF exVars
    <3>. QED
      BY <1>1, <3>1, <3>2, <3>3 DEF CallGood
  <2>3. tokens'[r][c] = "none"
    BY <1>1 DEF NoTokens
  <2>4. CommittedVerdict(ledger[c]) => ~asked
    BY <2>2 DEF MetaRight, CommittedVerdict, Verdicts, TerminalStates
  <2>. HIDE DEF row
  <2>5. RowsRead(r, c)'
    <3>1. asked => Has(log, Question, c)
      BY RestorableAsked
    <3>2. ~asked /\ row.state = "RUNNING" => ~Restorable(log, c)
      BY <2>1
    <3>. HIDE DEF asked
    <3>3. /\ Claims(row) => Succeeded(c)'
          /\ row.state \in {"ABSENT", "PENDING"} => started'[c] = 0
          /\ row.state = "PENDING" => ledger'[c].state \in {"PENDING", "CANCELLED"}
          /\ row.state \in ReconcileStates \/ ledger'[c].state \in ReconcileStates
               => row.state = ledger'[c].state \/ c \in todo'[r]["repair"]
          /\ row.state = "RUNNING" => ~Restorable(log', c)
      BY <2>1, <2>2, <3>1, <3>2 DEF RowTrue, Claims, Succeeded
    <3>. QED
      BY <3>3 DEF RowsRead, row
  <2>6. WorkLaidOut(r, c)'
    <3>1. /\ c \in todo'[r]["repair"] => row.state = "SUCCEEDED" /\ Restorable(log', c)
          /\ c \notin todo'[r]["close"]
          /\ c \in todo'[r]["prepare"] => row.state \in ReconcileStates
          /\ c \in todo'[r]["synthesize"]
               => Has(log', "tool/call", c) /\ ~Has(log', "tool/result", c)
          /\ c \in todo'[r]["report"] => row.meta = ledger'[c].meta
      BY <2>1, <2>2 DEF CommittedVerdict, Verdicts, FinalVerdicts, Told
    <3>. QED
      BY <3>1 DEF WorkLaidOut, Told, row
  <2>7. WorkCovers(r, c)'
    <3>1. /\ Has(log', "tool/call", c) /\ ~Has(log', "tool/result", c)
               => c \in todo'[r]["synthesize"] \/ row.state \in ReconcileStates
          /\ row.state \in ReconcileStates => c \in todo'[r]["prepare"]
          /\ CommittedVerdict(ledger'[c])
               => Has(log', Reconciled, c) \/ c \in todo'[r]["report"]
      BY <2>1, <2>2, <2>4 DEF Told
    <3>. QED
      BY <2>3, <3>1 DEF WorkCovers, Told, row
  <2>. QED
    BY <2>5, <2>6, <2>7
<1>3. TokensFit(r)' /\ Serves(r)' /\ AllDealt(r)'
  BY <1>1 DEF RecoveryGood, TokensFit, Serves, AllDealt
<1>. QED
  BY <1>1, <1>2, <1>3 DEF RecoveryGood, Settled

LEMMA DonePoint ==
  ASSUME RecoveryTypeOK, NEW r \in Recoverers, NEW stage \in Stages, NEW c \in Calls,
         Done(r, stage, c)
  PROVE  /\ todo'[r][stage] = todo[r][stage] \ {c}
         /\ \A s \in Stages : s # stage => todo'[r][s] = todo[r][s]
  BY DEF RecoveryTypeOK, Done

\* A call that a step of the section is not about.
SameFor(r, d) ==
  /\ ops'[r][d] = ops[r][d] /\ ledger'[d] = ledger[d] /\ tokens'[r][d] = tokens[r][d]
  /\ \A s \in Stages : s # "close" => (d \in todo'[r][s] <=> d \in todo[r][s])
  /\ d \in todo'[r]["close"] => d \in todo[r]["close"]
  /\ Told(d)' <=> Told(d)

LEMMA SettleKept ==
  ASSUME TypeInv, NEW r \in Recoverers, NEW c \in Calls, RecoveryGood(r),
         rpc[r] = "settle", rpc'[r] = "settle", StreamAfter, UNCHANGED exVars,
         \A d \in Calls \ {c} : SameFor(r, d),
         tokens'[r][c] \in {"none", "NEED_RECONCILE"},
         RowsRead(r, c)', WorkLaidOut(r, c)', WorkCovers(r, c)'
  PROVE  RecoveryGood(r)'
<1>1. started' = started
  BY DEF exVars
<1>2. ASSUME NEW d \in Calls \ {c}
      PROVE  RowsRead(r, d)' /\ WorkLaidOut(r, d)' /\ WorkCovers(r, d)'
  <2>1. RowsRead(r, d) /\ WorkLaidOut(r, d) /\ WorkCovers(r, d)
    BY DEF RecoveryGood, Settled
  <2>2. SameFor(r, d)
    BY <1>2
  <2>3. /\ d \in todo'[r]["repair"] <=> d \in todo[r]["repair"]
        /\ d \in todo'[r]["prepare"] <=> d \in todo[r]["prepare"]
        /\ d \in todo'[r]["synthesize"] <=> d \in todo[r]["synthesize"]
        /\ d \in todo'[r]["report"] <=> d \in todo[r]["report"]
    BY <2>2 DEF SameFor, Stages
  <2>4. RowsRead(r, d)'
    BY <1>1, <2>1, <2>2, <2>3 DEF SameFor, RowsRead, Succeeded, StreamAfter
  <2>5. WorkLaidOut(r, d)'
    BY <2>1, <2>2, <2>3 DEF SameFor, WorkLaidOut, StreamAfter
  <2>6. WorkCovers(r, d)'
    BY <2>1, <2>2, <2>3 DEF SameFor, WorkCovers, StreamAfter
  <2>. QED
    BY <2>4, <2>5, <2>6
<1>3. Settled(r)'
  BY <1>2 DEF Settled
<1>4. TokensFit(r)'
  BY DEF RecoveryGood, TokensFit, SameFor
<1>5. Serves(r)' /\ AllDealt(r)'
  BY DEF Serves, AllDealt
<1>. QED
  BY <1>3, <1>4, <1>5 DEF RecoveryGood

\* Where a step of the section stands.
Standing(r, c) ==
  /\ RecoveryTypeOK /\ LedgerTypeOK /\ LogTypeOK
  /\ RowsRead(r, c) /\ WorkLaidOut(r, c) /\ WorkCovers(r, c)
  /\ MetaRight(c) /\ QuestionPut(c)
  /\ tokens[r][c] \in {"none", "NEED_RECONCILE"}
  /\ ledger[c].state \in States
  /\ ledger[c].meta \in Verdicts \cup {"unproven", "none"}
  /\ rpc \in [Recoverers -> RecoverySteps]
  /\ {"repair", "synthesize", "close", "report", "prepare"} = Stages

LEMMA AtWork ==
  ASSUME TypeInv, NEW r \in Recoverers, NEW c \in Calls, RecoveryGood(r), CallGood(c),
         rpc[r] = "settle"
  PROVE  Standing(r, c)
  BY CallType DEF RecoveryGood, Settled, TokensFit, CallGood, TypeInv, TypeOK,
     RecoveryTypeOK, Stages, Standing

LEMMA RepairGood ==
  ASSUME TypeInv, NEW r \in Recoverers, NEW c \in Calls, RecoveryGood(r), CallGood(c),
         StreamAfter, UNCHANGED exVars, Repair(r, c)
  PROVE  RecoveryGood(r)'
<1>1. /\ rpc[r] = "settle" /\ c \in todo[r]["repair"] /\ ledger[c].state = "RUNNING"
      /\ UpdateState(c, "SUCCEEDED", "ok", "none") /\ Done(r, "repair", c)
      /\ UNCHANGED <<log, lock, rpc, callback, view, ops, tokens, current>>
  BY DEF Repair, AtStage
<1>2. Standing(r, c)
  BY <1>1, AtWork
<1>. USE <1>2 DEF Standing
<1>3. /\ RowTo(c, "SUCCEEDED", "ok", "none")
      /\ \A d \in Calls \ {c} : ledger'[d] = ledger[d]
  BY <1>1, RowUpdated
<1>4. /\ todo'[r]["repair"] = todo[r]["repair"] \ {c}
      /\ \A s \in Stages : s # "repair" => todo'[r][s] = todo[r][s]
  BY <1>1, DonePoint DEF Stages
<1>5. \A d \in Calls \ {c} : SameFor(r, d)
  BY <1>1, <1>3, <1>4 DEF SameFor, Told, Stages
<1>6. /\ ledger'[c].state = "SUCCEEDED" /\ ledger'[c].meta = ledger[c].meta
      /\ ~CommittedVerdict(ledger[c])
  BY <1>1, <1>3 DEF RowTo, RowIs, Coalesce, MetaRight, CommittedVerdict, Verdicts,
     TerminalStates
<1>7. /\ ops'[r][c] = ops[r][c] /\ ops[r][c].state = "SUCCEEDED"
      /\ started'[c] = started[c] /\ log' = log /\ tokens'[r][c] = tokens[r][c]
  BY <1>1 DEF WorkLaidOut, exVars
<1>8. RowsRead(r, c)'
  BY <1>6, <1>7 DEF RowsRead, Succeeded, ReconcileStates
<1>9. WorkLaidOut(r, c)'
  BY <1>1, <1>4, <1>6, <1>7 DEF WorkLaidOut, Told, Stages
<1>10. WorkCovers(r, c)'
  BY <1>1, <1>4, <1>6, <1>7 DEF WorkCovers, Told, Stages, CommittedVerdict
<1>. QED
  BY <1>1, <1>5, <1>7, <1>8, <1>9, <1>10, SettleKept

LEMMA ClosePendingGood ==
  ASSUME TypeInv, NEW r \in Recoverers, NEW c \in Calls, RecoveryGood(r), CallGood(c),
         StreamAfter, UNCHANGED exVars, ClosePending(r, c)
  PROVE  RecoveryGood(r)'
<1>1. /\ rpc[r] = "settle" /\ c \in todo[r]["close"]
      /\ UpdateState(c, "CANCELLED", "cancelled", "none") /\ Done(r, "close", c)
      /\ UNCHANGED <<log, lock, rpc, callback, view, ops, tokens, current>>
  BY DEF ClosePending, AtStage
<1>2. Standing(r, c)
  BY <1>1, AtWork
<1>. USE <1>2 DEF Standing
<1>3. /\ RowTo(c, "CANCELLED", "cancelled", "none")
      /\ \A d \in Calls \ {c} : ledger'[d] = ledger[d]
  BY <1>1, RowUpdated
<1>4. /\ todo'[r]["close"] = todo[r]["close"] \ {c}
      /\ \A s \in Stages : s # "close" => todo'[r][s] = todo[r][s]
  BY <1>1, DonePoint DEF Stages
<1>5. \A d \in Calls \ {c} : SameFor(r, d)
  BY <1>1, <1>3, <1>4 DEF SameFor, Told, Stages
<1>6. /\ ops'[r][c] = ops[r][c] /\ ops[r][c].state = "PENDING"
      /\ ledger[c].state \in {"PENDING", "CANCELLED"}
      /\ started'[c] = started[c] /\ log' = log /\ tokens'[r][c] = tokens[r][c]
  BY <1>1 DEF WorkLaidOut, RowsRead, exVars
<1>7. ledger'[c].state = "CANCELLED" /\ ledger'[c].meta = ledger[c].meta
  BY <1>3 DEF RowTo, RowIs, Coalesce
<1>8. RowsRead(r, c)'
  BY <1>4, <1>6, <1>7 DEF RowsRead, Succeeded, ReconcileStates, Stages
<1>9. WorkLaidOut(r, c)'
  BY <1>1, <1>4, <1>6, <1>7 DEF WorkLaidOut, Told, Stages
<1>10. WorkCovers(r, c)'
  BY <1>1, <1>4, <1>6, <1>7 DEF WorkCovers, Told, Stages, CommittedVerdict
<1>. QED
  BY <1>1, <1>5, <1>6, <1>8, <1>9, <1>10, SettleKept

LEMMA SynthesizeGood ==
  ASSUME TypeInv, NEW r \in Recoverers, NEW c \in Calls, RecoveryGood(r), CallGood(c),
         StreamAfter, UNCHANGED exVars, Synthesize(r, c)
  PROVE  RecoveryGood(r)'
<1>1. /\ rpc[r] = "settle" /\ c \in todo[r]["synthesize"]
      /\ Emit(Event("tool/result", c, SynthesizedContent(ops[r][c])))
      /\ todo' = [todo EXCEPT
           ![r]["synthesize"] = @ \ {c},
           ![r]["close"] = IF ops[r][c].state = "PENDING" THEN {c} ELSE {}]
      /\ UNCHANGED <<ledger, lock, rpc, callback, ops, tokens, current>>
  BY DEF Synthesize, AtStage, Write
<1>2. Standing(r, c)
  BY <1>1, AtWork
<1>. USE <1>2 DEF Standing
<1>3. \A t, d : Has(log', t, d) <=> Has(log, t, d) \/ ("tool/result" = t /\ c = d)
  BY <1>1, HasAfterEvent
<1>4. /\ todo'[r]["synthesize"] = todo[r]["synthesize"] \ {c}
      /\ todo'[r]["close"] = IF ops[r][c].state = "PENDING" THEN {c} ELSE {}
      /\ \A s \in Stages : s # "synthesize" /\ s # "close" => todo'[r][s] = todo[r][s]
  <2>. DEFINE rest == [[todo[r] EXCEPT !["synthesize"] = @ \ {c}]
                         EXCEPT !["close"] = IF ops[r][c].state = "PENDING"
                                             THEN {c} ELSE {}]
  <2>1. todo \in [Recoverers -> [Stages -> SUBSET Calls]]
    BY DEF RecoveryTypeOK
  <2>2. todo' = [todo EXCEPT ![r] = rest]
    BY <1>1
  <2>3. todo'[r] = rest
    BY <2>1, <2>2
  <2>4. todo[r] \in [Stages -> SUBSET Calls]
    BY <2>1
  <2>. QED
    BY <2>3, <2>4 DEF Stages
<1>5. ASSUME NEW d \in Calls \ {c}
      PROVE  SameFor(r, d)
  <2>1. Told(d)' <=> Told(d)
    BY <1>3 DEF Told
  <2>2. d \notin todo'[r]["close"]
    BY <1>4
  <2>3. \A s \in Stages : s # "close" => (d \in todo'[r][s] <=> d \in todo[r][s])
    BY <1>4
  <2>. QED
    BY <1>1, <2>1, <2>2, <2>3 DEF SameFor
<1>6. /\ ops'[r][c] = ops[r][c] /\ ledger'[c] = ledger[c]
      /\ started'[c] = started[c] /\ tokens'[r][c] = tokens[r][c]
      /\ Has(log', "tool/result", c)
  BY <1>1, <1>3 DEF exVars
<1>7. RowsRead(r, c)'
  BY <1>4, <1>6 DEF RowsRead, Succeeded, StreamAfter, Stages
<1>8. WorkLaidOut(r, c)'
  <2>1. /\ c \in todo'[r]["repair"] <=> c \in todo[r]["repair"]
        /\ c \in todo'[r]["prepare"] <=> c \in todo[r]["prepare"]
        /\ c \in todo'[r]["report"] <=> c \in todo[r]["report"]
        /\ c \notin todo'[r]["synthesize"]
        /\ c \in todo'[r]["close"] => ops[r][c].state = "PENDING"
    BY <1>4
  <2>. QED
    BY <1>6, <2>1 DEF WorkLaidOut, StreamAfter
<1>9. WorkCovers(r, c)'
  BY <1>1, <1>4, <1>6 DEF WorkCovers, Told, StreamAfter, Stages
<1>. QED
  BY <1>1, <1>5, <1>6, <1>7, <1>8, <1>9, SettleKept

LEMMA ReportGood ==
  ASSUME TypeInv, NEW r \in Recoverers, NEW c \in Calls, RecoveryGood(r), CallGood(c),
         StreamAfter, UNCHANGED exVars, Report(r, c)
  PROVE  RecoveryGood(r)'
<1>1. /\ rpc[r] = "settle" /\ c \in todo[r]["report"]
      /\ Emit(Event(Reconciled, c, ops[r][c].meta)) /\ Done(r, "report", c)
      /\ UNCHANGED <<ledger, lock, rpc, callback, ops, tokens, current>>
  BY DEF Report, AtStage, Write, Reconciled
<1>2. Standing(r, c)
  BY <1>1, AtWork
<1>. USE <1>2 DEF Standing
<1>3. \A t, d : Has(log', t, d) <=> Has(log, t, d) \/ (Reconciled = t /\ c = d)
  BY <1>1, HasAfterEvent
<1>4. /\ todo'[r]["report"] = todo[r]["report"] \ {c}
      /\ \A s \in Stages : s # "report" => todo'[r][s] = todo[r][s]
  BY <1>1, DonePoint DEF Stages
<1>5. \A d : Told(d)' <=> Told(d)
  BY <1>3 DEF Told, Reconciled
<1>6. \A d \in Calls \ {c} : SameFor(r, d)
  BY <1>1, <1>4, <1>5 DEF SameFor, Stages
<1>7. /\ ops'[r][c] = ops[r][c] /\ ledger'[c] = ledger[c]
      /\ started'[c] = started[c] /\ tokens'[r][c] = tokens[r][c]
      /\ Has(log', Reconciled, c)
  BY <1>1, <1>3 DEF exVars
<1>8. RowsRead(r, c)'
  BY <1>4, <1>7 DEF RowsRead, Succeeded, StreamAfter, Stages
<1>9. WorkLaidOut(r, c)'
  BY <1>4, <1>5, <1>7 DEF WorkLaidOut, StreamAfter, Stages
<1>10. WorkCovers(r, c)'
  BY <1>4, <1>5, <1>7 DEF WorkCovers, StreamAfter, Stages
<1>. QED
  BY <1>1, <1>6, <1>7, <1>8, <1>9, <1>10, SettleKept

LEMMA MarkGood ==
  ASSUME TypeInv, NEW r \in Recoverers, NEW c \in Calls, RecoveryGood(r), CallGood(c),
         StreamAfter, UNCHANGED exVars, MarkUnknown(r, c) \/ MarkNeedReconcile(r, c)
  PROVE  RecoveryGood(r)'
<1>1. PICK s \in {"UNKNOWN", "NEED_RECONCILE"} :
        /\ UpdateState(c, s, "none", "none")
        /\ ops' = [ops EXCEPT ![r][c].state = s]
        /\ ops[r][c].state \in {"RUNNING", "UNKNOWN"}
        /\ tokens' = tokens \/ tokens' = [tokens EXCEPT ![r][c] = "NEED_RECONCILE"]
  BY DEF MarkUnknown, MarkNeedReconcile
<1>2. /\ rpc[r] = "settle" /\ c \in todo[r]["prepare"]
      /\ UNCHANGED <<log, lock, rpc, callback, view, todo, current>>
  BY DEF MarkUnknown, MarkNeedReconcile, AtStage
<1>3. Standing(r, c)
  BY <1>2, AtWork
<1>. USE <1>3 DEF Standing
<1>4. /\ RowTo(c, s, "none", "none")
      /\ \A d \in Calls \ {c} : ledger'[d] = ledger[d]
  BY <1>1, <1>2, RowUpdated
<1>5. /\ ops'[r][c] = [ops[r][c] EXCEPT !.state = s]
      /\ \A d \in Calls \ {c} : ops'[r][d] = ops[r][d]
  BY <1>1, <1>2 DEF RecoveryTypeOK
<1>6. /\ ops'[r][c].state = s /\ ops'[r][c].result = ops[r][c].result
      /\ ops'[r][c].meta = ops[r][c].meta
  <2>1. ops[r][c] \in Rows
    BY <1>2 DEF RecoveryTypeOK
  <2>. QED
    BY <1>5, <2>1 DEF Rows
<1>7. /\ tokens'[r][c] \in {tokens[r][c], "NEED_RECONCILE"}
      /\ \A d \in Calls \ {c} : tokens'[r][d] = tokens[r][d]
  BY <1>1, <1>2 DEF RecoveryTypeOK
<1>8. \A d \in Calls \ {c} : SameFor(r, d)
  BY <1>2, <1>4, <1>5, <1>7 DEF SameFor, Told
<1>9. ledger'[c].state = s /\ ledger'[c].meta = ledger[c].meta
  BY <1>4 DEF RowTo, RowIs, Coalesce
<1>10. /\ started'[c] = started[c] /\ log' = log /\ todo' = todo
      /\ ledger[c].state = ops[r][c].state
  BY <1>1, <1>2 DEF exVars, RowsRead, WorkLaidOut, ReconcileStates
<1>11. RowsRead(r, c)'
  BY <1>1, <1>2, <1>6, <1>9, <1>10 DEF RowsRead, Claims, Succeeded, ReconcileStates
<1>12. WorkLaidOut(r, c)'
  BY <1>1, <1>2, <1>6, <1>9, <1>10 DEF WorkLaidOut, Told, ReconcileStates
<1>13. WorkCovers(r, c)'
  BY <1>1, <1>2, <1>6, <1>9, <1>10 DEF WorkCovers, Told, CommittedVerdict,
     ReconcileStates
<1>. QED
  BY <1>2, <1>7, <1>8, <1>11, <1>12, <1>13, SettleKept

LEMMA RequestGood ==
  ASSUME TypeInv, NEW r \in Recoverers, NEW c \in Calls, RecoveryGood(r), CallGood(c),
         view[r] = log, StreamAfter, UNCHANGED exVars, Request(r, c)
  PROVE  RecoveryGood(r)'
<1>1. /\ rpc[r] = "settle" /\ c \in todo[r]["prepare"]
      /\ ops[r][c].state \notin {"RUNNING", "UNKNOWN"}
      /\ tokens' = [tokens EXCEPT ![r][c] = IF @ = "none" THEN ledger[c].state ELSE @]
      /\ \/ UNCHANGED log /\ Has(log, Required, c)
         \/ Emit(Event(Required, c, "none"))
      /\ Done(r, "prepare", c)
      /\ UNCHANGED <<ledger, lock, rpc, callback, ops, current>>
  BY DEF Request, AtStage, Announced, Write, Required
<1>2. Standing(r, c)
  BY <1>1, AtWork
<1>. USE <1>2 DEF Standing
<1>3. /\ Has(log', Required, c)
      /\ \A d : Told(d)' <=> Told(d)
  <2>1. CASE UNCHANGED log /\ Has(log, Required, c)
    BY <2>1 DEF Told
  <2>2. CASE Emit(Event(Required, c, "none"))
    <3>1. \A t, d : Has(log', t, d) <=> Has(log, t, d) \/ (Required = t /\ c = d)
      BY <1>1, <2>2, HasAfterEvent
    <3>. QED
      BY <3>1 DEF Told, Required
  <2>. QED
    BY <1>1, <2>1, <2>2
<1>4. /\ todo'[r]["prepare"] = todo[r]["prepare"] \ {c}
      /\ \A s \in Stages : s # "prepare" => todo'[r][s] = todo[r][s]
  BY <1>1, DonePoint DEF Stages
<1>5. /\ tokens'[r][c] = IF tokens[r][c] = "none" THEN ledger[c].state ELSE tokens[r][c]
      /\ \A d \in Calls \ {c} : tokens'[r][d] = tokens[r][d]
  BY <1>1 DEF RecoveryTypeOK
<1>6. ledger[c].state = "NEED_RECONCILE" /\ ops[r][c].state = "NEED_RECONCILE"
  BY <1>1 DEF RowsRead, WorkLaidOut, ReconcileStates
<1>7. \A d \in Calls \ {c} : SameFor(r, d)
  BY <1>1, <1>3, <1>4, <1>5 DEF SameFor, Stages
<1>8. /\ ops'[r][c] = ops[r][c] /\ ledger'[c] = ledger[c]
      /\ started'[c] = started[c] /\ tokens'[r][c] = "NEED_RECONCILE"
  BY <1>1, <1>5, <1>6 DEF exVars
<1>9. RowsRead(r, c)'
  BY <1>1, <1>4, <1>8 DEF RowsRead, Succeeded, StreamAfter, Stages
<1>10. WorkLaidOut(r, c)'
  BY <1>1, <1>3, <1>4, <1>8 DEF WorkLaidOut, StreamAfter, Stages
<1>11. WorkCovers(r, c)'
  BY <1>1, <1>3, <1>4, <1>8 DEF WorkCovers, StreamAfter, Stages
<1>. QED
  BY <1>1, <1>7, <1>8, <1>9, <1>10, <1>11, SettleKept

-----------------------------------------------------------------------------
(* The other steps of a recovery.                                           *)

LEMMA OutsideGood ==
  ASSUME TypeInv, NEW r \in Recoverers, RecoveryGood(r),
         \/ \E k \in CallbackKinds : Start(r, k)
         \/ Acquire(r) \/ ResumeAtOnce(r) \/ ResumeAfterVerdicts(r)
         \/ Leave(r) \/ Refuse(r)
  PROVE  RecoveryGood(r)'
<1>1. RecoveryTypeOK /\ TokensFit(r)
  BY DEF TypeInv, TypeOK, RecoveryGood
<1>2. rpc'[r] \in {"idle", "acquire", "decide"} /\ tokens'[r] = NoTokens
  BY <1>1 DEF Start, Acquire, ResumeAtOnce, ResumeAfterVerdicts, Leave, Refuse, Step,
     RecoveryTypeOK, TokensFit
<1>3. TokensFit(r)'
  BY <1>2 DEF TokensFit, NoTokens
<1>. QED
  BY <1>2, <1>3 DEF RecoveryGood, Settled, Serves, AllDealt

LEMMA AskVerdictsGood ==
  ASSUME TypeInv, NEW r \in Recoverers, RecoveryGood(r), AskVerdicts(r)
  PROVE  RecoveryGood(r)'
<1>1. /\ RecoveryTypeOK /\ rpc[r] = "settle" /\ rpc'[r] = "ask" /\ todo[r] = NoTodo
      /\ ledger' = ledger /\ log' = log /\ tokens' = tokens
  BY DEF TypeInv, TypeOK, RecoveryTypeOK, AskVerdicts, Step
<1>2. ASSUME NEW c \in Calls
      PROVE  /\ tokens[r][c] # "none" => Has(log, Required, c)
             /\ tokens[r][c] = "none" => Dealt(c)
  <2>1. RowsRead(r, c) /\ WorkLaidOut(r, c) /\ WorkCovers(r, c)
    BY <1>1 DEF RecoveryGood, Settled
  <2>2. \A s \in Stages : c \notin todo[r][s]
    BY <1>1 DEF NoTodo
  <2>. QED
    BY <2>1, <2>2 DEF RowsRead, WorkCovers, Dealt, Stages
<1>3. TokensFit(r)' /\ Settled(r)'
  BY <1>1 DEF RecoveryGood, TokensFit, Settled
<1>4. Serves(r)'
  BY <1>1, <1>2 DEF Serves
<1>5. AllDealt(r)'
  BY <1>1, <1>2 DEF AllDealt, Dealt, Told, Deferred
<1>. QED
  BY <1>3, <1>4, <1>5 DEF RecoveryGood

LEMMA ResolveGood ==
  ASSUME TypeInv, NEW r \in Recoverers, RecoveryGood(r),
         NEW c \in Calls, NEW v \in Verdicts, Resolve(r, c, v)
  PROVE  RecoveryGood(r)'
<1>1. /\ RecoveryTypeOK /\ rpc[r] = "ask" /\ rpc'[r] = "reacquire"
      /\ tokens[r][c] # "none" /\ current'[r] = [call |-> c, verdict |-> v]
      /\ ledger' = ledger /\ log' = log /\ tokens' = tokens
  BY DEF TypeInv, TypeOK, RecoveryTypeOK, Resolve, Step
<1>2. TokensFit(r)' /\ Settled(r)'
  BY <1>1 DEF RecoveryGood, TokensFit, Settled
<1>3. Serves(r)'
  BY <1>1 DEF RecoveryGood, Serves
<1>4. AllDealt(r)'
  BY <1>1 DEF RecoveryGood, AllDealt, Serving, Dealt, Told, Deferred
<1>. QED
  BY <1>2, <1>3, <1>4 DEF RecoveryGood

LEMMA ReacquireGood ==
  ASSUME TypeInv, NEW r \in Recoverers, RecoveryGood(r),
         \A d \in Calls : CallGood(d), Reacquire(r)
  PROVE  RecoveryGood(r)'
<1>. DEFINE c == current[r].call
<1>1. /\ RecoveryTypeOK /\ rpc[r] = "reacquire" /\ rpc'[r] = "commit"
      /\ tokens[r][c] = ledger[c].state /\ current' = current
      /\ tokens' = [tokens EXCEPT ![r][c] = "none"]
      /\ ops' = [ops EXCEPT ![r][c] = ledger[c]]
      /\ ledger' = ledger /\ log' = log
  BY DEF TypeInv, TypeOK, RecoveryTypeOK, Reacquire, Matches, Step
<1>2. c \in Calls
  BY <1>1 DEF TypeInv, ServesRequest
<1>. HIDE DEF c
<1>3. /\ tokens'[r][c] = "none" /\ ops'[r][c] = ledger[c]
      /\ \A d \in Calls \ {c} : tokens'[r][d] = tokens[r][d]
  BY <1>1, <1>2 DEF RecoveryTypeOK
<1>4. ledger[c].state = "NEED_RECONCILE" /\ Has(log, Required, c)
  BY <1>1, <1>2 DEF RecoveryGood, TokensFit, Serves, c
<1>5. Claims(ledger[c]) => Succeeded(c)
  BY <1>2 DEF CallGood, RowTrue
<1>6. TokensFit(r)' /\ Settled(r)'
  BY <1>1, <1>3 DEF RecoveryGood, TokensFit, Settled
<1>7. Judged(r)'
  BY <1>1, <1>3, <1>4, <1>5 DEF Judged, c, Succeeded
<1>8. Serves(r)'
  BY <1>1, <1>3, <1>7 DEF RecoveryGood, Serves
<1>9. AllDealt(r)'
  <2>. SUFFICES ASSUME NEW d \in Calls, tokens'[r][d] = "none", ~Serving(r, d)'
                PROVE  Dealt(d)'
    BY DEF AllDealt
  <2>1. d # c
    BY <1>1 DEF Serving, c
  <2>2. Dealt(d)
    BY <1>1, <1>3, <2>1 DEF RecoveryGood, AllDealt, Serving
  <2>. QED
    BY <1>1, <2>2 DEF Dealt, Told, Deferred
<1>. QED
  BY <1>6, <1>8, <1>9 DEF RecoveryGood

\* The steps in which the served verdict is written: the row, then the answer.
LEMMA ServeGood ==
  ASSUME TypeInv, OneInside, FreshView, NEW r \in Recoverers, RecoveryGood(r),
         \A d \in Calls : RecoveredRow(d), StreamAfter,
         CommitVerdict(r) \/ PairResult(r)
  PROVE  RecoveryGood(r)'
<1>1. /\ RecoveryTypeOK /\ LedgerTypeOK /\ LogTypeOK
      /\ rpc[r] \in {"commit", "pair"} /\ current' = current
      /\ rpc[r] = "commit" => rpc'[r] = "pair"
      /\ rpc[r] = "pair" => rpc'[r] = "conclude"
      /\ tokens' = tokens /\ ops' = ops
  BY DEF TypeInv, TypeOK, RecoveryTypeOK, CommitVerdict, PairResult, Step
<1>2. PICK c \in Calls, v \in Verdicts : c = current[r].call /\ v = current[r].verdict
  BY <1>1 DEF TypeInv, ServesRequest
<1>3. Judged(r)
  BY <1>1 DEF RecoveryGood, Serves
<1>4. ledger'[c].state = Target(v)
  <2>1. CASE CommitVerdict(r)
    <3>1. UpdateState(c, Target(v), VerdictContent(ops[r][c], v), v)
      BY <1>2, <2>1 DEF CommitVerdict
    <3>. QED
      BY <1>1, <1>2, <3>1, RowUpdated DEF RowTo, RowIs
  <2>2. CASE PairResult(r)
    BY <1>2, <1>3, <2>2 DEF PairResult, Judged
  <2>. QED
    BY <2>1, <2>2
<1>5. rpc'[r] = "conclude" /\ v # "DEFER" => Told(c)'
  <2>. SUFFICES ASSUME PairResult(r), v # "DEFER" PROVE Told(c)'
    BY <1>1 DEF CommitVerdict, PairResult
  <2>1. view[r] = log
    BY DEF PairResult, FreshView, Inside
  <2>2. \/ log' = log /\ Has(log, "tool/result", c)
        \/ Emit(Event("tool/result", c, VerdictContent(ops[r][c], v)))
    BY <1>2, <2>1 DEF PairResult, Paired, Write
  <2>3. ASSUME NEW info, Emit(Event("tool/result", c, info))
        PROVE  Has(log', "tool/result", c)
    BY <1>1, <2>3, HasAfterEvent
  <2>. QED
    BY <2>2, <2>3 DEF Told
<1>6. Claims(ops'[r][c]) => Succeeded(c)'
  <2>1. Claims(ops[r][c]) => Succeeded(c)
    BY <1>2, <1>3 DEF Judged
  <2>2. CASE CommitVerdict(r)
    <3>1. ledger[c].state = "NEED_RECONCILE"
      BY <1>2, <1>3, <2>2 DEF CommitVerdict, Judged
    <3>2. Has(log, Question, c) => Has(log', Question, c)
      BY DEF StreamAfter
    <3>. QED
      BY <1>1, <2>1, <3>1, <3>2 DEF Succeeded
  <2>3. CASE PairResult(r)
    <3>1. ledger' = ledger
      BY <2>3 DEF PairResult
    <3>2. Has(log, Question, c) => Has(log', Question, c)
      BY DEF StreamAfter
    <3>. QED
      BY <1>1, <2>1, <3>1, <3>2 DEF Succeeded
  <2>. QED
    BY <2>2, <2>3
<1>7. Has(log', Required, c)
  BY <1>2, <1>3 DEF Judged, StreamAfter
<1>8. Judged(r)'
  BY <1>1, <1>2, <1>4, <1>5, <1>6, <1>7 DEF Judged
<1>9. TokensFit(r)' /\ Settled(r)'
  BY <1>1 DEF RecoveryGood, TokensFit, Settled
<1>10. Serves(r)'
  BY <1>1, <1>8 DEF RecoveryGood, Serves, StreamAfter
<1>11. AllDealt(r)'
  <2>. SUFFICES ASSUME NEW d \in Calls, tokens'[r][d] = "none", ~Serving(r, d)'
                PROVE  Dealt(d)'
    BY DEF AllDealt
  <2>1. Dealt(d)
    BY <1>1 DEF RecoveryGood, AllDealt, Serving
  <2>. QED
    BY <2>1, DealtKept
<1>. QED
  BY <1>9, <1>10, <1>11 DEF RecoveryGood

LEMMA ConcludeGood ==
  ASSUME TypeInv, StreamGood, FreshView, NEW r \in Recoverers, RecoveryGood(r),
         \A d \in Calls : RecoveredRow(d), StreamAfter, Conclude(r)
  PROVE  RecoveryGood(r)'
<1>1. /\ RecoveryTypeOK /\ LogTypeOK /\ rpc[r] = "conclude" /\ tokens' = tokens
      /\ rpc'[r] = IF tokens[r] = NoTokens THEN "last" ELSE "ask"
  BY DEF TypeInv, TypeOK, RecoveryTypeOK, Conclude, Step
<1>2. PICK c \in Calls, v \in Verdicts : c = current[r].call /\ v = current[r].verdict
  BY <1>1 DEF TypeInv, ServesRequest
<1>3. \/ log' = log /\ Has(log, Reconciled, c)
      \/ Emit(Event(Reconciled, c, v))
  BY <1>2 DEF Conclude, FreshView, Inside, Reconciled
<1>4. v # "DEFER" => Told(c)
  BY <1>1, <1>2 DEF RecoveryGood, Serves, Judged
<1>5. Has(log', Reconciled, c)
  BY <1>1, <1>3, HasAfterEvent
<1>6. ~Told(c)' => Deferred(c)'
  <2>. SUFFICES ASSUME ~Told(c)' PROVE Deferred(c)'
    OBVIOUS
  <2>0. Told(c) => Told(c)'
    BY DEF StreamAfter
  <2>1. ~Told(c) /\ v = "DEFER"
    BY <1>4, <2>0
  <2>2. CASE log' = log /\ Has(log, Reconciled, c)
    <3>1. PICK i \in DOMAIN log : log[i].type = Reconciled /\ log[i].call = c
      BY <2>2 DEF Has
    <3>2. log[i].info = "DEFER"
      BY <2>1, <3>1 DEF StreamGood, VerdictsInOrder
    <3>3. log[i] \in Events
      BY <1>1 DEF LogTypeOK
    <3>4. log[i] = Event(Reconciled, c, "DEFER")
      BY <3>1, <3>2, <3>3 DEF Events, Event
    <3>5. i \in DOMAIN log' /\ log'[i] = Event("operation/reconciled", c, "DEFER")
      BY <2>2, <3>1, <3>4 DEF Reconciled
    <3>. QED
      BY <3>5 DEF Deferred
  <2>3. CASE Emit(Event(Reconciled, c, v))
    <3>. DEFINE e == Event(Reconciled, c, v)
    <3>1. Emit(e) /\ e = Event("operation/reconciled", c, "DEFER")
      BY <2>1, <2>3 DEF Reconciled
    <3>. HIDE DEF e
    <3>2. Len(log) + 1 \in DOMAIN log' /\ log'[Len(log) + 1] = e
      BY <1>1, <3>1, Appended
    <3>3. \E i \in DOMAIN log' : log'[i] = Event("operation/reconciled", c, "DEFER")
      BY <3>1, <3>2
    <3>. QED
      BY <3>3 DEF Deferred
  <2>. QED
    BY <1>3, <2>2, <2>3
<1>7. TokensFit(r)' /\ Settled(r)'
  BY <1>1 DEF RecoveryGood, TokensFit, Settled
<1>8. Serves(r)'
  BY <1>1 DEF RecoveryGood, Serves, StreamAfter
<1>9. AllDealt(r)'
  <2>. SUFFICES ASSUME NEW d \in Calls, tokens'[r][d] = "none"
                PROVE  Dealt(d)'
    BY DEF AllDealt
  <2>1. CASE d = c
    <3>1. Has(log', Reconciled, d) /\ (~Told(d)' => Deferred(d)')
      BY <1>5, <1>6, <2>1
    <3>. QED
      BY <3>1 DEF Dealt
  <2>2. CASE d # c
    <3>1. Dealt(d)
      BY <1>1, <1>2, <2>2 DEF RecoveryGood, AllDealt, Serving
    <3>. QED
      BY <3>1, DealtKept
  <2>. QED
    BY <2>1, <2>2
<1>. QED
  BY <1>7, <1>8, <1>9 DEF RecoveryGood

-----------------------------------------------------------------------------
(* The whole invariant.                                                     *)

Good ==
  /\ Calm /\ StreamGood /\ OneInside /\ FreshView
  /\ \A c \in Calls : CallGood(c)
  /\ \A r \in Recoverers : RecoveryGood(r)

\* The first lock section, one step at a time.
LEMMA SettlingGood ==
  ASSUME TypeInv, FreshView, NEW r \in Recoverers, NEW c \in Calls, RecoveryGood(r),
         CallGood(c), StreamAfter, UNCHANGED exVars,
         \/ Repair(r, c) \/ Synthesize(r, c) \/ ClosePending(r, c) \/ Report(r, c)
         \/ MarkUnknown(r, c) \/ MarkNeedReconcile(r, c) \/ Request(r, c)
  PROVE  RecoveryGood(r)'
<1>1. CASE Request(r, c)
  <2>1. view[r] = log
    BY <1>1 DEF Request, AtStage, FreshView, Inside
  <2>. QED
    BY <1>1, <2>1, RequestGood
<1>. QED
  BY <1>1, RepairGood, SynthesizeGood, ClosePendingGood, ReportGood, MarkGood

LEMMA RecoveryStepGood ==
  ASSUME TypeInv, AttemptCounted, CallEventFirst, Good, run = "ended",
         NEW r \in Recoverers, RecoveryMoves(r)
  PROVE  Good'
<1>1. /\ StreamGood /\ OneInside /\ FreshView /\ RecoveryGood(r)
      /\ \A c \in Calls : CallGood(c)
      /\ UNCHANGED exVars
  BY DEF Good, RecoveryMoves
<1>2. RecoveryWrites
  BY <1>1, RecoveryWritesRight
<1>3. StreamGood' /\ StreamAfter
  BY <1>1, <1>2, RecoveryKeepsStream
<1>4. \A c \in Calls : RecoveredRow(c)
  BY <1>1, RecoveredRows
<1>5. ASSUME NEW c \in Calls
      PROVE  CallGood(c)'
  <2>1. /\ Has(log', Question, c) <=> Has(log, Question, c)
        /\ Restorable(log', c) <=> Restorable(log, c)
        /\ Has(log, Required, c) => Has(log', Required, c)
    BY <1>3 DEF StreamAfter
  <2>. QED
    BY <1>1, <1>4, <2>1, RecoveredRowGood
<1>6. OneInside' /\ FreshView'
  BY <1>1, LockStep, ViewStep
<1>7. Calm'
  BY <1>1 DEF Calm, exVars
<1>8. ASSUME NEW q \in Recoverers \ {r}
      PROVE  RecoveryGood(q)'
  BY <1>1, <1>3, <1>4, AsideGood DEF Good
<1>9. RecoveryGood(r)'
  <2>1. CASE Decide(r)
    <3>1. view[r] = log
      BY <1>1, <2>1 DEF Decide, FreshView, Inside
    <3>. QED
      BY <1>1, <2>1, <3>1, DecideGood
  <2>2. CASE AskVerdicts(r)
    BY <1>1, <2>2, AskVerdictsGood
  <2>3. CASE Reacquire(r)
    BY <1>1, <2>3, ReacquireGood
  <2>4. CASE CommitVerdict(r) \/ PairResult(r)
    BY <1>1, <1>3, <1>4, <2>4, ServeGood
  <2>5. CASE Conclude(r)
    BY <1>1, <1>3, <1>4, <2>5, ConcludeGood
  <2>6. ASSUME NEW c \in Calls,
               \/ Repair(r, c) \/ Synthesize(r, c) \/ ClosePending(r, c)
               \/ Report(r, c) \/ MarkUnknown(r, c) \/ MarkNeedReconcile(r, c)
               \/ Request(r, c)
        PROVE  RecoveryGood(r)'
    BY <1>1, <1>3, <2>6, SettlingGood
  <2>7. ASSUME NEW c \in Calls, NEW v \in Verdicts, Resolve(r, c, v)
        PROVE  RecoveryGood(r)'
    BY <1>1, <2>7, ResolveGood
  <2>8. CASE \/ \E k \in CallbackKinds : Start(r, k)
             \/ Acquire(r) \/ ResumeAtOnce(r) \/ ResumeAfterVerdicts(r)
             \/ Leave(r) \/ Refuse(r)
    BY <1>1, <2>8, OutsideGood
  <2>. QED
    BY <2>1, <2>2, <2>3, <2>4, <2>5, <2>6, <2>7, <2>8 DEF RecoveryMoves, Advance
<1>. QED
  BY <1>3, <1>5, <1>6, <1>7, <1>8, <1>9 DEF Good

\* A recovery that does nothing knows nothing.
LEMMA IdleGood ==
  ASSUME \A r \in Recoverers : rpc'[r] = "idle" /\ tokens'[r] = NoTokens
  PROVE  /\ \A r \in Recoverers : RecoveryGood(r)'
         /\ FreshView' /\ Calm'
         /\ lock' = NoOne => OneInside'
<1>1. ASSUME NEW r \in Recoverers
      PROVE  RecoveryGood(r)'
  BY DEF RecoveryGood, TokensFit, NoTokens, Settled, Serves, AllDealt
<1>2. FreshView' /\ Calm'
  BY DEF FreshView, Calm, Inside
<1>3. lock' = NoOne => OneInside'
  BY RecoveryAssumption DEF OneInside, Inside
<1>. QED
  BY <1>1, <1>2, <1>3

LEMMA RunStepGood ==
  ASSUME TypeInv, Good, run # "ended", RunMoves
  PROVE  Good'
<1>1. \A r \in Recoverers : rpc'[r] = "idle" /\ tokens'[r] = NoTokens
  BY DEF Good, Calm, RecoveryGood, TokensFit, RunMoves, rcVars
<1>2. OneInside'
  BY DEF Good, OneInside, Inside, RunMoves, rcVars
<1>3. /\ \A c \in Calls : CallGood(c)'
      /\ StreamGood'
  BY RunKeepsCalls, RunKeepsStream DEF Good
<1>. QED
  BY <1>1, <1>2, <1>3, IdleGood DEF Good

LEMMA CrashGood ==
  ASSUME TypeInv, Good, Crash
  PROVE  Good'
<1>1. /\ run' = "ended" /\ ledger' = ledger /\ log' = log
      /\ \A r \in Recoverers : rpc'[r] = "idle" /\ tokens'[r] = NoTokens
      /\ lock' = NoOne
  BY DEF Crash, ExecutorDies, RecoveryDies
<1>2. StreamGood'
  BY <1>1 DEF Good, StreamGood, AnswersLast, OneAnswer, VerdictsInOrder, Told
<1>3. ASSUME NEW c \in Calls
      PROVE  CallGood(c)'
  <2>1. /\ pc'[c] = "gone" /\ outcome'[c] = "none" /\ started'[c] = started[c]
        /\ UnseenIfEntered(c)
    BY DEF Crash, ExecutorDies, UnseenIfEntered
  <2>2. CallGood(c) /\ started[c] \in Nat
    BY CallType DEF Good
  <2>3. ToolEntered(c) => ledger[c].state = "RUNNING"
    BY <2>2 DEF CallGood, FlightInRun, RowFits, ToolEntered, InFlight
  <2>4. RowFits(c)' /\ FlightInRun(c)' /\ OutcomeTrue(c)'
    BY <1>1, <2>1 DEF RowFits, FlightInRun, OutcomeTrue, InFlight
  <2>5. Entered(c)' /\ Undoubted(c)'
    BY <2>1, <2>2 DEF CallGood, Entered, Undoubted, UnseenIfEntered, ToolEntered
  <2>6. Held(c)'
    BY <1>1, <2>1, <2>2, <2>3
       DEF CallGood, Held, UnseenIfEntered, TerminalStates
  <2>7. QuestionPut(c)' /\ SuccessAsked(c)' /\ RowTrue(c)'
    BY <1>1, <2>2 DEF CallGood, QuestionPut, SuccessAsked, RowTrue, Succeeded
  <2>8. MetaRight(c)'
    BY <1>1, <2>2 DEF CallGood, MetaRight
  <2>. QED
    BY <2>4, <2>5, <2>6, <2>7, <2>8 DEF CallGood
<1>. QED
  BY <1>1, <1>2, <1>3, IdleGood DEF Good

LEMMA StutterGood ==
  ASSUME TypeInv, Good, UNCHANGED vars
  PROVE  Good'
<1>. USE DEF Good
<1>1. /\ ledger' = ledger /\ log' = log /\ run' = run /\ cursor' = cursor /\ pc' = pc
      /\ outcome' = outcome /\ started' = started /\ doubt' = doubt /\ lock' = lock
      /\ rpc' = rpc /\ view' = view /\ ops' = ops /\ todo' = todo
      /\ tokens' = tokens /\ current' = current
  BY DEF vars, exVars, rcVars
<1>2. Calm' /\ OneInside' /\ FreshView'
  BY <1>1 DEF Calm, OneInside, FreshView, Inside
<1>3. StreamGood'
  BY <1>1 DEF StreamGood, AnswersLast, OneAnswer, VerdictsInOrder, Told
<1>4. ASSUME NEW c \in Calls
      PROVE  CallGood(c)'
  <2>1. Unmoved(c)
    BY <1>1 DEF Unmoved
  <2>2. run \notin {"exec", "cancelling"} => ~InFlight(c)
    BY DEF CallGood, FlightInRun
  <2>. QED
    BY <1>1, <2>1, <2>2, UnmovedKeeps
<1>5. ASSUME NEW r \in Recoverers
      PROVE  RecoveryGood(r)'
  <2>1. TokensFit(r)'
    BY <1>1 DEF RecoveryGood, TokensFit
  <2>. USE DEF Succeeded, Told
  <2>2. Settled(r)'
    BY <1>1 DEF RecoveryGood, Settled, RowsRead, WorkLaidOut, WorkCovers
  <2>3. Serves(r)'
    BY <1>1 DEF RecoveryGood, Serves, Judged
  <2>4. AllDealt(r)'
    BY <1>1 DEF RecoveryGood, AllDealt, Serving, Dealt, Deferred
  <2>. QED
    BY <2>1, <2>2, <2>3, <2>4 DEF RecoveryGood
<1>. QED
  BY <1>2, <1>3, <1>4, <1>5

LEMMA GoodInit == Init => Good
<1>. SUFFICES ASSUME Init PROVE Good
  OBVIOUS
<1>. USE DEF Init, LedgerInit, LogInit, ExecutorInit, RecoveryInit
<1>1. ~\E t, c : Has(log, t, c)
  BY DEF Has
<1>2. Calm /\ FreshView /\ OneInside
  BY RecoveryAssumption DEF Calm, FreshView, OneInside, Inside
<1>3. StreamGood
  BY <1>1 DEF StreamGood, AnswersLast, Told, OneAnswer, VerdictsInOrder
<1>4. ASSUME NEW c \in Calls
      PROVE  CallGood(c)
  <2>1. /\ ledger[c].state = "ABSENT" /\ ledger[c].result = "none"
        /\ ledger[c].meta = "none"
        /\ pc[c] = "wait" /\ outcome[c] = "none" /\ started[c] = 0
        /\ doubt[c] = "none" /\ run = "emit"
        /\ ~Has(log, Question, c) /\ ~Restorable(log, c)
    BY <1>1, RestorableAsked DEF NoRow
  <2>2. RowFits(c) /\ FlightInRun(c) /\ OutcomeTrue(c) /\ Entered(c) /\ Undoubted(c)
    BY <2>1 DEF RowFits, FlightInRun, OutcomeTrue, Entered, Undoubted, InFlight,
       ToolEntered
  <2>3. Held(c) /\ QuestionPut(c) /\ SuccessAsked(c) /\ RowTrue(c) /\ MetaRight(c)
    BY <2>1 DEF Held, QuestionPut, SuccessAsked, RowTrue, Claims, MetaRight,
       CommittedVerdict, Verdicts, FinalVerdicts
  <2>. QED
    BY <2>2, <2>3 DEF CallGood
<1>5. ASSUME NEW r \in Recoverers
      PROVE  RecoveryGood(r)
  BY DEF RecoveryGood, TokensFit, NoTokens, Settled, Serves, AllDealt
<1>. QED
  BY <1>2, <1>3, <1>4, <1>5 DEF Good

\* What finalize_execution needs: every call is done, and has a result in memory.
Ready(c) ==
  /\ run # "ended" /\ pc[c] \in {"returned", "asked", "done"} => outcome[c] # "none"
  /\ run = "finalize" => pc[c] = "done" /\ Has(log, "tool/call", c)

LEMMA ReadyStep ==
  ASSUME TypeInv, BatchAnnounced, [Next]_vars, NEW c \in Calls, Ready(c),
         \/ RunMoves
         \/ UNCHANGED exVars
         \/ Crash
  PROVE  Ready(c)'
<1>1. pc[c] \in CallPhases /\ outcome[c] \in Outcomes /\ LogTypeOK
  BY CallType
<1>2. Has(log, "tool/call", c) => Has(log', "tool/call", c)
  BY <1>1, NextLog, HasKept
<1>3. CASE UNCHANGED exVars
  BY <1>2, <1>3 DEF Ready, exVars
<1>4. CASE Crash
  BY <1>4 DEF Ready, Crash, ExecutorDies
<1>5. CASE BatchMoves
  BY <1>2, <1>5 DEF Ready, BatchMoves, EmitCall, CompleteModel, EmitResult, BatchRaises,
     CancelEnds, CancelRun, BatchAnnounced
<1>6. ASSUME NEW d \in Calls, CallMoves(d)
      PROVE  Ready(c)'
  <2>1. /\ OwnStep(d) /\ run' = run /\ run \in {"exec", "cancelling"}
        /\ c # d => Unmoved(c)
    BY <1>6, CallStep
  <2>2. CASE c # d
    BY <2>1, <2>2 DEF Ready, Unmoved
  <2>3. CASE c = d
    BY <1>1, <2>1, <2>3 DEF Ready, OwnStep, Admitting, Preparing, Entering, Answering,
       Asking, Settling, Raising, Cancelling, Settleable, AfterRaise
  <2>. QED
    BY <2>2, <2>3
<1>. QED
  BY <1>3, <1>4, <1>5, <1>6 DEF RunMoves

\* Once a recovery has overlapped with the run, it stays so.
LEMMA OverlapStays ==
  ASSUME TypeInv, [Next]_vars, ~overlap'
  PROVE  ~overlap
  BY DEF Next, ExecutorStep, ToolMisbehaves, RecoverCalled, RecoveryStep, FaultStep,
     Fault, vars, bounds

Alone == Good /\ \A c \in Calls : Ready(c)

LEMMA AloneStep ==
  ASSUME TypeInv, AttemptCounted, BatchAnnounced, CallEventFirst, [Next]_vars,
         ~overlap => Alone
  PROVE  ~overlap' => Alone'
<1>. SUFFICES ASSUME ~overlap' PROVE Alone'
  OBVIOUS
<1>1. ~overlap /\ Good /\ \A c \in Calls : Ready(c)
  BY OverlapStays DEF Alone
<1>2. \/ RunMoves /\ run # "ended"
      \/ run = "ended" /\ \E r \in Recoverers : RecoveryMoves(r)
      \/ Crash
      \/ UNCHANGED vars
  BY <1>1, KindsOfSteps DEF Good
<1>3. Good'
  BY <1>1, <1>2, RunStepGood, RecoveryStepGood, CrashGood, StutterGood
<1>4. RunMoves \/ UNCHANGED exVars \/ Crash
  BY <1>2 DEF RecoveryMoves, vars
<1>5. \A c \in Calls : Ready(c)'
  BY <1>1, <1>4, ReadyStep
<1>. QED
  BY <1>3, <1>5 DEF Alone

LEMMA AloneInit == Init => Alone
<1>. SUFFICES ASSUME Init PROVE Alone
  OBVIOUS
<1>1. ASSUME NEW c \in Calls
      PROVE  Ready(c)
  BY DEF Init, ExecutorInit, Ready
<1>. QED
  BY <1>1, GoodInit DEF Alone

\* Everything that is known of a state, in one piece.
Known ==
  /\ TypeInv /\ AttemptCounted /\ BatchAnnounced /\ CallEventFirst
  /\ ~overlap => Alone

LEMMA AnnouncedInit == Init => BatchAnnounced
  BY DEF Init, ExecutorInit, BatchAnnounced

LEMMA KnownAlways == Spec => []Known
<1>1. Init => AttemptCounted /\ BatchAnnounced /\ (~overlap => Alone)
  BY AttemptInit, AnnouncedInit, AloneInit
<1>2. TypeInv /\ AttemptCounted /\ BatchAnnounced /\ [Next]_vars
        => AttemptCounted' /\ BatchAnnounced'
  BY AttemptStep, AnnouncedStep
<1>3. TypeInv /\ AttemptCounted /\ BatchAnnounced /\ CallEventFirst /\ [Next]_vars
        /\ (~overlap => Alone) => (~overlap' => Alone')
  BY AloneStep
<1>4. TypeInv /\ AttemptCounted /\ BatchAnnounced /\ CallEventFirst
        /\ (~overlap => Alone) => Known
  BY DEF Known
<1>. QED
  BY <1>1, <1>2, <1>3, <1>4, TypeInit, TypeStep, CallEventFirstHolds, PTL DEF Spec

-----------------------------------------------------------------------------
(* The invariants.                                                          *)

\* A question to the user is neither lost between the tool and the session nor
\* taken for granted, for every batch, crash, cancellation and recovery, unless a
\* recovery came while the call was still asking: a row that says on its own that
\* the question was put has it in the stream, a question that can be restored
\* never ends up in a verdict, and any other, a plan approval above all, whose
\* row the executor failed to settle is ended by a verdict only.
THEOREM QuestionIsNotLost == Spec => []QuestionNotLost
<1>1. Known => QuestionNotLost
  <2>. SUFFICES ASSUME Known, ~overlap, NEW c \in UserInput
                PROVE  /\ ledger[c].state = "SUCCEEDED" /\ ledger[c].meta = "none"
                            => Has(log, Question, c)
                       /\ Restorable(log, c)
                            => /\ ledger[c].state \in {"RUNNING", "SUCCEEDED"}
                               /\ ledger[c].meta = "none"
                       /\ ~Restorable(log, c) /\ doubt[c] = "unseen"
                            /\ ledger[c].state \in TerminalStates
                            => ledger[c].meta \in FinalVerdicts
    BY DEF QuestionNotLost, Question
  <2>1. c \in Mutating /\ CallGood(c)
    BY ToolAssumption DEF Known, Alone, Good
  <2>2. QuestionPut(c) /\ SuccessAsked(c) /\ Held(c)
    BY <2>1 DEF CallGood
  <2>. QED
    BY <2>1, <2>2 DEF QuestionPut, SuccessAsked, Held
<1>. QED
  BY <1>1, KnownAlways, PTL

LEMMA HeldAlone == Known /\ ~overlap => UnprovenHeld
  BY ToolAssumption DEF Known, Alone, Good, CallGood, Held, UnprovenHeld

\* The side effect of a MUTATING call that was cut off is not forgotten: until a
\* verdict was given no row claims to know how the call ended, unless a question
\* in the stream that can be restored proves it, as long as no recovery is
\* called while the run is in flight.
THEOREM UnprovenIsHeld == Spec => [](~overlap => UnprovenHeld)
<1>1. Known => (~overlap => UnprovenHeld)
  BY HeldAlone
<1>. QED
  BY <1>1, KnownAlways, PTL

-----------------------------------------------------------------------------
(* Where recover() is not called while the run is in flight.                *)

LEMMA NeverOverlapped ==
  ASSUME ~LiveRecovery
  PROVE  Spec => []~overlap
<1>1. Init => ~overlap
  BY DEF Init
<1>2. ~overlap /\ [Next]_vars => ~overlap'
  BY DEF Next, ExecutorStep, ToolMisbehaves, RecoverCalled, RecoveryStep, FaultStep,
     Fault, vars, bounds
<1>. QED
  BY <1>1, <1>2, PTL DEF Spec

\* The steps of the run, with what they leave behind of the call they are about.
LEMMA EntryStep ==
  ASSUME Known, Known', ~overlap', ~overlap, [Next]_vars, NEW c \in Calls,
         started'[c] # started[c]
  PROVE  Entering(c) /\ run = "exec" /\ UNCHANGED <<ledger, log>>
         /\ \A d \in Calls \ {c} : started'[d] = started[d]
<1>1. TypeInv /\ Calm
  BY DEF Known, Alone, Good
<1>2. \/ RunMoves \/ \E r \in Recoverers : RecoveryMoves(r)
      \/ Crash \/ UNCHANGED vars
  BY <1>1, KindsOfSteps
<1>3. ~UNCHANGED started
  OBVIOUS
<1>4. PICK d \in Calls : CallMoves(d)
  BY <1>2, <1>3 DEF RunMoves, BatchMoves, EmitCall, CompleteModel, EmitResult,
     BatchRaises, CancelEnds, CancelRun, RecoveryMoves, exVars, Crash, ExecutorDies, vars
<1>5. EnterTool(d)
  BY <1>3, <1>4 DEF CallMoves, Reject, CreatePending, CancelUnexecuted, StartRunning,
     BeginAttempt, ToolReturns, ToolRetries, TimesOut, LosesConnection, AskUser,
     Settle, Raise, CancelArm
<1>6. c = d /\ \A b \in Calls \ {c} : started'[b] = started[b]
  BY <1>1, <1>5 DEF EnterTool, TypeInv, TypeOK, ExecutorTypeOK
<1>7. Entering(c)
  BY <1>1, <1>5, <1>6 DEF EnterTool, Goto, Entering, TypeInv, TypeOK, ExecutorTypeOK
<1>. QED
  BY <1>5, <1>6, <1>7 DEF EnterTool

\* A MUTATING tool is entered only while its row says RUNNING, before any result
\* was told, and when nothing an earlier attempt did is in doubt: where replies are
\* not lost and nobody recovers a run in flight, no side effect is repeated blindly.
THEOREM NoSideEffectRepeated ==
  ASSUME ~LiveRecovery, ~LostReplies
  PROVE  Spec => NoBlindRerun
<1>1. Known /\ Known' /\ ~overlap /\ ~overlap' /\ [Next]_vars =>
        [\A c \in Mutating :
           started'[c] > started[c] =>
             /\ ledger[c].state = "RUNNING"
             /\ ~Has(log, "tool/result", c)
             /\ doubt[c] = "none"]_vars
  <2>. SUFFICES ASSUME Known, Known', ~overlap, ~overlap', [Next]_vars,
                       NEW c \in Mutating, started'[c] > started[c]
                PROVE  /\ ledger[c].state = "RUNNING"
                       /\ ~Has(log, "tool/result", c)
                       /\ doubt[c] = "none"
    OBVIOUS
  <2>1. c \in Calls /\ started[c] \in Nat
    BY ToolAssumption, CallType DEF Known
  <2>2. Entering(c) /\ run = "exec"
    BY <2>1, EntryStep
  <2>3. CallGood(c) /\ AnswersLast
    BY <2>1 DEF Known, Alone, Good, StreamGood
  <2>. QED
    BY <2>1, <2>2, <2>3 DEF Entering, CallGood, RowFits, Undoubted, AnswersLast, Told
<1>. QED
  BY <1>1, KnownAlways, NeverOverlapped, PTL DEF Spec, NoBlindRerun

-----------------------------------------------------------------------------
(* The closing event of a recovery.                                         *)

LEMMA ResumedIsLast ==
  ASSUME LogTypeOK, Resumed, LogGrows
  PROVE  /\ ~UNCHANGED log
         /\ \A type, c, info :
              Emit(Event(type, c, info)) => type = "session/resumed"
<1>1. ~UNCHANGED log
  BY DEF Resumed, LogTypeOK
<1>2. ASSUME NEW type, NEW c, NEW info, Emit(Event(type, c, info))
      PROVE  type = "session/resumed"
  <2>. DEFINE e == Event(type, c, info)
  <2>1. Emit(e) /\ e.type = type
    BY <1>2 DEF Event
  <2>. HIDE DEF e
  <2>2. log'[Len(log) + 1] = e
    BY <2>1, Appended
  <2>3. log'[Len(log')].type = "session/resumed" /\ Len(log') = Len(log) + 1
    BY DEF Resumed
  <2>. QED
    BY <2>1, <2>2, <2>3
<1>. QED
  BY <1>1, <1>2

\* Only the two closing steps of a recovery write it.
LEMMA ResumedStep ==
  ASSUME Known, ~overlap, [Next]_vars, Resumed
  PROVE  \E r \in Recoverers : ResumeAtOnce(r) \/ ResumeAfterVerdicts(r)
<1>1. /\ LogTypeOK /\ LogGrows
      /\ ~UNCHANGED log
      /\ \A type, c, info : Emit(Event(type, c, info)) => type = "session/resumed"
  BY NextLog, ResumedIsLast DEF Known, TypeInv, TypeOK
<1>2. CASE ExecutorStep
  BY <1>1, <1>2 DEF ExecutorStep, EmitCall, CompleteModel, EmitResult, BatchRaises,
     CancelEnds, CreatePending, CancelUnexecuted, StartRunning, BeginAttempt,
     EnterTool, ToolReturns, AskUser, Settle, LedgerRefuses, Raise, CancelArm
<1>3. CASE ToolMisbehaves
  BY <1>1, <1>3 DEF ToolMisbehaves, Reject, ToolRetries, TimesOut, LosesConnection
<1>4. CASE FaultStep
  BY <1>1, <1>4 DEF FaultStep, Fault, Crash, ExecutorDies, StorageFailure, StorageFails,
     Raise, Cancellation, CancelRun, RecoveryFailure, Abort, Leave
<1>5. ASSUME NEW r \in Recoverers, RecoverCalled(r)
      PROVE  FALSE
  BY <1>1, <1>5 DEF RecoverCalled, Start
<1>6. ASSUME NEW r \in Recoverers, Advance(r)
      PROVE  ResumeAtOnce(r) \/ ResumeAfterVerdicts(r)
  <2>1. ASSUME NEW c \in Calls,
               \/ Repair(r, c) \/ Synthesize(r, c) \/ ClosePending(r, c)
               \/ Report(r, c) \/ MarkUnknown(r, c) \/ MarkNeedReconcile(r, c)
               \/ Request(r, c) \/ \E v \in Verdicts : Resolve(r, c, v)
        PROVE  FALSE
    BY <1>1, <2>1 DEF Repair, Synthesize, ClosePending, Report, MarkUnknown,
       MarkNeedReconcile, Request, Resolve, Write
  <2>2. CASE \/ Acquire(r) \/ Decide(r) \/ AskVerdicts(r) \/ Reacquire(r)
             \/ CommitVerdict(r) \/ PairResult(r) \/ Conclude(r) \/ Refuse(r)
    BY <1>1, <2>2 DEF Acquire, Decide, AskVerdicts, Reacquire, CommitVerdict,
       PairResult, Conclude, Refuse, Leave, Write
  <2>. QED
    BY <1>6, <2>1, <2>2 DEF Advance
<1>. QED
  BY <1>1, <1>2, <1>3, <1>4, <1>5, <1>6 DEF Next, RecoveryStep, vars

LEMMA ResumedDealt ==
  ASSUME Known, ~overlap, [Next]_vars, Resumed, NEW c \in Calls
  PROVE  Dealt(c)
<1>1. PICK r \in Recoverers : ResumeAtOnce(r) \/ ResumeAfterVerdicts(r)
  BY ResumedStep
<1>2. RecoveryGood(r)
  BY DEF Known, Alone, Good
<1>3. CASE ResumeAtOnce(r)
  <2>1. rpc[r] = "settle" /\ todo[r] = NoTodo /\ tokens[r] = NoTokens
    BY <1>3 DEF ResumeAtOnce
  <2>2. RowsRead(r, c) /\ WorkLaidOut(r, c) /\ WorkCovers(r, c)
    BY <1>2, <2>1 DEF RecoveryGood, Settled
  <2>3. tokens[r][c] = "none" /\ \A s \in Stages : c \notin todo[r][s]
    BY <2>1 DEF NoTodo, NoTokens
  <2>. QED
    BY <2>2, <2>3 DEF RowsRead, WorkCovers, Dealt, Stages
<1>4. CASE ResumeAfterVerdicts(r)
  <2>1. rpc[r] = "last" /\ tokens[r] = NoTokens
    BY <1>2, <1>4 DEF ResumeAfterVerdicts, RecoveryGood, TokensFit
  <2>. QED
    BY <1>2, <2>1 DEF RecoveryGood, AllDealt, Serving, NoTokens
<1>. QED
  BY <1>1, <1>3, <1>4

\* A session is resumed with no call left without an answer, except those for which
\* its stream holds the user's DEFER, whatever crashed and however many
\* recoveries compete, unless the run was in flight.
THEOREM ResumedWhole == Spec => ResumeLeavesNothingDangling
<1>1. Known /\ [Next]_vars =>
        [Resumed /\ ~overlap => \A c \in Dangling(log) : Deferred(c)]_vars
  <2>. SUFFICES ASSUME Known, [Next]_vars, Resumed, ~overlap, NEW c \in Dangling(log)
                PROVE  Deferred(c)
    OBVIOUS
  <2>1. c \in Calls /\ Has(log, "tool/call", c) /\ ~Told(c)
    BY DEF Dangling, Told
  <2>2. Dealt(c)
    BY <2>1, ResumedDealt
  <2>. QED
    BY <2>1, <2>2 DEF Dealt
<1>. QED
  BY <1>1, KnownAlways, PTL DEF Spec, ResumeLeavesNothingDangling

\* A session is resumed with the verdict of every settled row reported, and with
\* the request for it before the report, where recover() is not called while
\* the run is in flight.
THEOREM VerdictIsReported ==
  ASSUME ~LiveRecovery
  PROVE  Spec => VerdictReported
<1>1. Known /\ ~overlap /\ [Next]_vars =>
        [Resumed => \A c \in Calls : CommittedVerdict(ledger[c]) => Reported(c)]_vars
  <2>. SUFFICES ASSUME Known, ~overlap, [Next]_vars, Resumed,
                       NEW c \in Calls, CommittedVerdict(ledger[c])
                PROVE  Reported(c)
    OBVIOUS
  <2>1. Has(log, Reconciled, c) /\ VerdictsInOrder
    BY ResumedDealt DEF Dealt, Known, Alone, Good, StreamGood
  <2>2. PICK j \in DOMAIN log : log[j].type = Reconciled /\ log[j].call = c
    BY <2>1 DEF Has
  <2>3. PICK i \in DOMAIN log : i < j /\ log[i].type = Required /\ log[i].call = c
    BY <2>1, <2>2 DEF VerdictsInOrder
  <2>. QED
    BY <2>2, <2>3 DEF Reported, Required, Reconciled
<1>. QED
  BY <1>1, KnownAlways, NeverOverlapped, PTL DEF Spec, VerdictReported

-----------------------------------------------------------------------------
(* The abstract call: what the session is told of a call.                   *)

AnswerIn(s, c) ==
  LET told == {i \in DOMAIN s : s[i].type = "tool/result" /\ s[i].call = c}
  IN  IF told = {} THEN "none"
      ELSE IF Cardinality(told) > 1 THEN "twice"
      ELSE s[CHOOSE i \in told : TRUE].info

LEMMA AnswerRead == \A c : Answer(c) = AnswerIn(log, c) /\ Answer(c)' = AnswerIn(log', c)
  BY DEF Answer, AnswerIn

LEMMA AnswerNone ==
  ASSUME NEW s, NEW c, ~Has(s, "tool/result", c)
  PROVE  AnswerIn(s, c) = "none"
<1>1. {i \in DOMAIN s : s[i].type = "tool/result" /\ s[i].call = c} = {}
  BY DEF Has
<1>. QED
  BY <1>1 DEF AnswerIn

LEMMA AnswerIs ==
  ASSUME NEW s, NEW c, NEW i \in DOMAIN s,
         s[i].type = "tool/result", s[i].call = c,
         \A j \in DOMAIN s : s[j].type = "tool/result" /\ s[j].call = c => j = i
  PROVE  AnswerIn(s, c) = s[i].info
<1>. DEFINE told == {j \in DOMAIN s : s[j].type = "tool/result" /\ s[j].call = c}
<1>1. told = {i}
  OBVIOUS
<1>2. Cardinality(told) = 1
  BY <1>1, FS_Singleton
<1>3. (CHOOSE j \in told : TRUE) = i /\ told # {}
  BY <1>1
<1>. HIDE DEF told
<1>4. ~(Cardinality(told) > 1)
  BY <1>2
<1>. QED
  BY <1>3, <1>4 DEF AnswerIn, told

LEMMA AnswerKeptBy ==
  ASSUME LogTypeOK, LogGrows, OneAnswer, OneAnswer', NEW c, Told(c)' <=> Told(c)
  PROVE  AnswerIn(log', c) = AnswerIn(log, c)
<1>1. CASE ~Told(c)
  BY <1>1, AnswerNone DEF Told
<1>2. CASE Told(c)
  <2>1. PICK i \in DOMAIN log : log[i].type = "tool/result" /\ log[i].call = c
    BY <1>2 DEF Told, Has
  <2>2. i \in DOMAIN log' /\ log'[i] = log[i]
    BY Appended DEF LogGrows
  <2>3. AnswerIn(log, c) = log[i].info
    BY <2>1, AnswerIs DEF OneAnswer
  <2>4. AnswerIn(log', c) = log'[i].info
    BY <2>1, <2>2, AnswerIs DEF OneAnswer
  <2>. QED
    BY <2>2, <2>3, <2>4
<1>. QED
  BY <1>1, <1>2

LEMMA AnswerGiven ==
  ASSUME LogTypeOK, NEW c, NEW info, Emit(Event("tool/result", c, info)), OneAnswer'
  PROVE  AnswerIn(log', c) = info
<1>. DEFINE e == Event("tool/result", c, info)
<1>1. Emit(e) /\ e.type = "tool/result" /\ e.call = c /\ e.info = info
  BY DEF Event
<1>. HIDE DEF e
<1>2. Len(log) + 1 \in DOMAIN log' /\ log'[Len(log) + 1] = e
  BY <1>1, Appended
<1>. QED
  BY <1>1, <1>2, AnswerIs DEF OneAnswer

-----------------------------------------------------------------------------
(* Every step is a step of the abstract call, or a stutter.                 *)

\* What the mapping sees of a call.
SameCall(c) ==
  /\ Has(log', "tool/call", c) <=> Has(log, "tool/call", c)
  /\ Has(log', Question, c) <=> Has(log, Question, c)
  /\ ledger'[c].state = ledger[c].state
  /\ AnswerIn(log', c) = AnswerIn(log, c)
  /\ started'[c] = started[c]

LEMMA PromiseStutter ==
  ASSUME TypeInv, TypeInv', \A c \in Calls : SameCall(c)
  PROVE  UNCHANGED Promise!vars
<1>1. started' = started
  BY DEF SameCall, TypeInv, TypeOK, ExecutorTypeOK
<1>2. {c \in Calls : Has(log, "tool/call", c)}' = {c \in Calls : Has(log, "tool/call", c)}
  BY DEF SameCall
<1>3. {c \in Calls : Has(log, "user/input-requested", c)}'
        = {c \in Calls : Has(log, "user/input-requested", c)}
  BY DEF SameCall, Question
<1>4. [c \in Calls |-> Outcome(c)]' = [c \in Calls |-> Outcome(c)]
  BY DEF SameCall, Outcome
<1>5. [c \in Calls |-> Answer(c)]' = [c \in Calls |-> Answer(c)]
  BY AnswerRead DEF SameCall
<1>. QED
  BY <1>1, <1>2, <1>3, <1>4, <1>5 DEF Promise!vars

\* A row moves.
LEMMA PromiseSettle ==
  ASSUME TypeInv, TypeInv', CallEventFirst, LedgerStep, UNCHANGED <<log, started>>
  PROVE  [Promise!Next]_(Promise!vars)
<1>. USE DEF SameCall
<1>1. LedgerTypeOK
  BY DEF TypeInv, TypeOK
<1>2. CASE UNCHANGED ledger
  BY <1>2, PromiseStutter
<1>3. ASSUME NEW c \in Calls, RowStep(c)
      PROVE  [Promise!Next]_(Promise!vars)
  <2>1. \A d \in Calls \ {c} : ledger'[d] = ledger[d]
    BY <1>1, <1>3 DEF RowStep, Create, RecordAttempt, UpdateState, LedgerTypeOK
  <2>2. CASE ledger'[c].state \notin TerminalStates
    <3>1. ledger[c].state \notin TerminalStates
      BY <1>1, <1>3, AllowedMoves DEF RowStep, Create, RecordAttempt, CanRecordAttempt,
         UpdateState, CanMove, TerminalStates
    <3>2. [d \in Calls |-> Outcome(d)]' = [d \in Calls |-> Outcome(d)]
      BY <2>1, <2>2, <3>1 DEF Outcome, TerminalStates
    <3>3. [d \in Calls |-> Answer(d)]' = [d \in Calls |-> Answer(d)]
      BY DEF Answer
    <3>. QED
      BY <3>2, <3>3 DEF Promise!vars
  <2>3. CASE ledger'[c].state \in TerminalStates
    <3>. DEFINE how == IF ledger'[c].state = "SUCCEEDED" THEN "success" ELSE "other"
    <3>1. /\ ledger[c].state \notin TerminalStates
          /\ ledger[c].state # "ABSENT"
      <4>1. ASSUME NEW s, NEW res, NEW m, UpdateState(c, s, res, m)
            PROVE  ledger[c].state \notin TerminalStates \cup {"ABSENT"}
        BY <4>1, AllowedMoves DEF UpdateState, CanMove
      <4>2. CASE Create(c)
        <5>1. ledger'[c] = [NoRow EXCEPT !.state = "PENDING"]
          BY <1>1, <4>2 DEF Create, LedgerTypeOK
        <5>. QED
          BY <2>3, <5>1 DEF NoRow, TerminalStates
      <4>3. CASE RecordAttempt(c)
        BY <4>3 DEF RecordAttempt, CanRecordAttempt, TerminalStates
      <4>. QED
        BY <1>3, <4>1, <4>2, <4>3 DEF RowStep
    <3>2. Has(log, "tool/call", c)
      BY <3>1 DEF CallEventFirst
    <3>3. Outcome(c) = "open" /\ Outcome(c)' = how
      BY <2>3, <3>1 DEF Outcome, TerminalStates
    <3>. HIDE DEF how
    <3>4. \A d \in Calls \ {c} : Outcome(d)' = Outcome(d)
      BY <2>1 DEF Outcome
    <3>5. [d \in Calls |-> Outcome(d)]' = [[d \in Calls |-> Outcome(d)] EXCEPT ![c] = how]
      BY <3>3, <3>4
    <3>6. [d \in Calls |-> Answer(d)]' = [d \in Calls |-> Answer(d)]
      BY DEF Answer
    <3>7. how \in {"success", "other"}
      BY DEF how
    <3>8. Promise!Settle(c, how)
      BY <3>2, <3>3, <3>5, <3>6 DEF Promise!Settle
    <3>. QED
      BY <3>7, <3>8 DEF Promise!Next
  <2>. QED
    BY <2>2, <2>3
<1>. QED
  BY <1>2, <1>3 DEF LedgerStep

\* An event is written.
LEMMA SeenKept ==
  ASSUME TypeInv, OneAnswer, OneAnswer', [Next]_vars,
         NEW type, NEW c, NEW info, Emit(Event(type, c, info)), UNCHANGED ledger
  PROVE  /\ type # "tool/call" =>
              \A d : Has(log', "tool/call", d) <=> Has(log, "tool/call", d)
         /\ type # Question => \A d : Has(log', Question, d) <=> Has(log, Question, d)
         /\ \A d : type # "tool/result" \/ d # c => AnswerIn(log', d) = AnswerIn(log, d)
         /\ \A d : Outcome(d)' = Outcome(d)
         /\ Has(log', type, c)
<1>1. LogTypeOK /\ LogGrows
  BY NextLog DEF TypeInv, TypeOK
<1>2. \A t, d : Has(log', t, d) <=> Has(log, t, d) \/ (type = t /\ c = d)
  BY <1>1, HasAfterEvent
<1>3. ASSUME NEW d, type # "tool/result" \/ d # c
      PROVE  AnswerIn(log', d) = AnswerIn(log, d)
  <2>1. Told(d)' <=> Told(d)
    BY <1>2, <1>3 DEF Told
  <2>. QED
    BY <1>1, <2>1, AnswerKeptBy
<1>4. \A d : Outcome(d)' = Outcome(d)
  BY DEF Outcome
<1>. QED
  BY <1>2, <1>3, <1>4

LEMMA PromiseRequest ==
  ASSUME TypeInv, OneAnswer, OneAnswer', [Next]_vars, NEW c \in Calls,
         Emit(Event("tool/call", c, "none")), UNCHANGED <<ledger, started>>
  PROVE  Promise!Request(c)
<1>1. /\ \A d : Has(log', Question, d) <=> Has(log, Question, d)
      /\ \A d : AnswerIn(log', d) = AnswerIn(log, d) /\ Outcome(d)' = Outcome(d)
  BY SeenKept DEF Question
<1>2. \A d : Has(log', "tool/call", d) <=> Has(log, "tool/call", d) \/ d = c
  BY HasAfterEvent DEF TypeInv, TypeOK
<1>3. {d \in Calls : Has(log, "tool/call", d)}'
        = {d \in Calls : Has(log, "tool/call", d)} \cup {c}
  BY <1>2
<1>4. {d \in Calls : Has(log, "user/input-requested", d)}'
        = {d \in Calls : Has(log, "user/input-requested", d)}
  BY <1>1 DEF Question
<1>5. [d \in Calls |-> Outcome(d)]' = [d \in Calls |-> Outcome(d)]
  BY <1>1
<1>6. [d \in Calls |-> Answer(d)]' = [d \in Calls |-> Answer(d)]
  BY <1>1, AnswerRead
<1>. QED
  BY <1>3, <1>4, <1>5, <1>6 DEF Promise!Request

LEMMA PromiseAsk ==
  ASSUME TypeInv, OneAnswer, OneAnswer', [Next]_vars, NEW c \in Calls,
         NEW kind, Emit(Event(Question, c, kind)), UNCHANGED <<ledger, started>>,
         Has(log, "tool/call", c), ~Told(c), ledger[c].state = "RUNNING"
  PROVE  Promise!Ask(c)
<1>1. /\ \A d : Has(log', "tool/call", d) <=> Has(log, "tool/call", d)
      /\ \A d : AnswerIn(log', d) = AnswerIn(log, d) /\ Outcome(d)' = Outcome(d)
  BY SeenKept DEF Question
<1>2. \A d : Has(log', Question, d) <=> Has(log, Question, d) \/ d = c
  BY HasAfterEvent DEF TypeInv, TypeOK
<1>3. {d \in Calls : Has(log, "tool/call", d)}' = {d \in Calls : Has(log, "tool/call", d)}
  BY <1>1
<1>4. {d \in Calls : Has(log, "user/input-requested", d)}'
        = {d \in Calls : Has(log, "user/input-requested", d)} \cup {c}
  BY <1>2 DEF Question
<1>5. [d \in Calls |-> Outcome(d)]' = [d \in Calls |-> Outcome(d)]
  BY <1>1
<1>6. [d \in Calls |-> Answer(d)]' = [d \in Calls |-> Answer(d)]
  BY <1>1, AnswerRead
<1>7. Outcome(c) = "open" /\ Answer(c) = "none"
  BY AnswerNone, AnswerRead DEF Outcome, TerminalStates, Told
<1>. QED
  BY <1>3, <1>4, <1>5, <1>6, <1>7 DEF Promise!Ask

LEMMA PromiseTell ==
  ASSUME TypeInv, OneAnswer, OneAnswer', [Next]_vars, NEW c \in Calls, NEW info,
         Emit(Event("tool/result", c, info)), UNCHANGED <<ledger, started>>,
         MayTell(c, info)
  PROVE  \E a \in Promise!Answers : Promise!Tell(c, a)
<1>1. /\ \A d : Has(log', "tool/call", d) <=> Has(log, "tool/call", d)
      /\ \A d : Has(log', Question, d) <=> Has(log, Question, d)
      /\ \A d : Outcome(d)' = Outcome(d)
      /\ \A d \in Calls \ {c} : AnswerIn(log', d) = AnswerIn(log, d)
  BY SeenKept DEF Question
<1>2. AnswerIn(log', c) = info
  BY AnswerGiven DEF TypeInv, TypeOK
<1>3. {d \in Calls : Has(log, "tool/call", d)}' = {d \in Calls : Has(log, "tool/call", d)}
  BY <1>1
<1>4. {d \in Calls : Has(log, "user/input-requested", d)}'
        = {d \in Calls : Has(log, "user/input-requested", d)}
  BY <1>1 DEF Question
<1>5. [d \in Calls |-> Outcome(d)]' = [d \in Calls |-> Outcome(d)]
  BY <1>1
<1>6. [d \in Calls |-> Answer(d)]' = [[d \in Calls |-> Answer(d)] EXCEPT ![c] = info]
  BY <1>1, <1>2, AnswerRead
<1>7. /\ Answer(c) = "none" /\ Has(log, "tool/call", c)
      /\ info = "ok" => Outcome(c) = "success" \/ Has(log, "user/input-requested", c)
      /\ info \in {"skipped", "notexec", "rejected"} => started[c] = 0
  <2>1. Answer(c) = "none"
    BY AnswerNone, AnswerRead DEF MayTell, Told
  <2>2. info = "ok" => Outcome(c) = "success" \/ Has(log, "user/input-requested", c)
    BY DEF MayTell, Outcome, Succeeded, Question, TerminalStates
  <2>. QED
    BY <2>1, <2>2 DEF MayTell
<1>8. info \in Promise!Answers
  BY DEF MayTell, ResultContents, Promise!Answers, Promise!Refusals
<1>9. Promise!Tell(c, info)
  BY <1>3, <1>4, <1>5, <1>6, <1>7 DEF Promise!Tell, Promise!Refusals
<1>. QED
  BY <1>8, <1>9

LEMMA PromiseOther ==
  ASSUME TypeInv, TypeInv', OneAnswer, OneAnswer', [Next]_vars, NEW c, NEW type,
         NEW info, Emit(Event(type, c, info)), UNCHANGED <<ledger, started>>,
         type \notin {"tool/call", "tool/result", Question}
  PROVE  UNCHANGED Promise!vars
<1>1. /\ \A d : Has(log', "tool/call", d) <=> Has(log, "tool/call", d)
      /\ \A d : Has(log', Question, d) <=> Has(log, Question, d)
      /\ \A d : AnswerIn(log', d) = AnswerIn(log, d)
  BY SeenKept
<1>2. \A d \in Calls : SameCall(d)
  BY <1>1 DEF SameCall
<1>. QED
  BY <1>2, PromiseStutter

LEMMA PromiseEnter ==
  ASSUME TypeInv, NEW c \in Calls, Entering(c), UNCHANGED <<ledger, log>>,
         TypeInv', \A d \in Calls \ {c} : started'[d] = started[d],
         Has(log, "tool/call", c), ~Told(c), ledger[c].state = "RUNNING"
  PROVE  Promise!Enter(c)
<1>1. started' = [started EXCEPT ![c] = @ + 1]
  BY DEF Entering, TypeInv, TypeOK, ExecutorTypeOK
<1>2. Outcome(c) = "open" /\ Answer(c) = "none"
  BY AnswerNone, AnswerRead DEF Outcome, TerminalStates, Told
<1>3. [d \in Calls |-> Outcome(d)]' = [d \in Calls |-> Outcome(d)]
  BY DEF Outcome
<1>4. [d \in Calls |-> Answer(d)]' = [d \in Calls |-> Answer(d)]
  BY DEF Answer
<1>. QED
  BY <1>1, <1>2, <1>3, <1>4 DEF Promise!Enter

\* A recovery writes a row or the stream, never both in one step.
LEMMA OneWrite ==
  ASSUME NEW r \in Recoverers, RecoveryMoves(r)
  PROVE  UNCHANGED ledger \/ UNCHANGED log
<1>1. ASSUME NEW c \in Calls,
             \/ Repair(r, c) \/ Synthesize(r, c) \/ ClosePending(r, c)
             \/ Report(r, c) \/ MarkUnknown(r, c) \/ MarkNeedReconcile(r, c)
             \/ Request(r, c) \/ \E v \in Verdicts : Resolve(r, c, v)
      PROVE  UNCHANGED ledger \/ UNCHANGED log
  BY <1>1 DEF Repair, Synthesize, ClosePending, Report, MarkUnknown,
     MarkNeedReconcile, Request, Resolve
<1>. QED
  BY <1>1 DEF RecoveryMoves, Advance, Start, Acquire, Decide, AskVerdicts, ResumeAtOnce,
     Reacquire, CommitVerdict, PairResult, Conclude, ResumeAfterVerdicts, Refuse, Leave

LEMMA PromiseStep ==
  ASSUME Known, Known', ~overlap, ~overlap', [Next]_vars
  PROVE  [Promise!Next]_(Promise!vars)
<1>1. /\ TypeInv /\ TypeInv' /\ CallEventFirst /\ OneInside /\ FreshView /\ Calm
      /\ StreamGood /\ OneAnswer /\ OneAnswer' /\ LedgerStep
      /\ \A c \in Calls : CallGood(c) /\ Ready(c)
      /\ \A r \in Recoverers : RecoveryGood(r)
  BY NextLedger DEF Known, Alone, Good, StreamGood
<1>2. CASE UNCHANGED <<log, started>>
  BY <1>1, <1>2, PromiseSettle
<1>3. ASSUME NEW c \in Calls, started'[c] # started[c]
      PROVE  [Promise!Next]_(Promise!vars)
  <2>1. /\ Entering(c) /\ run = "exec" /\ UNCHANGED <<ledger, log>>
        /\ \A d \in Calls \ {c} : started'[d] = started[d]
    BY <1>3, EntryStep
  <2>2. ledger[c].state = "RUNNING" /\ ~Told(c)
    BY <1>1, <2>1 DEF Entering, CallGood, RowFits, StreamGood, AnswersLast
  <2>3. Has(log, "tool/call", c)
    BY <1>1, <2>2 DEF CallEventFirst
  <2>. QED
    BY <1>1, <2>1, <2>2, <2>3, PromiseEnter DEF Promise!Next
<1>4. CASE UNCHANGED started /\ ~UNCHANGED log
  <2>1. CASE EmitCall
    <3>1. Batch[cursor + 1] \in Calls
      BY <1>1, BatchCall DEF TypeInv, TypeOK, ExecutorTypeOK
    <3>. QED
      BY <1>1, <1>4, <2>1, <3>1, PromiseRequest DEF EmitCall, Promise!Next
  <2>2. CASE CompleteModel
    BY <1>1, <1>4, <2>2, PromiseOther DEF CompleteModel, Question
  <2>3. CASE EmitResult
    <3>. DEFINE c == Batch[cursor + 1]
    <3>1. c \in Calls /\ cursor + 1 \in 1..Len(Batch) /\ cursor \in Nat
      BY <1>1, BatchCall, BatchLength DEF TypeInv, TypeOK, ExecutorTypeOK
    <3>2. run = "finalize" /\ Emit(Event("tool/result", c, outcome[c]))
      BY <2>3 DEF EmitResult
    <3>3. ~Told(c)
      BY <1>1, <3>1, <3>2 DEF StreamGood, AnswersLast
    <3>4. /\ pc[c] = "done" /\ Has(log, "tool/call", c) /\ outcome[c] # "none"
          /\ outcome[c] \in Outcomes
      BY <1>1, <3>1, <3>2, CallType DEF Ready
    <3>5. /\ outcome[c] = "ok" => Succeeded(c)
          /\ outcome[c] = "rejected" => started[c] = 0
      BY <1>1, <3>1, <3>2, <3>4 DEF CallGood, OutcomeTrue, Entered
    <3>6. MayTell(c, outcome[c])
      BY <3>3, <3>4, <3>5 DEF MayTell, Outcomes, ResultContents
    <3>7. UNCHANGED <<ledger, started>>
      BY <2>3 DEF EmitResult
    <3>. HIDE DEF c
    <3>. QED
      BY <1>1, <3>1, <3>2, <3>6, <3>7, PromiseTell DEF Promise!Next
  <2>4. ASSUME NEW c \in Calls, CallMoves(c)
        PROVE  [Promise!Next]_(Promise!vars)
    <3>1. AskUser(c) /\ Asking(c) /\ UNCHANGED ledger
      BY <1>1, <1>4, <2>4, CallStep
    <3>2. run = "exec" /\ pc[c] = "returned"
      BY <3>1 DEF AskUser
    <3>3. ledger[c].state = "RUNNING" /\ ~Told(c)
      BY <1>1, <3>2 DEF CallGood, RowFits, StreamGood, AnswersLast
    <3>4. Has(log, "tool/call", c)
      BY <1>1, <3>3 DEF CallEventFirst
    <3>5. PICK kind \in QuestionInfos : Emit(Event(Question, c, kind))
      BY <3>1 DEF AskUser, Question
    <3>6. UNCHANGED <<ledger, started>>
      BY <3>1 DEF AskUser
    <3>. QED
      BY <1>1, <3>3, <3>4, <3>5, <3>6, PromiseAsk DEF Promise!Next
  <2>5. ASSUME NEW r \in Recoverers, RecoveryMoves(r)
        PROVE  [Promise!Next]_(Promise!vars)
    <3>1. UNCHANGED <<ledger, started>>
      BY <1>4, <2>5, OneWrite
    <3>2. RecoveryWrites
      BY <1>1, <2>5, RecoveryWritesRight
    <3>3. ASSUME NEW c \in Calls, NEW info \in EventInfos,
                 Emit(Event("tool/result", c, info)), MayTell(c, info)
          PROVE  Promise!Next
      BY <1>1, <3>1, <3>3, PromiseTell DEF Promise!Next
    <3>4. ASSUME NEW c, NEW type, NEW info, Emit(Event(type, c, info)),
                 type \in {Required, Reconciled, "session/resumed"}
          PROVE  UNCHANGED Promise!vars
      BY <1>1, <3>1, <3>4, PromiseOther DEF Required, Reconciled, Question
    <3>. QED
      BY <1>4, <3>2, <3>3, <3>4 DEF RecoveryWrites
  <2>6. ~Crash /\ ~UNCHANGED vars
    BY <1>4 DEF Crash, ExecutorDies, vars
  <2>7. ~(BatchRaises \/ CancelEnds \/ CancelRun)
    BY <1>4 DEF BatchRaises, CancelEnds, CancelRun
  <2>. QED
    BY <1>1, <2>1, <2>2, <2>3, <2>4, <2>5, <2>6, <2>7, KindsOfSteps
       DEF RunMoves, BatchMoves
<1>5. UNCHANGED started \/ \E c \in Calls : started'[c] # started[c]
  BY <1>1 DEF TypeInv, TypeOK, ExecutorTypeOK
<1>. QED
  BY <1>2, <1>3, <1>4, <1>5

LEMMA PromiseInit == Init => Promise!Init
<1>. SUFFICES ASSUME Init PROVE Promise!Init
  OBVIOUS
<1>1. \A t, c : ~Has(log, t, c)
  BY DEF Init, LogInit, Has
<1>2. \A c \in Calls : Answer(c) = "none"
  BY <1>1, AnswerNone, AnswerRead
<1>3. \A c \in Calls : Outcome(c) = "open"
  BY DEF Init, LedgerInit, NoRow, Outcome, TerminalStates
<1>4. started = [c \in Calls |-> 0]
  BY DEF Init, ExecutorInit
<1>. QED
  BY <1>1, <1>2, <1>3, <1>4 DEF Promise!Init

\* The executor and the recoveries together implement the abstract call: whatever
\* crashes, is cancelled or fails, a call is settled once and told one result, and
\* that result is true, where recover() is not called while the run is in flight.
THEOREM PromiseIsKept ==
  ASSUME ~LiveRecovery
  PROVE  Spec => KeepsPromise
<1>1. Known /\ Known' /\ ~overlap /\ ~overlap' /\ [Next]_vars
        => [Promise!Next]_(Promise!vars)
  BY PromiseStep
<1>. QED
  BY <1>1, PromiseInit, KnownAlways, NeverOverlapped, PTL
     DEF Spec, KeepsPromise, Promise!Spec
=============================================================================
