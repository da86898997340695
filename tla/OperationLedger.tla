--------------------------- MODULE OperationLedger ---------------------------
(***************************************************************************)
(* The Operation Ledger (storage/operation.py, storage/sqlite.py): one     *)
(* durable row per tool call of the session.  A row records how far the    *)
(* real, external operation behind the call is known to have gone.  It     *)
(* survives a crash of the process.                                        *)
(***************************************************************************)
EXTENDS Naturals

CONSTANT Calls      \* tool_call_ids; unique in the session (the primary key)

VARIABLE ledger     \* ledger[c]: the row of call c

-----------------------------------------------------------------------------
TerminalStates == {"SUCCEEDED", "FAILED", "CANCELLED"}
ReconcileStates == {"RUNNING", "UNKNOWN", "NEED_RECONCILE"}
RowStates == {"PENDING"} \cup ReconcileStates \cup TerminalStates
States == {"ABSENT"} \cup RowStates

FinalVerdicts == {"CONFIRM_SUCCESS", "CONFIRM_FAILURE", "RETRY", "ABANDON"}
Verdicts == FinalVerdicts \cup {"DEFER"}

\* What a ToolResult says, as far as any decision depends on it.  "timeout" is
\* a failure whose error code is TIMEOUT, "cancelled" one whose code is CANCELLED.
Contents == {"ok", "fail", "timeout", "cancelled"}

Rows == [state : States,
         attempts : Nat,                              \* attempt_count
         result : Contents \cup {"none"},             \* result_json
         meta : Verdicts \cup {"unproven", "none"}]   \* reconcile_meta

NoRow == [state |-> "ABSENT", attempts |-> 0, result |-> "none", meta |-> "none"]

\* MUTANT: a terminal row may be settled again.
Allowed_Resettle(s) ==
  IF s = "PENDING" THEN {"RUNNING", "CANCELLED"} ELSE RowStates \ {"PENDING"}

\* _ALLOWED_TRANSITIONS.  NEED_RECONCILE loops on itself so that a DEFER can
\* leave its trace in the row.
Allowed(s) ==
  CASE s = "PENDING"        -> {"RUNNING", "CANCELLED"}
    [] s = "RUNNING"        -> TerminalStates \cup {"UNKNOWN"}
    [] s = "UNKNOWN"        -> {"NEED_RECONCILE"}
    [] s = "NEED_RECONCILE" -> TerminalStates \cup {"NEED_RECONCILE"}
    [] OTHER                -> {}

\* Both reads of reconcile_meta, and the gate of recovery.
HasUnprovenSideEffect(row) == row.meta = "unproven"
NeedsReconcile(row) ==
  row.state \in ReconcileStates \/ HasUnprovenSideEffect(row)
CommittedVerdict(row) == row.meta \in Verdicts

-----------------------------------------------------------------------------
\* update_state reads the row, checks the transition and writes under a
\* compare-and-set on the state; a refused one raises and changes nothing.
CanMove(c, s) == s \in Allowed(ledger[c].state)

\* COALESCE: "none" keeps the stored column.
Coalesce(new, old) == IF new = "none" THEN old ELSE new

UpdateState(c, s, result, meta) ==
  /\ CanMove(c, s)
  /\ ledger' = [ledger EXCEPT ![c] =
                  [state    |-> s,
                   attempts |-> @.attempts,
                   result   |-> Coalesce(result, @.result),
                   meta     |-> Coalesce(meta, @.meta)]]

Create(c) ==
  /\ ledger[c].state = "ABSENT"
  /\ ledger' = [ledger EXCEPT ![c] = [NoRow EXCEPT !.state = "PENDING"]]

CanRecordAttempt(c) == ledger[c].state = "RUNNING"


RecordAttempt(c) ==
  /\ CanRecordAttempt(c)
  /\ ledger' = [ledger EXCEPT ![c].attempts = @ + 1]

-----------------------------------------------------------------------------
LedgerTypeOK == ledger \in [Calls -> Rows]
LedgerInit == ledger = [c \in Calls |-> NoRow]
=============================================================================
