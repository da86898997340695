------------------------------ MODULE EventLog ------------------------------
(***************************************************************************)
(* The session's append-only event stream (session/session.py, event.py),  *)
(* the single source of truth, reduced to the events that tool execution   *)
(* and recovery write and read.                                            *)
(***************************************************************************)
EXTENDS OperationLedger, Sequences

CONSTANT NoCall     \* the call of an event that is about no call

ASSUME NoCallAssumption == NoCall \notin Calls

VARIABLE log

-----------------------------------------------------------------------------
EventTypes ==
  {"tool/call", "model/completed", "tool/result", "user/input-requested",
   "operation/reconcile-required", "operation/reconciled", "session/resumed"}

\* What a tool/result says: the executor's ToolResult, or one of the texts the
\* recovery synthesises.  "skipped": the row was PENDING; "notexec": no row.
ResultContents ==
  {"ok", "fail", "timeout", "rejected", "cancelled", "skipped", "notexec"}

\* What a recovery can make of a user/input-requested.  "restorable": an
\* ask_user, or a protected_fact_conflict whose fact and source still stand.
\* "unrestorable": a plan_approval, whose answer nobody gives for the user, a
\* conflict whose fact has moved, or a question answered meanwhile.  The choice
\* is made when the question is asked, which loses nothing: until its repair or
\* its first transition commits, a recovery leaves no trace of how it read it.
QuestionInfos == {"restorable", "unrestorable"}

EventInfos == ResultContents \cup Verdicts \cup QuestionInfos \cup {"none"}

Events == [type : EventTypes, call : Calls \cup {NoCall}, info : EventInfos]

Event(type, c, info) == [type |-> type, call |-> c, info |-> info]

\* Does the stream s hold an event of this type about call c?
Has(s, type, c) == \E i \in DOMAIN s : s[i].type = type /\ s[i].call = c

\* collect_dangling: calls that were requested and have no result.  The
\* tool/call of a call is written before anything else names it, so a
\* model/completed adds no request that is not already in the stream.
Dangling(s) ==
  {c \in Calls : Has(s, "tool/call", c) /\ ~Has(s, "tool/result", c)}

Emit(e) == log' = Append(log, e)

LogTypeOK == log \in Seq(Events)
LogInit == log = <<>>
=============================================================================
