---------------------------- MODULE ApprovalGate ----------------------------
(***************************************************************************)
(* The way of a tool call through the gates of tooling/executor.py to its  *)
(* ledger row: Plan mode, the quota window of the batch, and the question  *)
(* to a person, which lives twice: as events in the session's stream and   *)
(* as a future in the queue of the run (tooling/approval_queue.py,         *)
(* session/approval.py).  Users answer over HTTP (SessionService.          *)
(* resolve_approval) and switch the mode or revoke a grant through another *)
(* aggregate of the session; timers, cancellation, failing appends, a      *)
(* crash and the recovery come in between.                                 *)
(* A call asks at most once, so that it names its question; the calls are  *)
(* numbered in the order of the model's requests and a run makes one batch *)
(* of them.  They count against one quota, as if they named one tool, and  *)
(* those that have an approval identity share it.                          *)
(***************************************************************************)
EXTENDS Naturals, FiniteSets, SequencesExt

CONSTANTS Calls,     \* numbers
          Runs,      \* 1 .. the last run
          RunOf,     \* the run whose model asks for the call
          NeedsAsk,  \* calls above the permission of the session
          EachTime,  \* of those, calls without an identity: all but bash and write
          ReadOnly,  \* calls that Plan mode lets pass
          Repeated,  \* calls whose id already has a ledger row
          Modes,     \* how a batch may run: "parallel", "serial"
          Ceiling,   \* the quota of the run for the tool
          Users,
          MaxFaults  \* bound of failing appends and deaths of the process

ASSUME GateAssumption ==
    /\ Calls \subseteq Nat /\ IsFiniteSet(Calls)
    /\ Runs \subseteq Nat \ {0} /\ RunOf \in [Calls -> Runs]
    /\ EachTime \subseteq NeedsAsk /\ NeedsAsk \subseteq Calls
    /\ ReadOnly \subseteq Calls /\ Repeated \subseteq Calls
    /\ Modes \subseteq {"parallel", "serial"} /\ Ceiling \in Nat
    /\ MaxFaults \in Nat

VARIABLES
    \* the session's stream: one entry for each question, and what it derives
    requested, resolved, granted, plan,
    \* the process: the run, the aggregate it drives, the queue it owns
    run, live, mode, seesGrant, seesPlan, used, pc, wake,
    pending, answer, saved,
    registry,   \* approval_queues: the run whose queue is found, or none (0)
    closing,    \* runs that ended and whose done callback is due
    req,        \* what the users are about to answer
    torn,       \* history: questions whose pairing could not be written
    faults

stream  == <<requested, resolved, granted, plan>>
queue   == <<pending, answer, saved>>
drive   == <<run, live, mode, seesGrant, seesPlan>>
vars == <<stream, drive, used, pc, wake, queue, registry, closing, req, torn, faults>>

Approvals == {"once", "session"}
Decisions == Approvals \cup {"deny"}
None      == [call |-> 0, decision |-> "deny", at |-> "free"]
Refused   == [None EXCEPT !.at = "refused"]
Asked(c)  == pc[c] = "asking"
Before    == {"idle", "asking", "passed"}
Admitted  == {"ran", "erred"}
Ended     == Admitted \cup {"blocked", "refused", "denied", "repeated", "skipped",
                            "broken", "stopped", "lost"}

TypeOK ==
    /\ requested \subseteq Calls
    /\ resolved \in [Calls -> Seq(Decisions)]
    /\ granted \in BOOLEAN /\ plan \in BOOLEAN
    /\ run \in Runs \cup {0} /\ live \in BOOLEAN /\ mode \in {"parallel", "serial"}
    /\ seesGrant \in BOOLEAN /\ seesPlan \in BOOLEAN
    /\ used \in 0 .. Ceiling
    /\ pc \in [Calls -> Before \cup Ended]
    /\ wake \in [Calls -> {"none", "result", "timeout", "cancel"}]
    /\ pending \subseteq Calls /\ saved \subseteq Calls
    /\ answer \in [Calls -> Decisions \cup {"none"}]
    /\ registry \in Runs \cup {0} /\ closing \subseteq Runs
    /\ req \in [Users -> [call : Calls \cup {0}, decision : Decisions,
                          at : {"free", "reading", "accepted", "refused"}]]
    /\ torn \subseteq Calls /\ faults \in 0 .. MaxFaults

Init ==
    /\ requested = {} /\ resolved = [c \in Calls |-> <<>>]
    /\ granted = FALSE /\ plan = FALSE
    /\ run = 0 /\ live = FALSE /\ mode = "parallel"
    /\ seesGrant = FALSE /\ seesPlan = FALSE /\ used = 0
    /\ pc = [c \in Calls |-> "idle"] /\ wake = [c \in Calls |-> "none"]
    /\ pending = {} /\ answer = [c \in Calls |-> "none"] /\ saved = {}
    /\ registry = 0 /\ closing = {}
    /\ req = [u \in Users |-> None] /\ torn = {} /\ faults = 0
-----------------------------------------------------------------------------
(* The batch                                                                *)
Batch    == {c \in Calls : RunOf[c] = run}
Later(c) == {d \in Batch : d > c}
MyTurn(c) ==
    \A d \in Batch : d < c =>
        pc[d] \in (IF mode = "serial" THEN {"ran"} ELSE (Before \ {"idle"}) \cup Ended)

(* A call leaves the gates, or its tool, for s.  A serial batch stops at    *)
(* the first call that does not succeed.                                    *)
Goes(c, s) ==
    pc' = [d \in Calls |->
             IF d = c THEN s
             ELSE IF mode = "serial" /\ d \in Later(c) /\ s \in Ended \ {"ran"}
             THEN IF s \in {"broken", "stopped"} THEN "stopped" ELSE "skipped"
             ELSE pc[d]]

Release == used' = IF used > 0 THEN used - 1 ELSE used

(* An append: the line is written and synced; it is not written; or it is   *)
(* written and the sync fails, which the caller learns as a failure.        *)
Failures == {"lost", "unsure"}
OnDisk(how) == how \in {"ok", "unsure"}

\* MUTANT: the id is remembered before the append.
Resolves_Remembered(c, d, how) ==
    IF c \in saved THEN how = "ok" /\ UNCHANGED <<resolved, saved>>
    ELSE /\ saved' = saved \cup {c}
         /\ resolved' = [resolved EXCEPT ![c] = IF OnDisk(how) THEN Append(@, d) ELSE @]
(* _persist_resolution                                                      *)
Resolves(c, d, how) ==
    IF c \in saved THEN how = "ok" /\ UNCHANGED <<resolved, saved>>
    ELSE /\ resolved' = [resolved EXCEPT ![c] = IF OnDisk(how) THEN Append(@, d) ELSE @]
         /\ saved' = IF how = "ok" THEN saved \cup {c} ELSE saved
-----------------------------------------------------------------------------
(* execute() from the Plan gate to the first await                          *)
GrantHit(c) == seesGrant /\ c \notin EachTime

Enters(c) == live /\ c \in Batch /\ pc[c] = "idle" /\ MyTurn(c)

PlanBlocks(c) ==
    /\ Enters(c) /\ seesPlan /\ c \notin ReadOnly
    /\ Goes(c, "blocked")
    /\ UNCHANGED <<stream, drive, used, wake, queue, registry, closing, req, torn>>

QuotaRefuses(c) ==
    /\ Enters(c) /\ ~(seesPlan /\ c \notin ReadOnly) /\ used >= Ceiling
    /\ Goes(c, "refused")
    /\ UNCHANGED <<stream, drive, used, wake, queue, registry, closing, req, torn>>

Takes(c) ==
    /\ Enters(c) /\ ~(seesPlan /\ c \notin ReadOnly) /\ used < Ceiling
    /\ used' = used + 1

PassesUnasked(c) ==
    /\ Takes(c) /\ (c \notin NeedsAsk \/ GrantHit(c))
    /\ Goes(c, "passed")
    /\ UNCHANGED <<stream, drive, wake, queue, registry, closing, req, torn>>

(* A grant that is there may have run out of time.                          *)
Asks(c, how) ==
    /\ Takes(c) /\ c \in NeedsAsk
    /\ pending' = pending \cup {c}
    /\ requested' = IF OnDisk(how) THEN requested \cup {c} ELSE requested
    /\ Goes(c, IF how = "ok" THEN "asking" ELSE "broken")
    /\ torn' = IF how = "unsure" THEN torn \cup {c} ELSE torn
    /\ UNCHANGED <<resolved, granted, plan, drive, wake, answer, saved,
                   registry, closing, req>>
-----------------------------------------------------------------------------
(* What ends the wait.  A timer cancels the future, or the task if the      *)
(* result is there already; a cancellation of the run outdoes both.         *)
Timer(c) ==
    /\ Asked(c) /\ wake[c] \in {"none", "result"}
    /\ wake' = [wake EXCEPT ![c] = "timeout"]
    /\ UNCHANGED <<stream, drive, used, pc, queue, registry, closing, req, torn>>

CancelRun ==
    /\ live /\ \E c \in Batch : pc[c] \in Before /\ wake[c] # "cancel"
    /\ wake' = [c \in Calls |-> IF c \in Batch /\ Asked(c) THEN "cancel" ELSE wake[c]]
    /\ pc' = [c \in Calls |-> IF c \in Batch /\ pc[c] \in {"idle", "passed"}
                              THEN "stopped" ELSE pc[c]]
    /\ UNCHANGED <<stream, drive, used, queue, registry, closing, req, torn>>

(* The rest of _check_approval and of the gate, with the response d.        *)
Leaves(c, d, how) ==
    \/ /\ d = "deny" /\ how = "ok" /\ Goes(c, "denied") /\ Release
       /\ UNCHANGED <<granted, seesGrant>>
    \/ /\ d = "once" /\ how = "ok" /\ Goes(c, "passed")
       /\ UNCHANGED <<used, granted, seesGrant>>
    \/ /\ d = "session"
       /\ granted' = (granted \/ OnDisk(how)) /\ seesGrant' = (seesGrant \/ how = "ok")
       /\ Goes(c, IF how = "ok" THEN "passed" ELSE "broken")
       /\ UNCHANGED used

Wakes(c, why) ==
    /\ Asked(c) /\ wake[c] = why
    /\ wake' = [wake EXCEPT ![c] = "none"]
    /\ UNCHANGED <<requested, plan, run, live, mode, seesPlan, registry, closing, req>>

(* The callback pairs the question unless /approve has, and returns.  One   *)
(* of the two appends may fail.                                             *)
Returns(c, how) ==
    \/ /\ Resolves(c, answer'[c], "ok") /\ Leaves(c, answer'[c], how)
       /\ UNCHANGED torn
    \/ /\ how # "ok" /\ Resolves(c, answer'[c], how)
       /\ Goes(c, "broken") /\ torn' = torn \cup {c}
       /\ UNCHANGED <<used, granted, seesGrant>>

WakesAnswered(c, how) ==
    Wakes(c, "result") /\ UNCHANGED <<pending, answer>> /\ Returns(c, how)

\* MUTANT: the timeout has the last word.
Expires_Overrules(c) ==
    /\ pending' = pending \ {c}
    /\ answer' = [answer EXCEPT ![c] = "deny"]
Expires(c) ==
    /\ pending' = pending \ {c}
    /\ answer' = [answer EXCEPT ![c] = IF c \in pending THEN "deny" ELSE @]

TimesOut(c, how) == Wakes(c, "timeout") /\ Expires(c) /\ Returns(c, how)

(* A failure to write is logged only; the cancellation goes on.             *)
IsCancelled(c, how) ==
    /\ Wakes(c, "cancel") /\ Expires(c)
    /\ Resolves(c, answer'[c], how)
    /\ torn' = IF how = "ok" THEN torn ELSE torn \cup {c}
    /\ Goes(c, "stopped")
    /\ UNCHANGED <<used, granted, seesGrant>>

\* MUTANT: a repeated id keeps its slot.
CreatesRow_Kept(c) ==
    /\ live /\ pc[c] = "passed"
    /\ \E s \in Admitted \cup {"repeated"} : (s = "repeated" <=> c \in Repeated) /\ Goes(c, s)
    /\ UNCHANGED <<stream, drive, used, wake, queue, registry, closing, req, torn>>
(* The ledger row is created, which only a new id can, and the tool runs.   *)
CreatesRow(c) ==
    /\ live /\ pc[c] = "passed"
    /\ \/ /\ c \in Repeated /\ Goes(c, "repeated") /\ Release
       \/ /\ c \notin Repeated /\ UNCHANGED used
          /\ \E s \in Admitted : Goes(c, s)
    /\ UNCHANGED <<stream, drive, wake, queue, registry, closing, req, torn>>
-----------------------------------------------------------------------------
(* /approve: the events are read on a thread, the rest is one step.  A      *)
(* question that has its answer is refused at once, which changes nothing.  *)
Reads(u, c, d) ==
    /\ req[u].at = "free" /\ c \in requested /\ resolved[c] = <<>>
    /\ req' = [req EXCEPT ![u] = [call |-> c, decision |-> d, at |-> "reading"]]
    /\ ~(d = "session" /\ c \in EachTime)
    /\ UNCHANGED <<stream, drive, used, pc, wake, queue, registry, closing, torn>>

Found(c) == registry = RunOf[c] /\ c \in pending

Accepts(u) ==
    LET c == req[u].call  d == req[u].decision IN
    /\ req[u].at = "reading" /\ Found(c)
    /\ Resolves(c, d, "ok")
    /\ pending' = pending \ {c}
    /\ answer' = [answer EXCEPT ![c] = d]
    /\ wake' = [wake EXCEPT ![c] = IF Asked(c) /\ @ = "none" THEN "result" ELSE @]
    /\ req' = [req EXCEPT ![u].at = "accepted"]
    /\ UNCHANGED <<requested, granted, plan, drive, used, pc, registry, closing, torn>>

(* The append fails: 500, and the question stays open in the queue.  The    *)
(* user gives up, which bounds how often an append fails.                   *)
FailsToAccept(u, how) ==
    LET c == req[u].call IN
    /\ req[u].at = "reading" /\ Found(c)
    /\ how \in Failures /\ Resolves(c, req[u].decision, how)
    /\ req' = [req EXCEPT ![u] = Refused]
    /\ UNCHANGED <<requested, granted, plan, drive, used, pc, wake, pending, answer,
                   registry, closing, torn>>

Rejects(u) ==
    /\ req[u].at = "reading" /\ ~Found(req[u].call)
    /\ req' = [req EXCEPT ![u] = None]
    /\ UNCHANGED <<stream, drive, used, pc, wake, queue, registry, closing, torn>>

(* set_workflow_mode and revoke_approval_grant load an aggregate of their   *)
(* own: the run that is driven keeps what its own aggregate has seen.       *)
SetMode(p) ==
    /\ plan # p /\ plan' = p
    /\ UNCHANGED <<requested, resolved, granted, drive, used, pc, wake, queue, registry,
                   closing, req, torn>>

Revoke ==
    /\ granted /\ granted' = FALSE
    /\ UNCHANGED <<requested, resolved, plan, drive, used, pc, wake, queue, registry,
                   closing, req, torn>>
-----------------------------------------------------------------------------
(* Runs.  A relay starts the next run, with a queue of its own, before the  *)
(* done callback of the last.                                               *)
(* bash and write change something, which makes their batch serial.         *)
Launch ==
    /\ ~live /\ run + 1 \in Runs
    /\ run' = run + 1 /\ live' = TRUE /\ registry' = run + 1
    /\ mode' \in Modes
    /\ mode' = "parallel" => \A c \in NeedsAsk : RunOf[c] = run + 1 => c \in EachTime
    /\ seesGrant' = granted /\ seesPlan' = plan /\ used' = 0
    /\ pending' = {} /\ saved' = {} /\ answer' = [c \in Calls |-> "none"]
    /\ UNCHANGED <<stream, pc, wake, closing, req, torn>>

Finish ==
    /\ live /\ \A c \in Batch : pc[c] \in Ended
    /\ live' = FALSE /\ closing' = closing \cup {run}
    /\ UNCHANGED <<stream, run, mode, seesGrant, seesPlan, used, pc, wake, queue,
                   registry, req, torn>>

\* MUTANT: the queue is collected by the key of the session.
Collect_Any(r) ==
    /\ r \in closing /\ closing' = closing \ {r} /\ registry' = 0
    /\ UNCHANGED <<stream, drive, used, pc, wake, queue, req, torn>>
(* The done callback of a run collects its own queue.                       *)
Collect(r) ==
    /\ r \in closing /\ closing' = closing \ {r}
    /\ registry' = IF registry = r THEN 0 ELSE registry
    /\ UNCHANGED <<stream, drive, used, pc, wake, queue, req, torn>>

Crash ==
    /\ live
    /\ live' = FALSE /\ registry' = 0 /\ closing' = {}
    /\ pending' = {} /\ saved' = {} /\ answer' = [c \in Calls |-> "none"]
    /\ pc' = [c \in Calls |-> IF c \in Batch /\ pc[c] \in Before THEN "lost" ELSE pc[c]]
    /\ wake' = [c \in Calls |-> "none"]
    /\ req' = [u \in Users |-> IF req[u].at = "reading" THEN None ELSE req[u]]
    /\ UNCHANGED <<stream, run, mode, seesGrant, seesPlan, used, torn>>

(* The recovery denies what nobody will answer any more.  It awaits several *)
(* times first, so that the done callback of the last run is through.       *)
Recover(c) ==
    /\ ~live /\ run \notin closing /\ c \in requested /\ resolved[c] = <<>>
    /\ resolved' = [resolved EXCEPT ![c] = <<"deny">>]
    /\ UNCHANGED <<requested, granted, plan, drive, used, pc, wake, queue, registry,
                   closing, req, torn>>

Appends(c, how) ==
    Asks(c, how) \/ WakesAnswered(c, how) \/ TimesOut(c, how) \/ IsCancelled(c, how)

Fault ==
    \/ \E c \in Calls, how \in Failures : Appends(c, how)
    \/ \E u \in Users, how \in Failures : FailsToAccept(u, how)
    \/ Crash

Step ==
    \/ \E c \in Calls :
          \/ PlanBlocks(c) \/ QuotaRefuses(c) \/ PassesUnasked(c) \/ CreatesRow(c)
          \/ Appends(c, "ok") \/ Timer(c) \/ Recover(c)
    \/ \E u \in Users : \/ \E c \in Calls, d \in Decisions : Reads(u, c, d)
                        \/ Accepts(u) \/ Rejects(u)
    \/ \E p \in BOOLEAN : SetMode(p)
    \/ Revoke \/ CancelRun \/ Launch \/ Finish
    \/ \E r \in Runs : Collect(r)

Next ==
    \/ Step /\ UNCHANGED faults
    \/ Fault /\ faults < MaxFaults /\ faults' = faults + 1

Spec == Init /\ [][Next]_vars
-----------------------------------------------------------------------------
Decided(c, D) == ToSet(resolved[c]) \cap D # {}

(* A call above the permission of the session starts only after a person's  *)
(* approval is in the stream: for this call, or for the session by another  *)
(* call, never only in memory.                                              *)
DurableConsent ==
    \A c \in NeedsAsk :
        pc[c] \in {"passed", "repeated"} \cup Admitted =>
            \/ Decided(c, Approvals)
            \/ c \notin EachTime /\ \E d \in Calls : Decided(d, {"session"})

(* The answer that a user was told is accepted stands: it is the last word  *)
(* in the stream, no other user got one accepted, and the call obeys it,    *)
(* whatever timers, cancellations and failing writes came in between.       *)
AcknowledgedStands ==
    \A u \in Users : req[u].at = "accepted" =>
        LET c == req[u].call  d == req[u].decision IN
        /\ resolved[c] # <<>> /\ Last(resolved[c]) = d
        /\ \A v \in Users \ {u} : req[v].at = "accepted" => req[v].call # c
        /\ pc[c] \notin (IF d = "deny" THEN {"passed", "repeated"} \cup Admitted
                         ELSE {"denied"})

(* A question without an answer in the stream has a call that waits for it, *)
(* and /approve finds it in the queue of that run, although the done        *)
(* callback of an earlier run may come late; unless a write failed or the   *)
(* process died: otherwise the session could never be completed again.      *)
OpenQuestionIsAwaited ==
    \A c \in requested : resolved[c] = <<>> =>
        \/ live /\ Asked(c) /\ Found(c)
        \/ c \in torn \/ pc[c] = "lost"

(* The window of a batch counts the calls that are being asked about or     *)
(* were admitted, not one more.                                             *)
SlotsExact ==
    live /\ (\A c \in Batch : pc[c] # "stopped") =>
        used = Cardinality({c \in Batch : pc[c] \in {"asking", "passed", "broken"} \cup Admitted})
=============================================================================
