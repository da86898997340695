----------------------------- MODULE SessionBudget -----------------------------
(***************************************************************************)
(* The agents of one session tree at work on one SessionBudget: the loop   *)
(* of AgentRuntime between the admission of a step and its settlement, its *)
(* arms for a cancellation or an exception, the closeout of a pause, and   *)
(* the scan that reconciles the ledger with the event streams after the    *)
(* process has died (recovery/scan.py).  The stream and the ledger are     *)
(* different stores: started[m] and settled[m] count the events            *)
(* model/request-started and model/request in the interval of marker m.    *)
(***************************************************************************)
EXTENDS BudgetLedger

CONSTANTS MaxAttempts,  \* the primary model and its fallbacks
          MaxSteps,     \* bound: steps accepted by an agent
          MaxFaults,    \* bound: calls of a store that fail or are interrupted
          MaxCrashes    \* bound: deaths of the process

ASSUME BudgetAssumption ==
    /\ MaxAttempts \in Nat \ {0}
    /\ {MaxSteps, MaxFaults, MaxCrashes} \subseteq Nat

VARIABLES
    started, settled,
    agent,      \* where the run of each agent stands
    unscanned,  \* sessions that the scan at the start has still to visit
    faults, crashes,
    accepted,   \* history: decisions that the loop has accepted
    lost        \* history: markers on which a call of a store has failed

streamVars == <<started, settled>>
vars == <<ledgerVars, streamVars, agent, unscanned, faults, crashes, accepted, lost>>

Places == {"top", "admitted", "waiting", "answered", "recorded", "pausing",
           "raised", "refunded", "drained", "over"}
(* acc is session_request_accounting, reserved is session_step_reserved,    *)
(* room what the snapshot of a pause says of the capacity for a closeout.   *)
Fresh == [at |-> "top", acc |-> NoMarker, reserved |-> FALSE, steps |-> 0, room |-> FALSE]

TypeOK ==
    /\ LedgerTypeOK
    /\ started \in [Markers -> 0..MaxAttempts]
    /\ settled \in [Markers -> 0..MaxAttempts]
    /\ agent \in [Agents -> [at : Places, acc : Markers \cup {NoMarker},
                             reserved : BOOLEAN, steps : 0..MaxSteps, room : BOOLEAN]]
    /\ unscanned \subseteq Agents
    /\ faults \in 0..MaxFaults /\ crashes \in 0..MaxCrashes
    /\ accepted \in Nat
    /\ lost \subseteq Markers

Init ==
    /\ LedgerInit
    /\ started = [m \in Markers |-> 0]
    /\ settled = [m \in Markers |-> 0]
    /\ agent = [a \in Agents |-> Fresh]
    /\ unscanned = {}
    /\ faults = 0 /\ crashes = 0
    /\ accepted = 0
    /\ lost = {}
-----------------------------------------------------------------------------
At(a, place) == unscanned = {} /\ agent[a].at = place
Go(a, place) == agent' = [agent EXCEPT ![a].at = place]
Acc(a) == agent[a].acc
IsStep(m) == marker[m].reserved = 1

(* A call of a store fails, or is interrupted although it has committed.    *)
Fault ==
    /\ faults < MaxFaults
    /\ faults' = faults + 1
    /\ UNCHANGED <<crashes, accepted>>
Well == UNCHANGED <<faults, crashes, accepted, lost>>

(* A call on marker m that raises: it blocks the marker, whether or not its *)
(* transaction has committed.                                               *)
Raises(m, Call) ==
    /\ Fault
    /\ Block(m)
    /\ lost' = lost \cup {m}
    /\ Call \/ UNCHANGED <<turns, requests, marker>>
Returns(m, Call) == Call /\ Unblock(m) /\ Well
-----------------------------------------------------------------------------
(* The loop *)

(* A new admission; raised when an interval is not reconciled, when the     *)
(* store fails, or when a cancellation interrupts the call.                 *)
Admit(a) ==
    /\ At(a, "top")
    /\ agent[a].steps < MaxSteps
    /\ \/ /\ AdmitSessionStep(a)
          /\ agent' = [agent EXCEPT ![a].at = "admitted", ![a].acc = NextMarker,
                                    ![a].reserved = TRUE]
          /\ Well
       \/ /\ Unreconciled # {}
          /\ Go(a, "raised")
          /\ UNCHANGED <<turns, requests, marker>> /\ Well
       \/ /\ AdmitSessionStep(a)
          /\ Go(a, "raised")
          /\ Fault /\ lost' = lost \cup {NextMarker}
    /\ UNCHANGED <<blocked, life, streamVars, unscanned>>

(* A pause, at a ceiling or for another reason, with what it has read.      *)
Pause(a) ==
    /\ At(a, "top")
    /\ agent' = [agent EXCEPT ![a].at = "pausing", ![a].room = CloseoutCapacity]
    /\ UNCHANGED <<ledgerVars, streamVars, unscanned>> /\ Well

(* context_exceeded: the model was not called, the whole step is refunded.  *)
ExceedContext(a) ==
    /\ At(a, "admitted")
    /\ agent[a].reserved /\ started[Acc(a)] = 0
    /\ \/ /\ Returns(Acc(a), RefundStep(Acc(a)))
          /\ agent' = [agent EXCEPT ![a].at = "over", ![a].acc = NoMarker,
                                    ![a].reserved = FALSE]
       \/ /\ Raises(Acc(a), RefundStep(Acc(a)))
          /\ agent' = [agent EXCEPT ![a].at = "raised", ![a].reserved = FALSE]
    /\ UNCHANGED <<life, streamVars, unscanned>>

(* record_request_started, durable before the provider is called.           *)
StartRequest(a) ==
    /\ At(a, "admitted")
    /\ started[Acc(a)] < (IF IsStep(Acc(a)) THEN MaxAttempts ELSE 1)
    /\ started' = [started EXCEPT ![Acc(a)] = @ + 1]
    /\ Go(a, "waiting")
    /\ UNCHANGED <<ledgerVars, settled, unscanned>> /\ Well

(* The provider answers or fails: model/request.  A failed request of a     *)
(* step may be followed by one of a fallback; a failed closeout is recorded.*)
EndRequest(a) ==
    /\ At(a, "waiting")
    /\ settled' = [settled EXCEPT ![Acc(a)] = @ + 1]
    /\ \/ Go(a, "answered")
       \/ IsStep(Acc(a)) /\ Go(a, "admitted")
    /\ UNCHANGED <<ledgerVars, started, unscanned>> /\ Well

(* _record_active_session_model_requests                                    *)
Record(a) ==
    /\ At(a, "answered")
    /\ \/ /\ Returns(Acc(a), RecordRequests(Acc(a), settled[Acc(a)]))
          /\ agent' = [agent EXCEPT ![a].at = "recorded", ![a].acc = NoMarker]
       \/ /\ Raises(Acc(a), RecordRequests(Acc(a), settled[Acc(a)]))
          /\ Go(a, "raised")
    /\ UNCHANGED <<life, streamVars, unscanned>>

\* MUTANT: session_step_reserved is not reset.
Accept_Unreset(a) ==
    /\ At(a, "recorded")
    /\ \/ /\ agent[a].reserved
          /\ accepted' = accepted + 1
          /\ agent' = [agent EXCEPT ![a].at = "top", ![a].steps = @ + 1]
       \/ /\ ~agent[a].reserved
          /\ Go(a, "over")
          /\ UNCHANGED accepted
    /\ UNCHANGED <<ledgerVars, streamVars, unscanned, faults, crashes, lost>>

(* The decision is accepted, or the closeout of the pause is done.          *)
Accept(a) ==
    /\ At(a, "recorded")
    /\ \/ /\ agent[a].reserved
          /\ accepted' = accepted + 1
          /\ agent' = [agent EXCEPT ![a].at = "top", ![a].reserved = FALSE,
                                    ![a].steps = @ + 1]
       \/ /\ ~agent[a].reserved
          /\ Go(a, "over")
          /\ UNCHANGED accepted
    /\ UNCHANGED <<ledgerVars, streamVars, unscanned, faults, crashes, lost>>

(* _closeout_continuation: one more request, if the pause has left room for *)
(* it and the run has something to sum up.                                  *)
MaySumUp(a) == agent[a].steps > 0 /\ agent[a].room
Closeout(a) ==
    /\ At(a, "pausing")
    /\ \/ /\ MaySumUp(a)
          /\ BeginAccounting(a)
          /\ agent' = [agent EXCEPT ![a].at = "admitted", ![a].acc = NextMarker]
          /\ Well
       \/ /\ MaySumUp(a)
          /\ BeginAccounting(a)
          /\ Go(a, "raised")
          /\ Fault /\ lost' = lost \cup {NextMarker}
       \/ /\ MaySumUp(a)
          /\ Unreconciled # {}
          /\ Go(a, "raised")
          /\ UNCHANGED <<turns, requests, marker>> /\ Well
       \/ /\ ~MaySumUp(a)
          /\ Go(a, "over")
          /\ UNCHANGED <<turns, requests, marker>> /\ Well
    /\ UNCHANGED <<blocked, life, streamVars, unscanned>>
-----------------------------------------------------------------------------
(* The arms of run_stream *)

(* A cancellation or an exception, wherever the run stands.                 *)
Raise(a) ==
    /\ \E place \in {"top", "admitted", "waiting", "answered", "recorded", "pausing"} : At(a, place)
    /\ Go(a, "raised")
    /\ UNCHANGED <<ledgerVars, streamVars, unscanned>> /\ Well

Attempts(m) == IF m = NoMarker THEN 0 ELSE started[m]

(* The reservation of a step that was not accepted: all of it when the      *)
(* model was not called, otherwise the turn.  A failure is logged.          *)
ArmRefund(a) ==
    /\ At(a, "raised")
    /\ \/ /\ ~agent[a].reserved
          /\ Go(a, "refunded")
          /\ UNCHANGED <<turns, requests, marker, blocked>> /\ Well
       \/ /\ agent[a].reserved
          /\ \/ /\ Acc(a) # NoMarker /\ Attempts(Acc(a)) = 0
                /\ \/ /\ Returns(Acc(a), RefundStep(Acc(a)))
                      /\ agent' = [agent EXCEPT ![a].at = "refunded", ![a].acc = NoMarker,
                                                ![a].reserved = FALSE]
                   \/ /\ Raises(Acc(a), RefundStep(Acc(a)))
                      /\ agent' = [agent EXCEPT ![a].at = "refunded", ![a].reserved = FALSE]
             \/ /\ Acc(a) = NoMarker \/ Attempts(Acc(a)) > 0
                /\ \/ RefundTurn /\ Well
                   \/ UNCHANGED <<turns, requests, marker, lost>> /\ Fault
                /\ UNCHANGED blocked
                /\ agent' = [agent EXCEPT ![a].at = "refunded", ![a].reserved = FALSE]
    /\ UNCHANGED <<life, streamVars, unscanned>>

(* interrupt_streams: every request that was sent gets its model/request.   *)
ArmDrain(a) ==
    /\ At(a, "refunded")
    /\ Go(a, "drained")
    /\ \/ /\ settled' = IF Acc(a) = NoMarker THEN settled
                        ELSE [settled EXCEPT ![Acc(a)] = started[Acc(a)]]
          /\ Well
       \/ UNCHANGED <<settled, lost>> /\ Fault
    /\ UNCHANGED <<ledgerVars, started, unscanned>>

(* _record_active_session_model_requests once more; a failure is logged.    *)
ArmRecord(a) ==
    /\ At(a, "drained")
    /\ agent' = [agent EXCEPT ![a].at = "over", ![a].acc = NoMarker]
    /\ LET m == Acc(a) IN
         \/ /\ Attempts(m) > 0 /\ settled[m] > 0
            /\ \/ Returns(m, RecordRequests(m, settled[m]))
               \/ Raises(m, RecordRequests(m, settled[m]))
         \/ /\ Attempts(m) > 0 /\ settled[m] = 0
            /\ \/ Returns(m, ResolveUnsettled(m))
               \/ Raises(m, ResolveUnsettled(m))
         \/ /\ Attempts(m) = 0
            /\ UNCHANGED <<turns, requests, marker, blocked>> /\ Well
    /\ UNCHANGED <<life, streamVars, unscanned>>
-----------------------------------------------------------------------------
(* Death and recovery of the process *)

Crash ==
    /\ crashes < MaxCrashes
    /\ crashes' = crashes + 1
    /\ life' = life + 1
    /\ blocked' = {}
    /\ agent' = [a \in Agents |-> Fresh]
    /\ unscanned' = Agents
    /\ lost' = {}
    /\ UNCHANGED <<turns, requests, marker, streamVars, faults, accepted>>

(* _recover_session_model_requests: what the stream says of the interval.   *)
Reconcile(m) ==
    \/ settled[m] > 0 /\ RecordRequests(m, settled[m])
    \/ settled[m] = 0 /\ started[m] > 0 /\ ResolveUnsettled(m)
    \/ settled[m] = 0 /\ started[m] = 0 /\ ResolveEmpty(m)

Scan(a) ==
    /\ a \in unscanned
    /\ \/ \E m \in Orphans(a) :
            /\ Returns(m, Reconcile(m))
            /\ UNCHANGED unscanned
       \/ /\ Orphans(a) = {}
          /\ unscanned' = unscanned \ {a}
          /\ UNCHANGED <<turns, requests, marker, blocked>> /\ Well
       \/ /\ Orphans(a) # {}  \* a call fails, or the session is passed over
          /\ blocked' \in {blocked \cup Orphans(a), blocked}
          /\ lost' = lost \cup Orphans(a)
          /\ unscanned' = unscanned \ {a}
          /\ Fault
          /\ UNCHANGED <<turns, requests, marker>>
    /\ UNCHANGED <<life, streamVars, agent>>
-----------------------------------------------------------------------------
LoopStep(a) == Admit(a) \/ Pause(a) \/ ExceedContext(a) \/ StartRequest(a) \/ EndRequest(a)
                 \/ Record(a) \/ Accept(a) \/ Closeout(a)
ArmStep(a)  == Raise(a) \/ ArmRefund(a) \/ ArmDrain(a) \/ ArmRecord(a)

Next ==
    \/ \E a \in Agents : LoopStep(a) \/ ArmStep(a) \/ Scan(a)
    \/ Crash

Spec == Init /\ [][Next]_vars
-----------------------------------------------------------------------------
(* Properties *)

(* What the row says of the requests is what the streams say: an open       *)
(* interval is worth its reservation, a closed one the requests that were   *)
(* settled in it, the reservation when a request was only started, and      *)
(* nothing when none was.  Holds across every failure and death: no request *)
(* is counted twice (refund, replay, scan) and no settled one is dropped.   *)
Worth(m) ==
    CASE marker[m].state = "unused"                -> 0
      [] marker[m].state = "open"                  -> marker[m].reserved
      [] OTHER -> IF started[m] = 0 THEN 0
                  ELSE LET r == marker[m].reserved IN r + Less(settled[m], r)
Due == UNION {{m} \X (1..Worth(m)) : m \in Markers}
CountAddsUp == requests = Cardinality(Due)

(* A refund never takes away the turn of a decision that was accepted, nor  *)
(* that of a step which is still being decided.                             *)
TurnsStand == turns >= accepted + Cardinality({a \in Agents : agent[a].reserved})

(* A step is admitted on the whole count: every settled request of an       *)
(* interval that no run of this process is at work on is counted by then    *)
(* (docs/phase_status/2026-10.md: settled once after a kill, the ceiling    *)
(* stays in force).                                                         *)
InHand(m) == \E a \in Agents : agent[a].acc = m
Counted(m) == marker[m].state = "recorded" \/ settled[m] <= marker[m].reserved
AdmittedOnWholeCount ==
    [][turns' > turns => \A m \in Markers : InHand(m) \/ Counted(m)]_vars

(* The tree is locked out of its budget only because a call of a store has  *)
(* failed in this process: neither a death nor a cancellation at any point  *)
(* does that once the scan is over.                                         *)
LockedOutForAReason == unscanned = {} => Unreconciled \subseteq lost
=============================================================================
