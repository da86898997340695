----------------------------- MODULE BudgetLedger -----------------------------
(***************************************************************************)
(* The row of one SessionBudget (storage/delegation_tree.py): the turns    *)
(* and the model requests that a whole tree of sessions has used, and the  *)
(* audit events that bracket every interval of model requests.  A marker   *)
(* (model_request_accounting_started) opens an interval; requests_recorded,*)
(* request_accounting_empty or request_accounting_unsettled closes it.     *)
(* Every operator is one BEGIN IMMEDIATE transaction.  Tokens, cost,       *)
(* deadline and the per-tool tables have ceilings of their own and are     *)
(* left out, and so are the tightening and the update of the ceilings.     *)
(***************************************************************************)
EXTENDS Naturals, FiniteSets

CONSTANTS Agents,          \* sessions of the tree: the parent and its children
          MaxMarkers,      \* bound: intervals of model requests
          TurnCeiling,     \* max_agent_turns_total
          RequestCeiling,  \* max_model_requests
          Nobody

ASSUME LedgerAssumption ==
    /\ {MaxMarkers, TurnCeiling, RequestCeiling} \subseteq Nat
    /\ Nobody \notin Agents
    /\ IsFiniteSet(Agents)

Markers  == 1..MaxMarkers
NoMarker == 0

RESERVED_CLOSEOUT_TURNS    == 1
RESERVED_CLOSEOUT_REQUESTS == 1

VARIABLES turns, requests,  \* consumed.agent_turns, consumed.model_requests
          marker,           \* the markers and what has closed them
          blocked,          \* _blocked_model_request_accountings, in memory
          life              \* owner_id: which process this is

ledgerVars == <<turns, requests, marker, blocked, life>>

Closings == {"recorded", "empty", "unsettled"}
Unused == [state |-> "unused", agent |-> Nobody, reserved |-> 0, owner |-> 0]

LedgerTypeOK ==
    /\ turns \in Nat
    /\ requests \in Nat
    /\ marker \in [Markers -> [state : {"unused", "open"} \cup Closings,
                               agent : Agents \cup {Nobody},
                               reserved : {0, 1}, owner : Nat]]
    /\ blocked \subseteq Markers
    /\ life \in Nat

LedgerInit ==
    /\ turns = 0 /\ requests = 0
    /\ marker = [m \in Markers |-> Unused]
    /\ blocked = {}
    /\ life = 1
-----------------------------------------------------------------------------
Pending == {m \in Markers : marker[m].state = "open"}

\* MUTANT: only what this process has failed to settle is waited for.
Unreconciled_OwnOnly == Pending \cap blocked
(* What forbids new work: an interval that a dead process has left open, or *)
(* one that this process could not settle.                                  *)
Unreconciled == {m \in Pending : marker[m].owner # life \/ m \in blocked}

\* MUTANT: the scan does not see the intervals of closeouts.
Orphans_Admitted(a) == {m \in Pending : marker[m].agent = a /\ marker[m].owner # life
                                        /\ marker[m].reserved = 1}
(* pending_model_request_accountings: what the scan of a session may close. *)
Orphans(a) == {m \in Pending : marker[m].agent = a /\ marker[m].owner # life}

Less(n, k) == IF n >= k THEN n - k ELSE 0

(* _session_dimension_reached and session_closeout_capacity: a step leaves  *)
(* room for a closeout, a closeout needs room for itself.                   *)
Reached ==
    \/ turns + RESERVED_CLOSEOUT_TURNS >= TurnCeiling
    \/ requests + RESERVED_CLOSEOUT_REQUESTS >= RequestCeiling
CloseoutCapacity == turns < TurnCeiling /\ requests < RequestCeiling

Free == {m \in Markers : marker[m].state = "unused"}
NextMarker == CHOOSE m \in Free : TRUE

Open(a, k) ==
    /\ Free # {}
    /\ marker' = [marker EXCEPT ![NextMarker] =
                    [state |-> "open", agent |-> a, reserved |-> k, owner |-> life]]

Close(m, how) == marker' = [marker EXCEPT ![m].state = how]

Block(m)   == blocked' = blocked \cup {m}
Unblock(m) == blocked' = blocked \ {m}
-----------------------------------------------------------------------------
(* admit_session_step: the verdict, the reservation and the marker.         *)
AdmitSessionStep(a) ==
    /\ Unreconciled = {}
    /\ ~Reached
    /\ Open(a, 1)
    /\ turns' = turns + 1
    /\ requests' = requests + 1

(* begin_session_model_request_accounting: a closeout reserves nothing.     *)
BeginAccounting(a) ==
    /\ Unreconciled = {}
    /\ Open(a, 0)
    /\ UNCHANGED <<turns, requests>>

(* refund_session_turn                                                      *)
RefundTurn ==
    /\ turns' = Less(turns, 1)
    /\ UNCHANGED <<requests, marker>>

(* refund_session_step                                                      *)
RefundStep(m) ==
    /\ turns' = Less(turns, 1)
    /\ requests' = Less(requests, 1)
    /\ Close(m, "empty")

(* resolve_empty_session_model_request_accounting                           *)
ResolveEmpty(m) ==
    /\ m \in Pending
    /\ turns' = Less(turns, marker[m].reserved)
    /\ requests' = Less(requests, marker[m].reserved)
    /\ Close(m, "empty")

(* resolve_unsettled_session_model_request_accounting                       *)
ResolveUnsettled(m) ==
    /\ IF m \in Pending THEN Close(m, "unsettled") ELSE UNCHANGED marker
    /\ UNCHANGED <<turns, requests>>

\* MUTANT: a replay is counted again.
RecordRequests_Again(m, n) ==
    /\ requests' = requests + Less(n, marker[m].reserved)
    /\ Close(m, "recorded")
    /\ UNCHANGED turns
(* record_session_model_requests with the n requests of the interval: the   *)
(* reserved one is counted already, and a replay changes nothing.           *)
RecordRequests(m, n) ==
    /\ \/ /\ marker[m].state = "open"
          /\ requests' = requests + Less(n, marker[m].reserved)
          /\ Close(m, "recorded")
       \/ /\ marker[m].state = "recorded"
          /\ UNCHANGED <<requests, marker>>
    /\ UNCHANGED turns
=============================================================================
