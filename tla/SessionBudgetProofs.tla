-------------------------- MODULE SessionBudgetProofs --------------------------
(***************************************************************************)
(* What holds of SessionBudget for every tree of agents, every ceiling and *)
(* every bound: type correctness, that a step is admitted on the whole     *)
(* count, that the tree is locked out for a reason only, that no turn of a *)
(* step is ever given back twice, and that the row counts every request of *)
(* the streams once.                                                       *)
(***************************************************************************)
EXTENDS SessionBudget, TLAPS, FiniteSetTheorems

AtWork      == {"admitted", "waiting", "answered"}
EmptyHanded == {"top", "pausing", "recorded", "over"}
Held(m)     == marker[m].state \in {"open", "recorded"}

(* An agent that holds an interval holds one of this process.  Between its  *)
(* admission and its record it is open; later on the run itself may have    *)
(* recorded it, or given it up as empty when no request was started in it.  *)
(* A reservation is of a step that is still to be accepted.                 *)
HolderOK(a) ==
    /\ Acc(a) # NoMarker =>
         /\ marker[Acc(a)].state # "unused"
         /\ marker[Acc(a)].owner = life
         /\ started[Acc(a)] > 0 => Held(Acc(a))
    /\ agent[a].at \in AtWork =>
         Acc(a) # NoMarker /\ marker[Acc(a)].state = "open"
    /\ agent[a].at = "waiting" => settled[Acc(a)] < started[Acc(a)]
    /\ agent[a].at \in EmptyHanded => Acc(a) = NoMarker
    /\ agent[a].reserved => agent[a].steps < MaxSteps

(* The stream fits the row: no request without an interval, none settled    *)
(* that was not started, none settled in an interval closed as empty or     *)
(* unsettled.  An open interval in which a request was started is in the    *)
(* hands of a run or forbids new work; and what forbids it has failed, or   *)
(* is still to be visited by the scan.                                      *)
MarkerOK(m) ==
    /\ settled[m] <= started[m]
    /\ marker[m].state = "unused" => started[m] = 0 /\ m \notin blocked
    /\ settled[m] > 0 => Held(m)
    /\ marker[m].owner <= life
    /\ m \in Pending => marker[m].agent \in Agents
    /\ m \in Pending /\ started[m] > 0 => InHand(m) \/ m \in Unreconciled
    /\ m \in Unreconciled =>
         m \in lost \/ (marker[m].owner # life /\ marker[m].agent \in unscanned)

(* No interval is in two hands, and while the scan is at work in nobody's.  *)
HoldsAlone == \A a, b \in Agents : Acc(a) # NoMarker /\ Acc(a) = Acc(b) => a = b
ScanFirst  == unscanned # {} => \A a \in Agents : agent[a] = Fresh

IInv ==
    /\ TypeOK
    /\ \A a \in Agents : HolderOK(a)
    /\ \A m \in Markers : MarkerOK(m)
    /\ HoldsAlone /\ ScanFirst
-----------------------------------------------------------------------------
(* The row                                                                  *)

MarkerRecords == [state : {"unused", "open"} \cup Closings, agent : Agents \cup {Nobody},
                  reserved : {0, 1}, owner : Nat]

LEMMA LessType ==
  ASSUME NEW n \in Nat, NEW k \in Nat
  PROVE  Less(n, k) \in Nat /\ Less(n, k) <= n
  BY DEF Less

LEMMA MarkersAreNumbers == NoMarker \notin Markers
  BY LedgerAssumption DEF Markers, NoMarker

LEMMA OpenedMarker ==
  ASSUME LedgerTypeOK, NEW a \in Agents, NEW k \in {0, 1}, Open(a, k)
  PROVE  /\ NextMarker \in Markers
         /\ marker[NextMarker].state = "unused"
         /\ marker' \in [Markers -> MarkerRecords]
         /\ marker'[NextMarker] = [state |-> "open", agent |-> a,
                                   reserved |-> k, owner |-> life]
         /\ \A m \in Markers : m # NextMarker => marker'[m] = marker[m]
<1>1. NextMarker \in Markers /\ marker[NextMarker].state = "unused"
  BY DEF Open, NextMarker, Free
<1>. QED  BY <1>1 DEF Open, LedgerTypeOK, MarkerRecords, Closings

LEMMA ClosedMarker ==
  ASSUME LedgerTypeOK, NEW m \in Markers, NEW how \in Closings, Close(m, how)
  PROVE  /\ marker' \in [Markers -> MarkerRecords]
         /\ marker'[m].state = how
         /\ marker'[m].agent = marker[m].agent
         /\ marker'[m].owner = marker[m].owner
         /\ marker'[m].reserved = marker[m].reserved
         /\ \A k \in Markers : k # m => marker'[k] = marker[k]
  BY DEF Close, LedgerTypeOK, Closings, MarkerRecords

-----------------------------------------------------------------------------
(* The shape of a step                                                      *)

(* A step of agent a moves nobody else ...                                  *)
AgentStates == [at : Places, acc : Markers \cup {NoMarker}, reserved : BOOLEAN,
                steps : 0..MaxSteps, room : BOOLEAN]
Moves(a, place, acc, reserved, steps) ==
    /\ agent' \in [Agents -> AgentStates]
    /\ \A b \in Agents : b # a => agent'[b] = agent[b]
    /\ agent'[a].at = place
    /\ agent'[a].acc = acc
    /\ agent'[a].reserved = reserved
    /\ agent'[a].steps = steps

(* ... and touches at most the interval m, which is its own or new.         *)
TouchesOnly(m) ==
    /\ UNCHANGED <<life, unscanned>>
    /\ unscanned = {}
    /\ lost \subseteq lost'
    /\ \A k \in Markers : k # m =>
         /\ marker'[k] = marker[k]
         /\ started'[k] = started[k]
         /\ settled'[k] = settled[k]
         /\ k \in blocked' <=> k \in blocked

LEMMA AgentStepKeeps ==
  ASSUME IInv, NEW a \in Agents, NEW m \in Markers \cup {NoMarker},
         NEW place, NEW acc \in {m, NoMarker}, NEW reserved, NEW steps,
         Moves(a, place, acc, reserved, steps), TouchesOnly(m),
         Acc(a) \in {m, NoMarker},
         \A b \in Agents : b # a /\ m # NoMarker => Acc(b) # m,
         TypeOK', HolderOK(a)', m # NoMarker => MarkerOK(m)'
  PROVE  IInv'
<1>1. ASSUME NEW b \in Agents PROVE HolderOK(b)'
  <2>1. CASE b = a  BY <2>1
  <2>2. CASE b # a
    <3>1. agent'[b] = agent[b] /\ HolderOK(b) /\ life' = life
      BY <2>2 DEF IInv, Moves, TouchesOnly
    <3>2. Acc(b) # NoMarker => Acc(b) \in Markers /\ Acc(b) # m
      BY <2>2 DEF IInv, TypeOK, Acc
    <3>3. Acc(b) # NoMarker =>
            /\ marker'[Acc(b)] = marker[Acc(b)] /\ started'[Acc(b)] = started[Acc(b)]
            /\ settled'[Acc(b)] = settled[Acc(b)]
      BY <3>2 DEF TouchesOnly
    <3>. QED  BY <3>1, <3>3 DEF HolderOK, Acc, Held, AtWork, EmptyHanded
  <2>. QED  BY <2>1, <2>2
<1>2. ASSUME NEW k \in Markers PROVE MarkerOK(k)'
  <2>1. CASE k = m  BY <2>1, MarkersAreNumbers
  <2>2. CASE k # m
    <3>1. MarkerOK(k)  BY DEF IInv
    <3>2. InHand(k) => InHand(k)'
      BY <2>2, MarkersAreNumbers DEF InHand, Moves, Acc
    <3>3. (k \in Pending)' <=> k \in Pending
      BY <2>2 DEF TouchesOnly, Pending
    <3>4. (k \in Unreconciled)' <=> k \in Unreconciled
      BY <2>2, <3>3 DEF TouchesOnly, Unreconciled
    <3>. QED  BY <2>2, <3>1, <3>2, <3>3, <3>4 DEF MarkerOK, TouchesOnly, Held
  <2>. QED  BY <2>1, <2>2
<1>3. HoldsAlone'
  BY DEF IInv, HoldsAlone, Moves, Acc
<1>4. ScanFirst'
  BY DEF ScanFirst, TouchesOnly
<1>. QED  BY <1>1, <1>2, <1>3, <1>4 DEF IInv

-----------------------------------------------------------------------------
(* The loop                                                                 *)

LEMMA OwnMarker ==
  ASSUME IInv, NEW a \in Agents
  PROVE  /\ \E m \in Markers \cup {NoMarker} : m = Acc(a)
         /\ \A b \in Agents : b # a /\ Acc(a) # NoMarker => Acc(b) # Acc(a)
         /\ Acc(a) # NoMarker => MarkerOK(Acc(a))
         /\ HolderOK(a)
  BY DEF IInv, TypeOK, HoldsAlone, Acc

(* Steps that change nothing but where the agent stands.                    *)
LEMMA WalkKeeps ==
  ASSUME IInv, NEW a \in Agents, unscanned = {},
         UNCHANGED <<ledgerVars, streamVars, unscanned, faults, crashes, lost>>,
         accepted' \in Nat,
         NEW place \in Places, NEW reserved \in BOOLEAN, NEW steps \in 0..MaxSteps,
         Moves(a, place, Acc(a), reserved, steps),
         place \notin AtWork, place \in EmptyHanded => Acc(a) = NoMarker,
         reserved => steps < MaxSteps
  PROVE  IInv'
<1>. USE DEF ledgerVars, streamVars
<1>. PICK m \in Markers \cup {NoMarker} : m = Acc(a)
  BY OwnMarker
<1>1. TypeOK'
  BY DEF IInv, TypeOK, LedgerTypeOK, Moves, AgentStates
<1>2. TouchesOnly(m)
  BY DEF TouchesOnly
<1>3. HolderOK(a)'
  BY OwnMarker DEF HolderOK, Moves, Acc, Held, AtWork, EmptyHanded
<1>4. m # NoMarker => MarkerOK(m)'
  BY OwnMarker DEF MarkerOK, Moves, Acc, Held, Pending, Unreconciled, InHand
<1>. QED  BY <1>1, <1>2, <1>3, <1>4, OwnMarker, AgentStepKeeps

LEMMA PauseKeeps ==
  ASSUME IInv, NEW a \in Agents, Pause(a)
  PROVE  IInv'
<1>1. Moves(a, "pausing", Acc(a), agent[a].reserved, agent[a].steps)
  BY DEF IInv, TypeOK, Pause, CloseoutCapacity, Moves, AgentStates, Places, Acc
<1>2. HolderOK(a) /\ agent[a].at = "top" /\ unscanned = {}
  BY DEF IInv, Pause, At
<1>. QED
  BY <1>1, <1>2, WalkKeeps
     DEF IInv, TypeOK, Pause, Well, Places, AtWork, EmptyHanded, HolderOK

LEMMA RaiseKeeps ==
  ASSUME IInv, NEW a \in Agents, Raise(a)
  PROVE  IInv'
<1>1. Moves(a, "raised", Acc(a), agent[a].reserved, agent[a].steps)
  BY DEF IInv, TypeOK, Raise, Go, Moves, AgentStates, Places, Acc
<1>2. HolderOK(a) /\ unscanned = {}
  BY DEF IInv, Raise, At
<1>. QED
  BY <1>1, <1>2, WalkKeeps
     DEF IInv, TypeOK, Raise, Well, Places, AtWork, EmptyHanded, HolderOK

LEMMA AcceptKeeps ==
  ASSUME IInv, NEW a \in Agents, Accept(a)
  PROVE  IInv'
<1>1. HolderOK(a) /\ agent[a].at = "recorded" /\ unscanned = {} /\ Acc(a) = NoMarker
  BY DEF IInv, Accept, At, HolderOK, EmptyHanded
<1>2. UNCHANGED <<ledgerVars, streamVars, unscanned, faults, crashes, lost>> /\ accepted' \in Nat
  BY DEF IInv, TypeOK, Accept
<1>3. CASE agent[a].reserved
  <2>1. agent[a].steps + 1 \in 0..MaxSteps
    BY <1>1, <1>3, BudgetAssumption DEF IInv, TypeOK, HolderOK
  <2>2. Moves(a, "top", Acc(a), FALSE, agent[a].steps + 1)
    BY <1>3, <2>1 DEF IInv, TypeOK, Accept, Moves, AgentStates, Places, Acc
  <2>. QED  BY <1>1, <1>2, <2>1, <2>2, WalkKeeps DEF Places, AtWork
<1>4. CASE ~agent[a].reserved
  <2>1. Moves(a, "over", Acc(a), agent[a].reserved, agent[a].steps)
    BY <1>4 DEF IInv, TypeOK, Accept, Go, Moves, AgentStates, Places, Acc
  <2>. QED
    BY <1>1, <1>2, <1>4, <2>1, WalkKeeps DEF IInv, TypeOK, Places, AtWork
<1>. QED  BY <1>3, <1>4

LEMMA StartRequestKeeps ==
  ASSUME IInv, NEW a \in Agents, StartRequest(a)
  PROVE  IInv'
<1>. PICK m \in Markers \cup {NoMarker} : m = Acc(a)
  BY OwnMarker
<1>1. HolderOK(a) /\ unscanned = {} /\ m \in Markers /\ marker[m].state = "open"
  BY OwnMarker DEF IInv, StartRequest, At, HolderOK, AtWork
<1>2. started[m] + 1 \in 0..MaxAttempts
  BY <1>1, BudgetAssumption DEF IInv, TypeOK, StartRequest
<1>3. Moves(a, "waiting", m, agent[a].reserved, agent[a].steps)
  BY DEF IInv, TypeOK, StartRequest, Go, Moves, AgentStates, Places, Acc
<1>4. /\ UNCHANGED <<turns, requests, marker, blocked, life, settled, unscanned, faults, crashes,
                     accepted, lost>>
      /\ started' = [started EXCEPT ![m] = @ + 1]
  BY DEF StartRequest, ledgerVars, Well
<1>5. TypeOK'
  BY <1>2, <1>3, <1>4 DEF IInv, TypeOK, LedgerTypeOK, Moves, AgentStates
<1>6. TouchesOnly(m)
  BY <1>1, <1>4 DEF IInv, TypeOK, TouchesOnly
<1>7. started'[m] = started[m] + 1 /\ settled[m] <= started[m]
      /\ started[m] \in Nat /\ settled[m] \in Nat
  BY <1>1, <1>4 DEF IInv, TypeOK, MarkerOK
<1>8. HolderOK(a)'
  BY <1>1, <1>3, <1>4, <1>7, MarkersAreNumbers
     DEF HolderOK, Moves, Acc, Held, AtWork, EmptyHanded
<1>9. MarkerOK(m)'
  BY <1>1, <1>3, <1>4, <1>7, OwnMarker, MarkersAreNumbers
     DEF MarkerOK, Moves, Acc, Held, Pending, Unreconciled, InHand
<1>. QED  BY <1>3, <1>5, <1>6, <1>8, <1>9, OwnMarker, AgentStepKeeps

LEMMA EndRequestKeeps ==
  ASSUME IInv, NEW a \in Agents, EndRequest(a)
  PROVE  IInv'
<1>. PICK m \in Markers \cup {NoMarker} : m = Acc(a)
  BY OwnMarker
<1>1. HolderOK(a) /\ unscanned = {} /\ m \in Markers /\ marker[m].state = "open"
  BY OwnMarker DEF IInv, EndRequest, At, HolderOK, AtWork
<1>2. settled[m] + 1 <= started[m]
      /\ settled[m] \in Nat /\ started[m] \in 0..MaxAttempts
  BY <1>1 DEF IInv, TypeOK, HolderOK, EndRequest, At
<1>3. PICK place \in {"answered", "admitted"} :
        Moves(a, place, m, agent[a].reserved, agent[a].steps)
  BY DEF IInv, TypeOK, EndRequest, Go, Moves, AgentStates, Places, Acc
<1>4. /\ UNCHANGED <<turns, requests, marker, blocked, life, started, unscanned, faults, crashes,
                     accepted, lost>>
      /\ settled' = [settled EXCEPT ![m] = @ + 1]
  BY DEF EndRequest, ledgerVars, Well
<1>5. settled[m] + 1 \in 0..MaxAttempts
  BY <1>2, BudgetAssumption
<1>6. TypeOK'
  BY <1>3, <1>4, <1>5 DEF IInv, TypeOK, LedgerTypeOK, Moves, AgentStates
<1>7. TouchesOnly(m) /\ settled'[m] = settled[m] + 1
  BY <1>1, <1>4 DEF IInv, TypeOK, TouchesOnly
<1>8. HolderOK(a)'
  BY <1>1, <1>3, <1>4, <1>7, MarkersAreNumbers
     DEF HolderOK, Moves, Acc, Held, AtWork, EmptyHanded
<1>9. MarkerOK(m)'
  BY <1>1, <1>2, <1>3, <1>4, <1>7, OwnMarker, MarkersAreNumbers
     DEF MarkerOK, Moves, Acc, Held, Pending, Unreconciled, InHand
<1>. QED  BY <1>3, <1>6, <1>7, <1>8, <1>9, OwnMarker, AgentStepKeeps

(* A new interval: nobody holds it, and nothing was said in it.             *)
NewMarker(a, m) ==
    /\ m \in Markers /\ marker[m].state = "unused"
    /\ started[m] = 0 /\ settled[m] = 0 /\ m \notin blocked
    /\ \A b \in Agents : Acc(b) # m
    /\ marker' \in [Markers -> MarkerRecords]
    /\ marker'[m].state = "open" /\ marker'[m].agent = a /\ marker'[m].owner = life
    /\ \A k \in Markers : k # m => marker'[k] = marker[k]

LEMMA OpensNew ==
  ASSUME IInv, NEW a \in Agents, NEW k \in {0, 1}, Open(a, k)
  PROVE  \E m \in Markers : m = NextMarker /\ NewMarker(a, m)
<1>1. PICK m \in Markers : m = NextMarker
  BY OpenedMarker DEF IInv, TypeOK
<1>2. /\ marker[m].state = "unused" /\ marker' \in [Markers -> MarkerRecords]
      /\ marker'[m] = [state |-> "open", agent |-> a, reserved |-> k, owner |-> life]
      /\ \A n \in Markers : n # m => marker'[n] = marker[n]
  BY <1>1, OpenedMarker DEF IInv, TypeOK
<1>3. started[m] = 0 /\ settled[m] = 0 /\ m \notin blocked
  BY <1>2 DEF IInv, TypeOK, MarkerOK
<1>4. \A b \in Agents : Acc(b) # m
  BY <1>2, MarkersAreNumbers DEF IInv, HolderOK
<1>. QED  BY <1>1, <1>2, <1>3, <1>4 DEF NewMarker

(* The agent that has opened an interval works in it, unless the call was   *)
(* interrupted.                                                             *)
LEMMA OpeningKeeps ==
  ASSUME IInv, NEW a \in Agents, unscanned = {}, Acc(a) = NoMarker,
         NEW m \in Markers, NewMarker(a, m),
         turns' \in Nat, requests' \in Nat, faults' \in 0..MaxFaults,
         UNCHANGED <<blocked, life, streamVars, unscanned, crashes, accepted>>,
         lost \subseteq lost', lost' \subseteq Markers,
         NEW reserved \in BOOLEAN, reserved => agent[a].steps < MaxSteps,
         \/ Moves(a, "admitted", m, reserved, agent[a].steps)
         \/ Moves(a, "raised", NoMarker, reserved, agent[a].steps)
  PROVE  IInv'
<1>. USE DEF streamVars
<1>1. PICK place \in {"admitted", "raised"}, acc \in {m, NoMarker} :
        /\ Moves(a, place, acc, reserved, agent[a].steps)
        /\ place = "admitted" => acc = m
  OBVIOUS
<1>2. TypeOK'
  BY <1>1 DEF IInv, TypeOK, LedgerTypeOK, Moves, AgentStates, NewMarker, MarkerRecords
<1>3. TouchesOnly(m)
  BY DEF TouchesOnly, NewMarker
<1>4. HolderOK(a)'
  BY <1>1, MarkersAreNumbers DEF HolderOK, NewMarker, Moves, Acc, Held, AtWork, EmptyHanded
<1>5. MarkerOK(m)'
  BY DEF IInv, TypeOK, LedgerTypeOK, MarkerOK, NewMarker, Held, Pending, Unreconciled
<1>6. \A b \in Agents : b # a /\ m # NoMarker => Acc(b) # m
  BY DEF NewMarker
<1>. QED  BY <1>1, <1>2, <1>3, <1>4, <1>5, <1>6, AgentStepKeeps

LEMMA AdmitKeeps ==
  ASSUME IInv, NEW a \in Agents, Admit(a)
  PROVE  IInv'
<1>1. /\ unscanned = {} /\ Acc(a) = NoMarker
      /\ agent[a].reserved \in BOOLEAN /\ agent[a].steps \in 0..MaxSteps
      /\ agent[a].steps < MaxSteps
  BY DEF IInv, TypeOK, HolderOK, Admit, At, EmptyHanded
<1>2. CASE AdmitSessionStep(a)
  <2>1. PICK m \in Markers : m = NextMarker /\ NewMarker(a, m)
    BY <1>2, OpensNew DEF AdmitSessionStep
  <2>2. PICK reserved \in BOOLEAN :
          \/ Moves(a, "admitted", m, reserved, agent[a].steps)
          \/ Moves(a, "raised", NoMarker, reserved, agent[a].steps)
    <3>1. CASE agent' = [agent EXCEPT ![a].at = "admitted", ![a].acc = NextMarker,
                                      ![a].reserved = TRUE]
      <4>. Moves(a, "admitted", m, TRUE, agent[a].steps)
        BY <2>1, <3>1 DEF IInv, TypeOK, Moves, AgentStates, Places
      <4>. QED  OBVIOUS
    <3>2. CASE Go(a, "raised")
      <4>. Moves(a, "raised", NoMarker, agent[a].reserved, agent[a].steps)
        BY <1>1, <3>2 DEF IInv, TypeOK, Moves, AgentStates, Places, Go, Acc
      <4>. QED  BY <1>1
    <3>. QED  BY <3>1, <3>2 DEF Admit
  <2>3. /\ turns' \in Nat /\ requests' \in Nat
        /\ UNCHANGED <<blocked, life, streamVars, unscanned, crashes, accepted>>
    BY <1>2 DEF IInv, TypeOK, LedgerTypeOK, Admit, AdmitSessionStep, Well, Fault
  <2>4. lost \subseteq lost' /\ lost' \subseteq Markers /\ faults' \in 0..MaxFaults
    BY <2>1, BudgetAssumption DEF IInv, TypeOK, Admit, Well, Fault
  <2>. QED  BY <1>1, <2>1, <2>2, <2>3, <2>4, OpeningKeeps
<1>3. CASE Go(a, "raised") /\ UNCHANGED <<turns, requests, marker>> /\ Well
  <2>1. Moves(a, "raised", Acc(a), agent[a].reserved, agent[a].steps)
    BY <1>3 DEF IInv, TypeOK, Moves, AgentStates, Places, Go, Acc
  <2>. QED
    BY <1>1, <1>3, <2>1, WalkKeeps
       DEF IInv, TypeOK, HolderOK, Admit, Well, Places, AtWork, EmptyHanded, ledgerVars
<1>. QED  BY <1>2, <1>3 DEF Admit

LEMMA CloseoutKeeps ==
  ASSUME IInv, NEW a \in Agents, Closeout(a)
  PROVE  IInv'
<1>1. /\ unscanned = {} /\ Acc(a) = NoMarker
      /\ agent[a].reserved \in BOOLEAN /\ agent[a].steps \in 0..MaxSteps
      /\ agent[a].reserved => agent[a].steps < MaxSteps
  BY DEF IInv, TypeOK, HolderOK, Closeout, At, EmptyHanded
<1>2. CASE BeginAccounting(a)
  <2>1. PICK m \in Markers : m = NextMarker /\ NewMarker(a, m)
    BY <1>2, OpensNew DEF BeginAccounting
  <2>2. \/ Moves(a, "admitted", m, agent[a].reserved, agent[a].steps)
        \/ Moves(a, "raised", NoMarker, agent[a].reserved, agent[a].steps)
    <3>1. CASE agent' = [agent EXCEPT ![a].at = "admitted", ![a].acc = NextMarker]
      BY <2>1, <3>1 DEF IInv, TypeOK, Moves, AgentStates, Places
    <3>2. CASE Go(a, "raised")
      BY <1>1, <3>2 DEF IInv, TypeOK, Moves, AgentStates, Places, Go, Acc
    <3>3. CASE UNCHANGED marker
      BY <2>1, <3>3 DEF NewMarker
    <3>. QED  BY <3>1, <3>2, <3>3 DEF Closeout
  <2>3. /\ turns' \in Nat /\ requests' \in Nat
        /\ UNCHANGED <<blocked, life, streamVars, unscanned, crashes, accepted>>
    BY <1>2 DEF IInv, TypeOK, LedgerTypeOK, Closeout, BeginAccounting, Well, Fault
  <2>4. lost \subseteq lost' /\ lost' \subseteq Markers /\ faults' \in 0..MaxFaults
    BY <2>1, BudgetAssumption DEF IInv, TypeOK, Closeout, Well, Fault
  <2>. QED  BY <1>1, <2>1, <2>2, <2>3, <2>4, OpeningKeeps
<1>3. CASE UNCHANGED <<turns, requests, marker>> /\ Well /\ (Go(a, "raised") \/ Go(a, "over"))
  <2>1. PICK place \in {"raised", "over"} :
          Moves(a, place, Acc(a), agent[a].reserved, agent[a].steps)
    BY <1>3 DEF IInv, TypeOK, Moves, AgentStates, Places, Go, Acc
  <2>. QED
    BY <1>1, <1>3, <2>1, WalkKeeps
       DEF IInv, TypeOK, HolderOK, Closeout, Well, Places, AtWork, EmptyHanded, ledgerVars
<1>. QED  BY <1>2, <1>3 DEF Closeout

(* What a transaction on the interval m leaves in the row.                  *)
RowCall(m, state) ==
    /\ turns' \in Nat /\ requests' \in Nat
    /\ marker' \in [Markers -> MarkerRecords]
    /\ marker'[m].state = state
    /\ marker'[m].agent = marker[m].agent
    /\ marker'[m].owner = marker[m].owner
    /\ \A k \in Markers : k # m => marker'[k] = marker[k]

LEMMA RowUnchanged ==
  ASSUME TypeOK, NEW m \in Markers, UNCHANGED <<turns, requests, marker>>
  PROVE  RowCall(m, marker[m].state)
  BY DEF TypeOK, LedgerTypeOK, RowCall, MarkerRecords

LEMMA RowRefunded ==
  ASSUME TypeOK, NEW m \in Markers, RefundStep(m)
  PROVE  RowCall(m, "empty")
  BY ClosedMarker, LessType DEF TypeOK, LedgerTypeOK, RowCall, RefundStep, Closings

LEMMA RowRecorded ==
  ASSUME TypeOK, NEW m \in Markers, RecordRequests(m, settled[m])
  PROVE  RowCall(m, "recorded") /\ Held(m)
<1>1. Less(settled[m], marker[m].reserved) \in Nat
  <2>1. settled[m] \in Nat /\ marker[m].reserved \in Nat
    BY DEF TypeOK, LedgerTypeOK
  <2>. QED  BY <2>1, LessType
<1>2. CASE Close(m, "recorded")
  BY <1>1, <1>2, ClosedMarker
     DEF TypeOK, LedgerTypeOK, RowCall, RecordRequests, Closings, Held
<1>3. CASE marker[m].state = "recorded" /\ UNCHANGED <<requests, marker>>
  BY <1>3, RowUnchanged DEF RecordRequests, Held
<1>. QED  BY <1>2, <1>3 DEF RecordRequests

LEMMA RowUnsettled ==
  ASSUME TypeOK, NEW m \in Markers, ResolveUnsettled(m)
  PROVE  \E state \in {"unsettled", marker[m].state} :
           RowCall(m, state) /\ state # "open"
<1>1. CASE m \in Pending
  BY <1>1, ClosedMarker DEF TypeOK, LedgerTypeOK, RowCall, ResolveUnsettled, Closings
<1>2. CASE m \notin Pending
  BY <1>2, RowUnchanged DEF ResolveUnsettled, Pending
<1>. QED  BY <1>1, <1>2

LEMMA RowEmptied ==
  ASSUME TypeOK, NEW m \in Markers, ResolveEmpty(m)
  PROVE  RowCall(m, "empty")
<1>1. marker[m].reserved \in Nat
  BY DEF TypeOK, LedgerTypeOK
<1>. QED
  BY <1>1, ClosedMarker, LessType
     DEF TypeOK, LedgerTypeOK, RowCall, ResolveEmpty, Closings

(* A call that raises blocks the interval, one that returns frees it.       *)
Outcome(m) ==
    \/ /\ blocked' = blocked \cup {m} /\ lost' = lost \cup {m}
       /\ faults < MaxFaults /\ faults' = faults + 1
    \/ /\ blocked' = blocked \ {m} /\ lost' = lost
       /\ faults' = faults

LEMMA CallKeeps ==
  ASSUME IInv, NEW a \in Agents, unscanned = {}, NEW m \in Markers, m = Acc(a),
         NEW state, RowCall(m, state), Outcome(m), state \in Closings \cup {marker[m].state},
         settled[m] > 0 => state \in {"open", "recorded"},
         UNCHANGED <<life, streamVars, unscanned, crashes, accepted>>,
         NEW place \in Places, NEW acc \in {m, NoMarker}, NEW reserved \in BOOLEAN,
         Moves(a, place, acc, reserved, agent[a].steps),
         place \notin AtWork, place \in EmptyHanded => acc = NoMarker,
         reserved => agent[a].steps < MaxSteps,
         acc = m /\ started[m] > 0 => state \in {"open", "recorded"},
         acc = NoMarker => state # "open" \/ started[m] = 0 \/ m \in blocked'
  PROVE  IInv'
<1>. USE DEF streamVars
<1>1. TypeOK'
  BY BudgetAssumption
     DEF IInv, TypeOK, LedgerTypeOK, RowCall, MarkerRecords, Outcome, Moves, AgentStates
<1>2. TouchesOnly(m)
  BY DEF TouchesOnly, RowCall, Outcome
<1>3. HolderOK(a)'
  BY OwnMarker, MarkersAreNumbers
     DEF HolderOK, RowCall, Moves, Acc, Held, AtWork, EmptyHanded, Closings
<1>4. MarkerOK(m)'
  BY OwnMarker, MarkersAreNumbers
     DEF Closings, HolderOK, MarkerOK, RowCall, Outcome, Moves, Acc, Held, Pending,
         Unreconciled, InHand
<1>5. \A b \in Agents : b # a /\ m # NoMarker => Acc(b) # m
  BY OwnMarker
<1>. QED  BY <1>1, <1>2, <1>3, <1>4, <1>5, AgentStepKeeps

LEMMA ExceedContextKeeps ==
  ASSUME IInv, NEW a \in Agents, ExceedContext(a)
  PROVE  IInv'
<1>1. PICK m \in Markers : m = Acc(a)
  BY OwnMarker DEF HolderOK, ExceedContext, At, AtWork
<1>2. /\ unscanned = {} /\ started[m] = 0 /\ settled[m] = 0
      /\ UNCHANGED <<life, streamVars, unscanned, crashes, accepted>>
  BY <1>1, OwnMarker
     DEF IInv, TypeOK, MarkerOK, ExceedContext, At, Returns, Raises, Well, Fault
<1>3. Outcome(m)
  BY <1>1 DEF ExceedContext, Returns, Raises, Well, Fault, Outcome, Block, Unblock
<1>4. PICK state \in Closings \cup {marker[m].state} : RowCall(m, state)
  BY <1>1, RowRefunded, RowUnchanged DEF IInv, ExceedContext, Returns, Raises, Closings
<1>5. PICK place \in {"over", "raised"}, acc \in {m, NoMarker} :
        /\ Moves(a, place, acc, FALSE, agent[a].steps)
        /\ place = "over" => acc = NoMarker
  BY <1>1 DEF IInv, TypeOK, ExceedContext, Moves, AgentStates, Places, Acc
<1>6. ~(settled[m] > 0) /\ ~(started[m] > 0)
  BY <1>2
<1>7. place \in Places /\ place \notin AtWork /\ (place \in EmptyHanded => acc = NoMarker)
  BY <1>5 DEF Places, AtWork, EmptyHanded
<1>. QED  BY <1>1, <1>2, <1>3, <1>4, <1>5, <1>6, <1>7, CallKeeps

LEMMA RecordKeeps ==
  ASSUME IInv, NEW a \in Agents, Record(a)
  PROVE  IInv'
<1>1. PICK m \in Markers : m = Acc(a) /\ marker[m].state = "open"
  BY OwnMarker DEF HolderOK, Record, At, AtWork
<1>2. /\ unscanned = {} /\ agent[a].reserved \in BOOLEAN
      /\ agent[a].reserved => agent[a].steps < MaxSteps
      /\ UNCHANGED <<life, streamVars, unscanned, crashes, accepted>>
  BY OwnMarker DEF IInv, TypeOK, HolderOK, Record, At, Returns, Raises, Well, Fault
<1>3. Outcome(m)
  BY <1>1 DEF Record, Returns, Raises, Well, Fault, Outcome, Block, Unblock
<1>4. CASE Returns(m, RecordRequests(m, settled[m]))
           /\ agent' = [agent EXCEPT ![a].at = "recorded", ![a].acc = NoMarker]
  <2>1. RowCall(m, "recorded")
    BY <1>4, RowRecorded DEF IInv, Returns
  <2>2. Moves(a, "recorded", NoMarker, agent[a].reserved, agent[a].steps)
    BY <1>4 DEF IInv, TypeOK, Moves, AgentStates, Places
  <2>. QED
    BY <1>1, <1>2, <1>3, <2>1, <2>2, CallKeeps, MarkersAreNumbers DEF Places, AtWork, Closings
<1>5. CASE Raises(m, RecordRequests(m, settled[m])) /\ Go(a, "raised")
  <2>1. PICK state \in {"recorded", "open"} : RowCall(m, state)
    BY <1>1, <1>5, RowRecorded, RowUnchanged DEF IInv, Raises
  <2>2. Moves(a, "raised", m, agent[a].reserved, agent[a].steps)
    BY <1>1, <1>5 DEF IInv, TypeOK, Moves, AgentStates, Places, Go, Acc
  <2>. QED
    BY <1>1, <1>2, <1>3, <2>1, <2>2, CallKeeps, MarkersAreNumbers
       DEF Places, AtWork, EmptyHanded, Closings
<1>. QED  BY <1>1, <1>4, <1>5 DEF Record

-----------------------------------------------------------------------------
(* The arms                                                                 *)

LEMMA ArmRefundKeeps ==
  ASSUME IInv, NEW a \in Agents, ArmRefund(a)
  PROVE  IInv'
<1>1. /\ unscanned = {} /\ agent[a].at = "raised" /\ agent[a].steps \in 0..MaxSteps
      /\ UNCHANGED <<life, streamVars, unscanned, crashes, accepted>>
  BY DEF IInv, TypeOK, ArmRefund, At, Returns, Raises, Well, Fault
<1>2. CASE agent[a].reserved /\ Acc(a) # NoMarker /\ Attempts(Acc(a)) = 0
  <2>1. PICK m \in Markers : m = Acc(a)
    BY <1>2, OwnMarker
  <2>2. started[m] = 0 /\ settled[m] = 0
    BY <1>2, <2>1, MarkersAreNumbers DEF IInv, TypeOK, MarkerOK, Attempts
  <2>3. Outcome(m)
    BY <1>2, <2>1 DEF ArmRefund, Returns, Raises, Well, Fault, Outcome, Block, Unblock
  <2>4. PICK state \in Closings \cup {marker[m].state} : RowCall(m, state)
    BY <1>2, <2>1, RowRefunded, RowUnchanged DEF IInv, ArmRefund, Returns, Raises, Closings
  <2>5. PICK acc \in {m, NoMarker} : Moves(a, "refunded", acc, FALSE, agent[a].steps)
    BY <1>2, <2>1 DEF IInv, TypeOK, ArmRefund, Moves, AgentStates, Places, Acc
  <2>6. ~(settled[m] > 0) /\ ~(started[m] > 0)
    BY <2>2
  <2>7. "refunded" \in Places /\ "refunded" \notin AtWork \cup EmptyHanded
    BY DEF Places, AtWork, EmptyHanded
  <2>. QED  BY <1>1, <2>1, <2>2, <2>3, <2>4, <2>5, <2>6, <2>7, CallKeeps
<1>3. CASE ~agent[a].reserved \/ Acc(a) = NoMarker \/ Attempts(Acc(a)) > 0
  <2>1. PICK m \in Markers \cup {NoMarker} : m = Acc(a)
    BY OwnMarker
  <2>2. /\ UNCHANGED <<marker, blocked, lost>> /\ turns' \in Nat /\ requests' = requests
        /\ faults' \in 0..MaxFaults
    BY <1>3, LessType, BudgetAssumption, MarkersAreNumbers
       DEF IInv, TypeOK, LedgerTypeOK, ArmRefund, RefundTurn, Well, Fault, Attempts
  <2>3. Moves(a, "refunded", m, FALSE, agent[a].steps)
    BY <1>3, <2>1, MarkersAreNumbers
       DEF IInv, TypeOK, ArmRefund, Go, Moves, AgentStates, Places, Acc, Attempts
  <2>4. TypeOK'
    BY <1>1, <2>2, <2>3 DEF IInv, TypeOK, LedgerTypeOK, Moves, AgentStates, streamVars
  <2>5. TouchesOnly(m)
    BY <1>1, <2>2 DEF TouchesOnly, streamVars
  <2>6. HolderOK(a)'
    BY <1>1, <2>1, <2>2, <2>3, OwnMarker
       DEF HolderOK, Moves, Acc, Held, AtWork, EmptyHanded, streamVars
  <2>7. m # NoMarker => MarkerOK(m)'
    BY <1>1, <2>1, <2>2, <2>3, OwnMarker
       DEF MarkerOK, Moves, Acc, Held, Pending, Unreconciled, InHand, streamVars
  <2>. QED  BY <2>1, <2>3, <2>4, <2>5, <2>6, <2>7, OwnMarker, AgentStepKeeps
<1>4. Acc(a) # NoMarker => Attempts(Acc(a)) \in Nat
  BY OwnMarker DEF IInv, TypeOK, Attempts
<1>. QED  BY <1>2, <1>3, <1>4

LEMMA ArmDrainKeeps ==
  ASSUME IInv, NEW a \in Agents, ArmDrain(a)
  PROVE  IInv'
<1>1. PICK m \in Markers \cup {NoMarker} : m = Acc(a)
  BY OwnMarker
<1>2. /\ unscanned = {} /\ faults' \in 0..MaxFaults
      /\ UNCHANGED <<ledgerVars, started, unscanned, crashes, accepted, lost>>
  BY BudgetAssumption DEF IInv, TypeOK, ArmDrain, At, Well, Fault
<1>3. Moves(a, "drained", m, agent[a].reserved, agent[a].steps)
  BY <1>1 DEF IInv, TypeOK, ArmDrain, Go, Moves, AgentStates, Places, Acc
<1>4. /\ settled' \in [Markers -> 0..MaxAttempts]
      /\ \A k \in Markers : k # m => settled'[k] = settled[k]
      /\ m # NoMarker => settled'[m] \in {settled[m], started[m]}
  BY <1>1 DEF IInv, TypeOK, ArmDrain
<1>5. TypeOK'
  BY <1>2, <1>3, <1>4 DEF IInv, TypeOK, LedgerTypeOK, Moves, AgentStates, ledgerVars
<1>6. TouchesOnly(m)
  BY <1>2, <1>4 DEF TouchesOnly, ledgerVars
<1>7. HolderOK(a)'
  BY <1>1, <1>2, <1>3, OwnMarker
     DEF HolderOK, Moves, Acc, Held, AtWork, EmptyHanded, ledgerVars
<1>8. m # NoMarker => MarkerOK(m)'
  <2>. SUFFICES ASSUME m # NoMarker PROVE MarkerOK(m)'
    OBVIOUS
  <2>1. MarkerOK(m) /\ HolderOK(a) /\ settled[m] \in Nat /\ started[m] \in Nat
    BY <1>1, OwnMarker DEF IInv, TypeOK
  <2>2. settled'[m] <= started[m] /\ (settled'[m] > 0 => Held(m))
    BY <1>1, <1>4, <2>1 DEF MarkerOK, HolderOK
  <2>. QED
    BY <1>1, <1>2, <1>3, <2>1, <2>2
       DEF MarkerOK, Moves, Acc, Held, Pending, Unreconciled, InHand, ledgerVars
<1>. QED  BY <1>1, <1>3, <1>5, <1>6, <1>7, <1>8, OwnMarker, AgentStepKeeps

LEMMA ArmRecordKeeps ==
  ASSUME IInv, NEW a \in Agents, ArmRecord(a)
  PROVE  IInv'
<1>1. /\ unscanned = {} /\ agent[a].reserved \in BOOLEAN
      /\ agent[a].reserved => agent[a].steps < MaxSteps
      /\ UNCHANGED <<life, streamVars, unscanned, crashes, accepted>>
  BY OwnMarker DEF IInv, TypeOK, HolderOK, ArmRecord, At, Returns, Raises, Well, Fault
<1>2. Moves(a, "over", NoMarker, agent[a].reserved, agent[a].steps)
  BY DEF IInv, TypeOK, ArmRecord, Moves, AgentStates, Places
<1>3. CASE Attempts(Acc(a)) > 0
  <2>1. PICK m \in Markers : m = Acc(a) /\ started[m] > 0 /\ Held(m)
    BY <1>3, OwnMarker DEF Attempts, HolderOK
  <2>2. Outcome(m)
    BY <1>3, <2>1 DEF ArmRecord, Returns, Raises, Well, Fault, Outcome, Block, Unblock
  <2>3. settled[m] \in Nat
    BY DEF IInv, TypeOK
  <2>4. CASE settled[m] > 0
    <3>1. PICK state \in {"recorded", marker[m].state} :
            RowCall(m, state) /\ (state # "open" \/ m \in blocked')
      BY <1>3, <2>1, <2>4, RowRecorded, RowUnchanged
         DEF IInv, ArmRecord, Returns, Raises, Block
    <3>. QED
      BY <1>1, <1>2, <2>1, <2>2, <3>1, CallKeeps, MarkersAreNumbers
         DEF Places, AtWork, EmptyHanded, Closings, Held
  <2>5. CASE settled[m] = 0
    <3>1. PICK state \in {"unsettled", marker[m].state} :
            RowCall(m, state) /\ (state # "open" \/ m \in blocked')
      BY <1>3, <2>1, <2>5, RowUnsettled, RowUnchanged
         DEF IInv, ArmRecord, Returns, Raises, Block
    <3>. QED
      BY <1>1, <1>2, <2>1, <2>2, <2>5, <3>1, CallKeeps, MarkersAreNumbers
         DEF Places, AtWork, EmptyHanded, Closings
  <2>. QED  BY <2>3, <2>4, <2>5
<1>4. CASE Attempts(Acc(a)) = 0
  <2>1. PICK m \in Markers \cup {NoMarker} : m = Acc(a)
    BY OwnMarker
  <2>2. UNCHANGED <<turns, requests, marker, blocked, lost, faults>>
    BY <1>4 DEF ArmRecord, Well
  <2>3. TypeOK'
    BY <1>1, <1>2, <2>2 DEF IInv, TypeOK, LedgerTypeOK, Moves, AgentStates, streamVars
  <2>4. TouchesOnly(m)
    BY <1>1, <2>2 DEF TouchesOnly, streamVars
  <2>5. HolderOK(a)'
    BY <1>1, <1>2 DEF HolderOK, Moves, Acc, AtWork, EmptyHanded
  <2>6. m # NoMarker => MarkerOK(m)'
    BY <1>1, <1>4, <2>1, <2>2, OwnMarker
       DEF MarkerOK, Held, Pending, Unreconciled, Attempts, streamVars
  <2>. QED  BY <1>2, <2>1, <2>3, <2>4, <2>5, <2>6, OwnMarker, AgentStepKeeps
<1>5. Attempts(Acc(a)) \in Nat
  BY OwnMarker DEF IInv, TypeOK, Attempts
<1>. QED  BY <1>3, <1>4, <1>5

-----------------------------------------------------------------------------
(* Death and recovery                                                       *)

(* The scan works when nobody holds an interval.                            *)
LEMMA NobodyHolds ==
  ASSUME IInv, unscanned # {}
  PROVE  \A a \in Agents : agent[a] = Fresh /\ Acc(a) = NoMarker
<1>1. \A a \in Agents : agent[a] = Fresh
  BY DEF IInv, ScanFirst
<1>2. Fresh.acc = NoMarker
  BY DEF Fresh
<1>. QED  BY <1>1, <1>2 DEF Acc

LEMMA ScanKeeps ==
  ASSUME IInv, NEW a \in Agents, Scan(a)
  PROVE  IInv'
<1>1. /\ a \in unscanned /\ unscanned' \subseteq unscanned
      /\ UNCHANGED <<life, streamVars, agent, crashes, accepted>>
  BY DEF Scan, Returns, Well, Fault
<1>2. \A b \in Agents : agent'[b] = Fresh /\ Acc(b) = NoMarker /\ HolderOK(b)
  BY <1>1, NobodyHolds DEF IInv
<1>3. HoldsAlone' /\ ScanFirst' /\ \A b \in Agents : HolderOK(b)'
  BY <1>1, <1>2 DEF HoldsAlone, ScanFirst, HolderOK, Acc, Fresh, AtWork
<1>4. \A k \in Markers : ~InHand(k)
  BY <1>2, MarkersAreNumbers DEF InHand, Acc
<1>5. CASE \E m \in Orphans(a) : Returns(m, Reconcile(m)) /\ UNCHANGED unscanned
  <2>1. PICK m \in Markers : /\ m \in Orphans(a)
                             /\ Returns(m, Reconcile(m)) /\ UNCHANGED unscanned
    BY <1>5 DEF Orphans, Pending
  <2>2. marker[m].state = "open"
    BY <2>1 DEF Orphans, Pending
  <2>3. PICK state \in Closings :
          RowCall(m, state) /\ (settled[m] > 0 => state = "recorded")
    <3>1. CASE settled[m] > 0 /\ RecordRequests(m, settled[m])
      BY <3>1, RowRecorded DEF IInv, Closings
    <3>2. CASE settled[m] = 0 /\ ResolveUnsettled(m)
      BY <3>2, <2>2, RowUnsettled DEF IInv, Closings
    <3>3. CASE settled[m] = 0 /\ ResolveEmpty(m)
      BY <3>3, RowEmptied DEF IInv, Closings
    <3>. QED  BY <2>1, <3>1, <3>2, <3>3 DEF Returns, Reconcile
  <2>4. /\ blocked' = blocked \ {m} /\ lost' = lost /\ unscanned' = unscanned
        /\ faults' = faults
    BY <2>1 DEF Returns, Unblock, Well
  <2>5. TypeOK'
    BY <1>1, <2>3, <2>4
       DEF IInv, TypeOK, LedgerTypeOK, RowCall, MarkerRecords, streamVars
  <2>6. ASSUME NEW k \in Markers PROVE MarkerOK(k)'
    <3>1. MarkerOK(k)  BY DEF IInv
    <3>2. CASE k = m
      BY <3>1, <3>2, <1>1, <2>3, <2>4
         DEF MarkerOK, RowCall, Held, Pending, Unreconciled, Closings, streamVars
    <3>3. CASE k # m
      BY <3>1, <3>3, <1>1, <1>4, <2>3, <2>4
         DEF MarkerOK, RowCall, Held, Pending, Unreconciled, streamVars
    <3>. QED  BY <3>2, <3>3
  <2>. QED  BY <1>3, <2>5, <2>6 DEF IInv
<1>6. CASE /\ Orphans(a) \subseteq lost' /\ lost \subseteq lost' /\ lost' \subseteq Markers
           /\ blocked' \in {blocked \cup Orphans(a), blocked}
           /\ unscanned' = unscanned \ {a} /\ faults' \in 0..MaxFaults
           /\ UNCHANGED <<turns, requests, marker>>
  <2>1. Orphans(a) \subseteq Pending /\ Orphans(a) \subseteq Markers
    BY DEF Orphans, Pending
  <2>2. TypeOK'
    BY <1>1, <1>6, <2>1 DEF IInv, TypeOK, LedgerTypeOK, streamVars
  <2>3. ASSUME NEW k \in Markers PROVE MarkerOK(k)'
    <3>1. MarkerOK(k)  BY DEF IInv
    <3>2. k \in Orphans(a) => k \in lost'
      BY <1>6
    <3>3. k \in Pending /\ marker[k].agent = a /\ marker[k].owner # life => k \in Orphans(a)
      BY DEF Orphans
    <3>4. (k \in Pending)' <=> k \in Pending
      BY <1>6 DEF Pending
    <3>5. k \in Unreconciled => (k \in Unreconciled)'
      BY <1>1, <1>6, <3>4 DEF Unreconciled
    <3>6. (k \in Unreconciled)' => k \in Unreconciled \/ k \in Orphans(a)
      BY <1>1, <1>6, <3>4 DEF Unreconciled
    <3>7. marker[k].state = "unused" => k \notin blocked'
      BY <3>1, <1>6, <2>1 DEF MarkerOK, Pending
    <3>8. (k \in Unreconciled)' =>
            k \in lost' \/ (marker[k].owner # life /\ marker[k].agent \in unscanned')
      <4>1. k \in Unreconciled => k \in Pending
        BY DEF Unreconciled
      <4>. QED  BY <3>1, <3>2, <3>3, <3>6, <4>1, <1>6 DEF MarkerOK
    <3>9. k \in Pending /\ started[k] > 0 => k \in Unreconciled
      BY <3>1, <1>4 DEF MarkerOK
    <3>. QED
      BY <3>1, <3>4, <3>5, <3>7, <3>8, <3>9, <1>1, <1>6 DEF MarkerOK, Held, streamVars
  <2>. QED  BY <1>3, <2>2, <2>3 DEF IInv
<1>7. lost \subseteq Markers /\ faults \in 0..MaxFaults /\ Orphans(a) \subseteq Markers
  BY DEF IInv, TypeOK, Orphans, Pending
<1>. QED  BY <1>5, <1>6, <1>7, BudgetAssumption DEF Scan, Well, Fault

LEMMA CrashKeeps ==
  ASSUME IInv, Crash
  PROVE  IInv'
<1>1. /\ life' = life + 1 /\ blocked' = {} /\ lost' = {} /\ unscanned' = Agents
      /\ agent' = [a \in Agents |-> Fresh]
      /\ UNCHANGED <<turns, requests, marker, streamVars, faults, accepted>>
      /\ crashes' \in 0..MaxCrashes
  BY BudgetAssumption DEF IInv, TypeOK, Crash
<1>2. Fresh \in AgentStates
  BY BudgetAssumption DEF Fresh, AgentStates, Places
<1>3. TypeOK'
  BY <1>1, <1>2 DEF IInv, TypeOK, LedgerTypeOK, AgentStates, streamVars
<1>4. HoldsAlone' /\ ScanFirst' /\ \A a \in Agents : HolderOK(a)'
  BY <1>1 DEF HoldsAlone, ScanFirst, HolderOK, Acc, Fresh, AtWork
<1>5. ASSUME NEW m \in Markers PROVE MarkerOK(m)'
  <2>1. MarkerOK(m) /\ life \in Nat /\ marker[m].owner \in Nat
    BY DEF IInv, TypeOK, LedgerTypeOK
  <2>2. marker[m].owner < life' /\ marker'[m] = marker[m]
    BY <1>1, <2>1 DEF MarkerOK
  <2>3. (m \in Pending)' <=> m \in Pending
    BY <1>1 DEF Pending
  <2>4. (m \in Unreconciled)' <=> m \in Pending
    BY <1>1, <2>1, <2>2, <2>3 DEF Unreconciled
  <2>. QED
    BY <1>1, <2>1, <2>2, <2>3, <2>4 DEF MarkerOK, Held, streamVars
<1>. QED  BY <1>3, <1>4, <1>5 DEF IInv

-----------------------------------------------------------------------------
(* The invariant                                                            *)

LEMMA IInvInit ==
  ASSUME Init
  PROVE  IInv
<1>1. Fresh \in AgentStates
  BY BudgetAssumption DEF Fresh, AgentStates, Places
<1>2. Unused \in MarkerRecords
  BY DEF Unused, MarkerRecords
<1>3. TypeOK
  BY <1>1, <1>2, BudgetAssumption
     DEF Init, LedgerInit, TypeOK, LedgerTypeOK, AgentStates, MarkerRecords
<1>4. HoldsAlone /\ ScanFirst /\ \A a \in Agents : HolderOK(a)
  BY DEF Init, HoldsAlone, ScanFirst, HolderOK, Acc, Fresh, AtWork
<1>5. \A m \in Markers : MarkerOK(m)
  BY DEF Init, LedgerInit, MarkerOK, Unused, Pending, Unreconciled
<1>. QED  BY <1>3, <1>4, <1>5 DEF IInv

LEMMA IInvNext ==
  ASSUME IInv, [Next]_vars
  PROVE  IInv'
<1>1. CASE \E a \in Agents : LoopStep(a)
  BY <1>1, AdmitKeeps, PauseKeeps, ExceedContextKeeps, StartRequestKeeps, EndRequestKeeps,
     RecordKeeps, AcceptKeeps, CloseoutKeeps
     DEF LoopStep
<1>2. CASE \E a \in Agents : ArmStep(a)
  BY <1>2, RaiseKeeps, ArmRefundKeeps, ArmDrainKeeps, ArmRecordKeeps DEF ArmStep
<1>3. CASE \E a \in Agents : Scan(a)
  BY <1>3, ScanKeeps
<1>4. CASE Crash
  BY <1>4, CrashKeeps
<1>5. CASE UNCHANGED vars
  BY <1>5
     DEF vars, ledgerVars, streamVars, IInv, TypeOK, LedgerTypeOK, HolderOK, MarkerOK, HoldsAlone,
         ScanFirst, Acc, Held, Pending, Unreconciled, InHand
<1>. QED  BY <1>1, <1>2, <1>3, <1>4, <1>5 DEF Next

LEMMA Invariance == Spec => []IInv
<1>1. Init => IInv
  BY IInvInit
<1>2. IInv /\ [Next]_vars => IInv'
  BY IInvNext
<1>. QED  BY <1>1, <1>2, PTL DEF Spec

(* Whatever fails, is cancelled or dies, and in whatever order: the row, the *)
(* stream and the runs stay within their types, so that no interval has more *)
(* requests than the model and its fallbacks can make.                       *)
THEOREM TypeCorrect == Spec => []TypeOK
<1>1. IInv => TypeOK
  BY DEF IInv
<1>. QED  BY <1>1, Invariance, PTL

(* The tree is locked out of its budget (admit_session_step refuses) only    *)
(* because a call of a store has failed in this process: the scan has closed *)
(* what a dead process left open, and a cancellation leaves nothing behind.  *)
THEOREM LockedOutOnlyForAReason == Spec => []LockedOutForAReason
<1>1. IInv => LockedOutForAReason
  BY DEF IInv, MarkerOK, LockedOutForAReason, Unreconciled, Pending
<1>. QED  BY <1>1, Invariance, PTL

-----------------------------------------------------------------------------
(* Admission                                                                *)

(* Only an admission takes a turn.                                          *)
LEMMA TurnsGrowByAdmission ==
  ASSUME IInv, [Next]_vars, turns' > turns
  PROVE  \E a \in Agents : Admit(a) /\ AdmitSessionStep(a)
<1>. turns \in Nat /\ \A m \in Markers : marker[m].reserved \in Nat
  BY DEF IInv, TypeOK, LedgerTypeOK
<1>1. ASSUME turns' = turns PROVE FALSE
  BY <1>1
<1>2. ASSUME NEW k \in Nat, turns' = Less(turns, k) PROVE FALSE
  BY <1>2, LessType
<1>3. ASSUME NEW a \in Agents, Admit(a), ~AdmitSessionStep(a) PROVE FALSE
  BY <1>3, <1>1 DEF Admit
<1>4. ASSUME NEW a \in Agents,
             Pause(a) \/ StartRequest(a) \/ EndRequest(a) \/ Accept(a) \/ Raise(a) \/ ArmDrain(a)
      PROVE  FALSE
  BY <1>4, <1>1 DEF Pause, StartRequest, EndRequest, Accept, Raise, ArmDrain, ledgerVars
<1>5. ASSUME NEW a \in Agents, Closeout(a) PROVE FALSE
  BY <1>5, <1>1 DEF Closeout, BeginAccounting
<1>6. ASSUME NEW a \in Agents, ExceedContext(a) \/ ArmRefund(a) PROVE FALSE
  BY <1>6, <1>1, <1>2 DEF ExceedContext, ArmRefund, RefundStep, RefundTurn, Returns, Raises
<1>7. ASSUME NEW a \in Agents, Record(a) \/ ArmRecord(a) PROVE FALSE
  BY <1>7, <1>1
     DEF Record, ArmRecord, RecordRequests, ResolveUnsettled, Returns, Raises
<1>8. ASSUME NEW a \in Agents, Scan(a) PROVE FALSE
  <2>1. CASE UNCHANGED turns  BY <2>1, <1>1
  <2>2. CASE \E m \in Markers : Reconcile(m)
    <3>. PICK m \in Markers : Reconcile(m)
      BY <2>2
    <3>. QED
      BY <1>1, <1>2 DEF Reconcile, RecordRequests, ResolveUnsettled, ResolveEmpty
  <2>. QED  BY <1>8, <2>1, <2>2 DEF Scan, Returns, Orphans, Pending
<1>9. ASSUME Crash \/ UNCHANGED vars PROVE FALSE
  BY <1>9, <1>1 DEF Crash, vars, ledgerVars
<1>. QED
  BY <1>3, <1>4, <1>5, <1>6, <1>7, <1>8, <1>9 DEF Next, LoopStep, ArmStep

(* When nothing is unreconciled, the row holds every settled request of an  *)
(* interval that no run is at work on.                                      *)
LEMMA WholeCount ==
  ASSUME IInv, Unreconciled = {}, NEW m \in Markers
  PROVE  InHand(m) \/ Counted(m)
<1>1. /\ MarkerOK(m) /\ settled[m] \in Nat /\ started[m] \in Nat
      /\ marker[m].reserved \in Nat
      /\ marker[m].state \in {"unused", "open"} \cup Closings
  BY DEF IInv, TypeOK, LedgerTypeOK
<1>2. CASE settled[m] = 0
  BY <1>1, <1>2 DEF Counted
<1>3. CASE settled[m] > 0
  BY <1>1, <1>3 DEF MarkerOK, Held, Counted, Pending
<1>. QED  BY <1>1, <1>2, <1>3

(* A step is admitted on the whole count of the tree: after any crash,      *)
(* failure or cancellation, nothing that was settled is missing from it.    *)
THEOREM AdmissionsSeeEverything == Spec => AdmittedOnWholeCount
<1>1. IInv /\ [Next]_vars
        => [turns' > turns => \A m \in Markers : InHand(m) \/ Counted(m)]_vars
  <2>. SUFFICES ASSUME IInv, [Next]_vars, turns' > turns, NEW m \in Markers
                PROVE  InHand(m) \/ Counted(m)
    OBVIOUS
  <2>1. Unreconciled = {}
    BY TurnsGrowByAdmission DEF AdmitSessionStep
  <2>. QED  BY <2>1, WholeCount
<1>. QED  BY <1>1, Invariance, PTL DEF Spec, AdmittedOnWholeCount
-----------------------------------------------------------------------------
(* The turns.  An accepted decision and a step that is being decided each   *)
(* have a turn of their own in the row; but a turn may also wait there for  *)
(* somebody to take it back, when a refund has failed, an admission was     *)
(* interrupted or the process has died: it waits with an open interval in   *)
(* which no request was started, and the scan takes it back together with   *)
(* that interval.                                                           *)

Reserving  == {a \in Agents : agent[a].reserved}
Claimed(m) == \E a \in Reserving : Acc(a) = m
Credit ==
    {m \in Markers : /\ marker[m].state = "open" /\ marker[m].reserved = 1
                     /\ started[m] = 0 /\ ~Claimed(m)}

(* Every claim has its turn in the row.                                     *)
Covered == turns >= accepted + Cardinality(Reserving) + Cardinality(Credit)

(* Before an admission and after the refund nothing is reserved.            *)
Unreserved ==
    \A a \in Agents :
        agent[a].at \in {"top", "pausing", "refunded", "drained", "over"}
            => ~agent[a].reserved

TurnsInv == IInv /\ Unreserved /\ Covered
-----------------------------------------------------------------------------
(* Counting                                                                 *)

LEMMA AgentsAndMarkersAreFinite ==
  /\ \A S \in SUBSET Agents : IsFiniteSet(S) /\ Cardinality(S) \in Nat
  /\ \A S \in SUBSET Markers : IsFiniteSet(S) /\ Cardinality(S) \in Nat
<1>1. IsFiniteSet(Agents)
  BY LedgerAssumption
<1>2. IsFiniteSet(Markers)
  BY LedgerAssumption, FS_Interval DEF Markers
<1>. QED  BY <1>1, <1>2, FS_Subset, FS_CardinalityType

LEMMA CountSubset ==
  ASSUME NEW S, IsFiniteSet(S), NEW T \in SUBSET S
  PROVE  Cardinality(T) <= Cardinality(S)
  BY FS_Subset

LEMMA CountOneMore ==
  ASSUME NEW S, IsFiniteSet(S), NEW x, NEW T \in SUBSET (S \cup {x})
  PROVE  Cardinality(T) <= Cardinality(S) + 1
<1>1. /\ IsFiniteSet(S \cup {x})
      /\ Cardinality(S \cup {x}) = IF x \in S THEN Cardinality(S) ELSE Cardinality(S) + 1
  BY FS_AddElement
<1>2. Cardinality(S) \in Nat
  BY FS_CardinalityType
<1>3. Cardinality(S \cup {x}) <= Cardinality(S) + 1
  BY <1>1, <1>2
<1>4. Cardinality(T) <= Cardinality(S \cup {x}) /\ IsFiniteSet(T)
  BY <1>1, FS_Subset
<1>5. Cardinality(T) \in Nat /\ Cardinality(S \cup {x}) \in Nat
  BY <1>1, <1>4, FS_CardinalityType
<1>. QED  BY <1>2, <1>3, <1>4, <1>5

LEMMA CountOneLess ==
  ASSUME NEW S, IsFiniteSet(S), NEW x \in S, NEW T \in SUBSET (S \ {x})
  PROVE  Cardinality(T) + 1 <= Cardinality(S)
<1>1. /\ IsFiniteSet(S \ {x}) /\ Cardinality(S) \in Nat
      /\ Cardinality(S \ {x}) = Cardinality(S) - 1
  BY FS_RemoveElement, FS_CardinalityType
<1>2. Cardinality(T) <= Cardinality(S \ {x}) /\ Cardinality(T) \in Nat
  BY <1>1, FS_Subset, FS_CardinalityType
<1>. QED  BY <1>1, <1>2

LEMMA CountsAreNumbers ==
  ASSUME IInv
  PROVE  /\ IsFiniteSet(Reserving) /\ Cardinality(Reserving) \in Nat
         /\ IsFiniteSet(Credit) /\ Cardinality(Credit) \in Nat
         /\ turns \in Nat /\ accepted \in Nat
<1>1. Reserving \in SUBSET Agents /\ Credit \in SUBSET Markers
  BY DEF Reserving, Credit
<1>. QED  BY <1>1, AgentsAndMarkersAreFinite DEF IInv, TypeOK, LedgerTypeOK
-----------------------------------------------------------------------------
(* What a step does to the claims                                           *)

(* Every interval that is open after the step was so before.                *)
OpenedNone ==
    \A k \in Markers :
        /\ marker'[k].state = "open" => marker'[k] = marker[k]
        /\ started'[k] = 0 => started[k] = 0

(* Nobody else moves.                                                       *)
OnlyMoves(a) ==
    /\ agent' \in [Agents -> AgentStates]
    /\ \A b \in Agents : b # a => agent'[b] = agent[b]

(* Only what the agent has let go of may wait to be taken back.             *)
LEMMA CreditAfter ==
  ASSUME IInv, NEW a \in Agents, OnlyMoves(a), OpenedNone
  PROVE  /\ Credit' \subseteq Credit \cup {Acc(a)}
         /\ (agent[a].reserved => agent'[a].reserved /\ Acc(a)' = Acc(a))
              => Credit' \subseteq Credit
         /\ Acc(a) \in Markers /\ (marker'[Acc(a)].state # "open" \/ started'[Acc(a)] > 0)
              => Credit' \subseteq Credit
         /\ Acc(a) = NoMarker => Credit' \subseteq Credit
<1>1. ASSUME NEW k \in Markers, k \in Credit', k \notin Credit
      PROVE  /\ agent[a].reserved /\ Acc(a) = k
             /\ ~(agent'[a].reserved /\ Acc(a)' = k)
             /\ marker'[k].state = "open" /\ started'[k] = 0
  <2>1. /\ marker'[k].state = "open" /\ marker'[k].reserved = 1 /\ started'[k] = 0
        /\ ~Claimed(k)'
    BY <1>1 DEF Credit
  <2>2. marker[k].state = "open" /\ marker[k].reserved = 1 /\ started[k] = 0
    BY <2>1 DEF OpenedNone
  <2>3. PICK b \in Agents : agent[b].reserved /\ Acc(b) = k
    BY <1>1, <2>2 DEF Credit, Claimed, Reserving
  <2>4. \A c \in Agents : ~(agent'[c].reserved /\ Acc(c)' = k)
    BY <2>1 DEF Claimed, Reserving
  <2>5. b = a
    BY <2>3, <2>4 DEF OnlyMoves, Acc
  <2>. QED  BY <2>1, <2>3, <2>4, <2>5
<1>2. Credit' \subseteq Markers
  BY DEF Credit
<1>. QED  BY <1>1, <1>2, MarkersAreNumbers

LEMMA ReservingAfter ==
  ASSUME IInv, NEW a \in Agents, OnlyMoves(a)
  PROVE  /\ Reserving' \subseteq Reserving \cup {a}
         /\ (agent'[a].reserved => agent[a].reserved) => Reserving' \subseteq Reserving
         /\ ~agent'[a].reserved => Reserving' \subseteq Reserving \ {a}
  BY DEF Reserving, OnlyMoves

(* The ways in which a step keeps every claim covered.                      *)
LEMMA NoNewClaim ==
  ASSUME IInv, Covered, IInv', turns' = turns, accepted' = accepted,
         Reserving' \subseteq Reserving, Credit' \subseteq Credit
  PROVE  Covered'
<1>1. /\ Cardinality(Reserving') <= Cardinality(Reserving)
      /\ Cardinality(Credit') <= Cardinality(Credit)
  BY CountsAreNumbers, CountSubset
<1>2. Cardinality(Reserving') \in Nat /\ Cardinality(Credit') \in Nat
  BY CountsAreNumbers, FS_Subset, FS_CardinalityType
<1>. QED  BY <1>1, <1>2, CountsAreNumbers DEF Covered

(* A reservation ends: its turn is used up or given back ...                *)
LEMMA ClaimEnds ==
  ASSUME IInv, Covered, IInv', NEW a \in Reserving,
         \/ turns' = turns /\ accepted' = accepted + 1
         \/ turns' = Less(turns, 1) /\ accepted' = accepted,
         Reserving' \subseteq Reserving \ {a}, Credit' \subseteq Credit
  PROVE  Covered'
<1>1. /\ Cardinality(Reserving') + 1 <= Cardinality(Reserving)
      /\ Cardinality(Credit') <= Cardinality(Credit)
  BY CountsAreNumbers, CountSubset, CountOneLess
<1>2. IsFiniteSet(Reserving') /\ IsFiniteSet(Credit')
  BY CountsAreNumbers, FS_Subset
<1>3. Cardinality(Reserving') \in Nat /\ Cardinality(Credit') \in Nat
  BY <1>2, FS_CardinalityType
<1>. QED  BY <1>1, <1>3, CountsAreNumbers DEF Covered, Less

(* ... or left to the scan.                                                 *)
LEMMA ClaimLeft ==
  ASSUME IInv, Covered, IInv', NEW a \in Reserving, NEW m,
         turns' = turns, accepted' = accepted,
         Reserving' \subseteq Reserving \ {a}, Credit' \subseteq Credit \cup {m}
  PROVE  Covered'
<1>1. /\ Cardinality(Reserving') + 1 <= Cardinality(Reserving)
      /\ Cardinality(Credit') <= Cardinality(Credit) + 1
  BY CountsAreNumbers, CountOneMore, CountOneLess
<1>2. IsFiniteSet(Reserving') /\ IsFiniteSet(Credit \cup {m})
  BY CountsAreNumbers, FS_Subset, FS_AddElement
<1>3. IsFiniteSet(Credit')
  BY <1>2, FS_Subset
<1>4. Cardinality(Reserving') \in Nat /\ Cardinality(Credit') \in Nat
  BY <1>2, <1>3, FS_CardinalityType
<1>. QED  BY <1>1, <1>4, CountsAreNumbers DEF Covered

(* A step that neither takes nor gives back a turn, nor lets go of an       *)
(* interval that is still untouched.                                        *)
LEMMA QuietStep ==
  ASSUME IInv, Covered, IInv', NEW a \in Agents, OnlyMoves(a), OpenedNone,
         turns' = turns, accepted' = accepted,
         agent'[a].reserved = agent[a].reserved,
         \/ Acc(a)' = Acc(a)
         \/ ~agent[a].reserved
         \/ Acc(a) \in Markers /\ marker'[Acc(a)].state # "open"
  PROVE  Covered'
<1>1. Reserving' \subseteq Reserving
  BY ReservingAfter
<1>2. Credit' \subseteq Credit
  BY CreditAfter
<1>. QED  BY <1>1, <1>2, NoNewClaim

-----------------------------------------------------------------------------
(* The loop                                                                 *)

LEMMA UnchangedMarkers ==
  ASSUME IInv, UNCHANGED marker, IInv', \A k \in Markers : started'[k] >= started[k]
  PROVE  OpenedNone
  BY DEF IInv, TypeOK, OpenedNone

LEMMA WalkCovers ==
  ASSUME TurnsInv, IInv', NEW a \in Agents,
         Pause(a) \/ StartRequest(a) \/ EndRequest(a) \/ Raise(a) \/ ArmDrain(a)
  PROVE  Covered' /\ Unreserved'
<1>. USE DEF TurnsInv
<1>1. /\ OnlyMoves(a) /\ Acc(a)' = Acc(a) /\ agent'[a].reserved = agent[a].reserved
      /\ agent'[a].at = "pausing" => agent[a].at = "top"
      /\ agent'[a].at = "drained" => agent[a].at = "refunded"
      /\ agent'[a].at \notin {"top", "refunded", "over"}
  BY DEF IInv, TypeOK, Pause, StartRequest, EndRequest, Raise, ArmDrain, At, Go, OnlyMoves,
         AgentStates, Places, Acc
<1>2. UNCHANGED <<turns, accepted, marker>>
  BY DEF Pause, StartRequest, EndRequest, Raise, ArmDrain, ledgerVars, Well, Fault
<1>3. \A k \in Markers : started'[k] >= started[k]
  BY DEF IInv, TypeOK, Pause, StartRequest, EndRequest, Raise, ArmDrain, streamVars
<1>4. Covered'
  BY <1>1, <1>2, <1>3, UnchangedMarkers, QuietStep
<1>5. Unreserved'
  BY <1>1 DEF OnlyMoves, Unreserved
<1>. QED  BY <1>4, <1>5

LEMMA ClosedNone ==
  ASSUME IInv, NEW m \in Markers, NEW how \in Closings, Close(m, how), UNCHANGED started
  PROVE  OpenedNone /\ marker'[m].state # "open"
  BY ClosedMarker DEF IInv, TypeOK, OpenedNone, Closings

LEMMA RecordingCovers ==
  ASSUME IInv, NEW m \in Markers, NEW n, RecordRequests(m, n), UNCHANGED started
  PROVE  OpenedNone /\ turns' = turns /\ marker'[m].state # "open"
<1>1. CASE Close(m, "recorded")
  BY <1>1, ClosedNone DEF RecordRequests, Closings
<1>2. CASE UNCHANGED marker /\ marker[m].state = "recorded"
  BY <1>2 DEF RecordRequests, OpenedNone
<1>. QED  BY <1>1, <1>2 DEF RecordRequests

LEMMA RecordCovers ==
  ASSUME TurnsInv, IInv', NEW a \in Agents, Record(a)
  PROVE  Covered' /\ Unreserved'
<1>. USE DEF TurnsInv
<1>1. PICK m \in Markers : m = Acc(a)
  BY OwnMarker DEF HolderOK, Record, At, AtWork
<1>2. /\ OnlyMoves(a) /\ agent'[a].reserved = agent[a].reserved
      /\ agent'[a].at \in {"recorded", "raised"} /\ accepted' = accepted
      /\ UNCHANGED started
  BY DEF IInv, TypeOK, Record, Go, OnlyMoves, AgentStates, Places, Returns, Raises, Well, Fault,
         streamVars
<1>3. ASSUME RecordRequests(m, settled[m]) PROVE Covered'
  BY <1>1, <1>2, <1>3, RecordingCovers, QuietStep
<1>4. ASSUME UNCHANGED <<turns, marker>>, Go(a, "raised") PROVE Covered'
  <2>1. OpenedNone /\ Acc(a)' = Acc(a)
    BY <1>2, <1>4 DEF IInv, TypeOK, OpenedNone, Go, Acc
  <2>. QED  BY <1>2, <1>4, <2>1, QuietStep
<1>5. Covered'
  BY <1>1, <1>3, <1>4 DEF Record, Returns, Raises
<1>6. Unreserved'
  BY <1>2 DEF OnlyMoves, Unreserved
<1>. QED  BY <1>5, <1>6

LEMMA AcceptCovers ==
  ASSUME TurnsInv, IInv', NEW a \in Agents, Accept(a)
  PROVE  Covered' /\ Unreserved'
<1>. USE DEF TurnsInv
<1>1. /\ OnlyMoves(a) /\ ~agent'[a].reserved /\ Acc(a) = NoMarker
      /\ UNCHANGED <<turns, marker, started>>
  BY OwnMarker DEF IInv, TypeOK, HolderOK, Accept, At, Go, OnlyMoves, AgentStates, Places,
         EmptyHanded, ledgerVars, streamVars
<1>2. OpenedNone
  BY <1>1 DEF OpenedNone
<1>3. Credit' \subseteq Credit /\ Reserving' \subseteq Reserving \ {a}
  BY <1>1, <1>2, CreditAfter, ReservingAfter
<1>4. CASE agent[a].reserved
  <2>1. a \in Reserving /\ accepted' = accepted + 1
    BY <1>4 DEF Accept, Reserving
  <2>. QED  BY <1>1, <1>3, <2>1, ClaimEnds DEF OnlyMoves, Unreserved
<1>5. CASE ~agent[a].reserved
  BY <1>1, <1>3, <1>5, NoNewClaim DEF Accept, OnlyMoves, Unreserved
<1>. QED  BY <1>4, <1>5

(* A turn more pays for one claim more.                                     *)
LEMMA ClaimAdded ==
  ASSUME IInv, Covered, IInv', NEW x, turns' = turns + 1, accepted' = accepted,
         \/ Reserving' \subseteq Reserving \cup {x} /\ Credit' \subseteq Credit
         \/ Reserving' \subseteq Reserving /\ Credit' \subseteq Credit \cup {x}
  PROVE  Covered'
<1>1. /\ IsFiniteSet(Reserving \cup {x}) /\ IsFiniteSet(Credit \cup {x})
      /\ IsFiniteSet(Reserving') /\ IsFiniteSet(Credit')
  BY CountsAreNumbers, FS_AddElement, FS_Subset
<1>2. Cardinality(Reserving') \in Nat /\ Cardinality(Credit') \in Nat
  BY <1>1, FS_CardinalityType
<1>3. CASE Reserving' \subseteq Reserving \cup {x} /\ Credit' \subseteq Credit
  <2>1. /\ Cardinality(Reserving') <= Cardinality(Reserving) + 1
        /\ Cardinality(Credit') <= Cardinality(Credit)
    BY <1>3, CountsAreNumbers, CountSubset, CountOneMore
  <2>. QED  BY <1>2, <2>1, CountsAreNumbers DEF Covered
<1>4. CASE Reserving' \subseteq Reserving /\ Credit' \subseteq Credit \cup {x}
  <2>1. /\ Cardinality(Reserving') <= Cardinality(Reserving)
        /\ Cardinality(Credit') <= Cardinality(Credit) + 1
    BY <1>4, CountsAreNumbers, CountSubset, CountOneMore
  <2>. QED  BY <1>2, <2>1, CountsAreNumbers DEF Covered
<1>. QED  BY <1>3, <1>4

(* A new interval waits for the scan unless it is claimed or reserves       *)
(* nothing.                                                                 *)
LEMMA CreditOpened ==
  ASSUME IInv, NEW a \in Agents, OnlyMoves(a), ~agent[a].reserved,
         NEW m \in Markers, NewMarker(a, m), UNCHANGED started
  PROVE  /\ Credit' \subseteq Credit \cup {m}
         /\ agent'[a].reserved /\ Acc(a)' = m => Credit' \subseteq Credit
         /\ marker'[m].reserved = 0 => Credit' \subseteq Credit
<1>1. ASSUME NEW k \in Markers, k \in Credit', k # m PROVE k \in Credit
  <2>1. /\ marker[k].state = "open" /\ marker[k].reserved = 1 /\ started[k] = 0
        /\ \A b \in Agents : ~(agent'[b].reserved /\ Acc(b)' = k)
    BY <1>1 DEF Credit, Claimed, Reserving, NewMarker
  <2>. QED  BY <2>1 DEF OnlyMoves, Acc, Credit, Claimed, Reserving
<1>2. agent'[a].reserved /\ Acc(a)' = m => m \notin Credit'
  BY DEF Credit, Claimed, Reserving
<1>3. marker'[m].reserved = 0 => m \notin Credit'
  BY DEF Credit
<1>4. Credit' \subseteq Markers
  BY DEF Credit
<1>. QED  BY <1>1, <1>2, <1>3, <1>4

LEMMA AdmitCovers ==
  ASSUME TurnsInv, IInv', NEW a \in Agents, Admit(a)
  PROVE  Covered' /\ Unreserved'
<1>. USE DEF TurnsInv
<1>1. /\ OnlyMoves(a) /\ agent'[a].at \in {"admitted", "raised"} /\ ~agent[a].reserved
      /\ UNCHANGED <<accepted, started>>
  BY DEF IInv, TypeOK, Admit, At, Go, OnlyMoves, AgentStates, Places, Well, Fault, streamVars,
         Unreserved
<1>2. Unreserved'
  BY <1>1 DEF OnlyMoves, Unreserved
<1>3. ASSUME AdmitSessionStep(a) PROVE Covered'
  <2>1. PICK m \in Markers : m = NextMarker /\ NewMarker(a, m)
    BY <1>3, OpensNew DEF AdmitSessionStep
  <2>2. turns' = turns + 1
    BY <1>3 DEF AdmitSessionStep
  <2>3. CASE agent' = [agent EXCEPT ![a].at = "admitted", ![a].acc = NextMarker,
                                    ![a].reserved = TRUE]
    <3>1. agent'[a].reserved /\ Acc(a)' = m
      BY <2>1, <2>3 DEF IInv, TypeOK, Acc
    <3>2. Credit' \subseteq Credit
      BY <1>1, <2>1, <3>1, CreditOpened
    <3>3. Reserving' \subseteq Reserving \cup {a}
      BY <1>1, ReservingAfter
    <3>. QED  BY <1>1, <2>2, <3>2, <3>3, ClaimAdded
  <2>4. CASE Go(a, "raised")
    <3>1. ~agent'[a].reserved
      BY <1>1, <2>4 DEF IInv, TypeOK, Go
    <3>2. Reserving' \subseteq Reserving /\ Credit' \subseteq Credit \cup {m}
      BY <1>1, <2>1, <3>1, ReservingAfter, CreditOpened
    <3>. QED  BY <1>1, <2>2, <3>2, ClaimAdded
  <2>. QED  BY <1>3, <2>3, <2>4 DEF Admit
<1>4. ASSUME Go(a, "raised"), UNCHANGED <<turns, marker>> PROVE Covered'
  <2>1. OpenedNone /\ agent'[a].reserved = agent[a].reserved
    BY <1>1, <1>4 DEF IInv, TypeOK, OpenedNone, Go
  <2>. QED  BY <1>1, <1>4, <2>1, QuietStep
<1>. QED  BY <1>2, <1>3, <1>4 DEF Admit

LEMMA CloseoutCovers ==
  ASSUME TurnsInv, IInv', NEW a \in Agents, Closeout(a)
  PROVE  Covered' /\ Unreserved'
<1>. USE DEF TurnsInv
<1>1. /\ OnlyMoves(a) /\ agent'[a].at \in {"admitted", "raised", "over"}
      /\ ~agent[a].reserved /\ agent'[a].reserved = agent[a].reserved
      /\ UNCHANGED <<turns, accepted, started>>
  BY DEF IInv, TypeOK, Closeout, BeginAccounting, At, Go, OnlyMoves, AgentStates, Places, Well,
         Fault, streamVars, Unreserved
<1>2. Unreserved'
  BY <1>1 DEF OnlyMoves, Unreserved
<1>3. ASSUME BeginAccounting(a) PROVE Covered'
  <2>1. PICK m \in Markers : m = NextMarker /\ NewMarker(a, m)
    BY <1>3, OpensNew DEF BeginAccounting
  <2>2. marker'[m].reserved = 0
    <3>1. Open(a, 0) /\ LedgerTypeOK
      BY <1>3 DEF BeginAccounting, IInv, TypeOK
    <3>2. marker'[m] = [state |-> "open", agent |-> a, reserved |-> 0, owner |-> life]
      BY <2>1, <3>1, OpenedMarker
    <3>. QED  BY <3>2
  <2>3. Reserving' \subseteq Reserving /\ Credit' \subseteq Credit
    BY <1>1, <2>1, <2>2, ReservingAfter, CreditOpened
  <2>. QED  BY <1>1, <2>3, NoNewClaim
<1>4. ASSUME UNCHANGED marker PROVE Covered'
  <2>1. OpenedNone
    BY <1>1, <1>4 DEF OpenedNone
  <2>. QED  BY <1>1, <2>1, QuietStep
<1>. QED  BY <1>2, <1>3, <1>4 DEF Closeout

-----------------------------------------------------------------------------
(* The arms                                                                 *)

(* A refund of the whole step, committed or not.                            *)
LEMMA RefundCovers ==
  ASSUME IInv, Covered, IInv', NEW a \in Reserving, OnlyMoves(a), ~agent'[a].reserved,
         NEW m \in Markers, m = Acc(a), UNCHANGED <<started, accepted>>,
         RefundStep(m) \/ UNCHANGED <<turns, requests, marker>>
  PROVE  Covered'
<1>1. a \in Agents /\ Reserving' \subseteq Reserving \ {a}
  BY ReservingAfter DEF Reserving
<1>2. CASE RefundStep(m)
  <2>1. OpenedNone /\ marker'[m].state # "open" /\ turns' = Less(turns, 1)
    BY <1>2, ClosedNone DEF RefundStep, Closings
  <2>2. Credit' \subseteq Credit
    BY <1>1, <2>1, CreditAfter
  <2>. QED  BY <1>1, <2>1, <2>2, ClaimEnds
<1>3. CASE UNCHANGED <<turns, requests, marker>>
  <2>1. Credit' \subseteq Credit \cup {m}
    BY <1>1, <1>3, CreditAfter DEF OpenedNone
  <2>. QED  BY <1>1, <1>3, <2>1, ClaimLeft
<1>. QED  BY <1>2, <1>3

LEMMA ExceedContextCovers ==
  ASSUME TurnsInv, IInv', NEW a \in Agents, ExceedContext(a)
  PROVE  Covered' /\ Unreserved'
<1>. USE DEF TurnsInv
<1>1. PICK m \in Markers : m = Acc(a)
  BY OwnMarker DEF HolderOK, ExceedContext, At, AtWork
<1>2. /\ OnlyMoves(a) /\ a \in Reserving /\ ~agent'[a].reserved
      /\ UNCHANGED <<started, accepted>>
  BY DEF IInv, TypeOK, ExceedContext, OnlyMoves, AgentStates, Places, Returns, Raises, Well,
         Fault, streamVars, Reserving
<1>3. RefundStep(m) \/ UNCHANGED <<turns, requests, marker>>
  BY <1>1 DEF ExceedContext, Returns, Raises
<1>. QED  BY <1>1, <1>2, <1>3, RefundCovers DEF OnlyMoves, Unreserved

LEMMA ArmRefundCovers ==
  ASSUME TurnsInv, IInv', NEW a \in Agents, ArmRefund(a)
  PROVE  Covered' /\ Unreserved'
<1>. USE DEF TurnsInv
<1>1. /\ OnlyMoves(a) /\ ~agent'[a].reserved /\ UNCHANGED <<started, accepted>>
  BY DEF IInv, TypeOK, ArmRefund, Go, OnlyMoves, AgentStates, Places, Returns, Raises, Well,
         Fault, streamVars
<1>2. Unreserved'
  BY <1>1 DEF OnlyMoves, Unreserved
<1>3. CASE ~agent[a].reserved
  <2>1. UNCHANGED <<turns, marker>>
    BY <1>3 DEF ArmRefund
  <2>2. OpenedNone /\ Reserving' \subseteq Reserving
    BY <1>1, <2>1, ReservingAfter DEF OpenedNone
  <2>3. Credit' \subseteq Credit
    BY <1>1, <1>3, <2>2, CreditAfter
  <2>. QED  BY <1>1, <1>2, <2>1, <2>2, <2>3, NoNewClaim
<1>4. CASE agent[a].reserved /\ Acc(a) # NoMarker /\ Attempts(Acc(a)) = 0
  <2>1. PICK m \in Markers : m = Acc(a)
    BY <1>4, OwnMarker
  <2>2. RefundStep(m) \/ UNCHANGED <<turns, requests, marker>>
    BY <1>4, <2>1 DEF ArmRefund, Returns, Raises
  <2>. QED  BY <1>1, <1>2, <1>4, <2>1, <2>2, RefundCovers DEF Reserving
<1>5. CASE agent[a].reserved /\ (Acc(a) = NoMarker \/ Attempts(Acc(a)) > 0)
  <2>1. (RefundTurn \/ UNCHANGED turns) /\ UNCHANGED marker
    BY <1>5 DEF ArmRefund, RefundTurn, Attempts
  <2>2. OpenedNone /\ a \in Reserving /\ Reserving' \subseteq Reserving \ {a}
    BY <1>1, <1>5, <2>1, ReservingAfter DEF OpenedNone, Reserving
  <2>3. Credit' \subseteq Credit
    BY <1>1, <1>5, <2>2, OwnMarker, CreditAfter DEF Attempts
  <2>4. CASE turns' = Less(turns, 1)
    BY <1>1, <1>2, <2>2, <2>3, <2>4, ClaimEnds
  <2>5. CASE UNCHANGED turns
    BY <1>1, <1>2, <2>2, <2>3, <2>5, NoNewClaim
  <2>. QED  BY <2>1, <2>4, <2>5 DEF RefundTurn
<1>6. Acc(a) # NoMarker => Attempts(Acc(a)) \in Nat
  BY OwnMarker DEF IInv, TypeOK, Attempts
<1>. QED  BY <1>3, <1>4, <1>5, <1>6

LEMMA ArmRecordCovers ==
  ASSUME TurnsInv, IInv', NEW a \in Agents, ArmRecord(a)
  PROVE  Covered' /\ Unreserved'
<1>. USE DEF TurnsInv
<1>1. /\ OnlyMoves(a) /\ ~agent[a].reserved /\ agent'[a].reserved = agent[a].reserved
      /\ UNCHANGED <<started, accepted>>
  BY DEF IInv, TypeOK, ArmRecord, At, OnlyMoves, AgentStates, Places, Returns, Raises, Well,
         Fault, streamVars, Unreserved
<1>2. OpenedNone /\ turns' = turns
  <2>1. CASE UNCHANGED <<turns, marker>>
    BY <1>1, <2>1 DEF OpenedNone
  <2>2. ASSUME NEW m \in Markers, RecordRequests(m, settled[m]) \/ ResolveUnsettled(m)
        PROVE  OpenedNone /\ turns' = turns
    BY <1>1, <2>2, RecordingCovers, ClosedNone DEF ResolveUnsettled, OpenedNone, Closings
  <2>3. Attempts(Acc(a)) > 0 => Acc(a) \in Markers
    BY OwnMarker DEF Attempts
  <2>. QED  BY <2>1, <2>2, <2>3 DEF ArmRecord, Returns, Raises
<1>3. Covered'
  BY <1>1, <1>2, QuietStep
<1>. QED  BY <1>1, <1>3 DEF OnlyMoves, Unreserved
-----------------------------------------------------------------------------
(* Death and recovery                                                       *)

LEMMA ScanCovers ==
  ASSUME TurnsInv, IInv', NEW a \in Agents, Scan(a)
  PROVE  Covered' /\ Unreserved'
<1>. USE DEF TurnsInv
<1>1. UNCHANGED <<agent, started, accepted>>
  BY DEF Scan, Returns, Well, Fault, streamVars
<1>2. Unreserved' /\ Reserving' \subseteq Reserving /\ Reserving = {}
  BY <1>1, NobodyHolds DEF Scan, Unreserved, Reserving, Fresh
<1>3. OpenedNone => Credit' \subseteq Credit
  BY <1>1, <1>2 DEF OpenedNone, Credit, Claimed, Acc
<1>4. CASE OpenedNone /\ turns' = turns
  BY <1>1, <1>2, <1>3, <1>4, NoNewClaim
<1>5. ASSUME NEW m \in Markers, ResolveEmpty(m), started[m] = 0 PROVE Covered'
  <2>1. /\ OpenedNone /\ marker'[m].state # "open" /\ marker[m].state = "open"
        /\ turns' = Less(turns, marker[m].reserved)
    BY <1>1, <1>5, ClosedNone DEF ResolveEmpty, Closings, Pending
  <2>2. CASE marker[m].reserved = 0
    <3>1. turns' = turns
      BY <2>1, <2>2 DEF IInv, TypeOK, LedgerTypeOK, Less
    <3>. QED  BY <1>1, <1>2, <1>3, <2>1, <3>1, NoNewClaim
  <2>3. CASE marker[m].reserved = 1
    <3>1. m \in Credit /\ Credit' \subseteq Credit \ {m}
      BY <1>2, <1>3, <1>5, <2>1, <2>3 DEF Credit, Claimed
    <3>2. IsFiniteSet(Credit') /\ Cardinality(Credit') + 1 <= Cardinality(Credit)
      BY <3>1, CountsAreNumbers, CountOneLess, FS_Subset
    <3>3. Reserving' = {} /\ Cardinality(Credit') \in Nat /\ Cardinality({}) = 0
      BY <1>2, <3>2, FS_CardinalityType, FS_EmptySet
    <3>. QED  BY <1>1, <1>2, <2>1, <2>3, <3>2, <3>3, CountsAreNumbers DEF Covered, Less
  <2>. QED  BY <2>2, <2>3 DEF IInv, TypeOK, LedgerTypeOK
<1>6. ASSUME NEW m \in Markers, RecordRequests(m, settled[m]) \/ ResolveUnsettled(m)
      PROVE  OpenedNone /\ turns' = turns
  BY <1>1, <1>6, RecordingCovers, ClosedNone DEF ResolveUnsettled, OpenedNone, Closings
<1>7. ASSUME UNCHANGED <<turns, marker>> PROVE OpenedNone /\ turns' = turns
  BY <1>1, <1>7 DEF OpenedNone
<1>8. Orphans(a) \subseteq Markers
  BY DEF Orphans, Pending
<1>. QED  BY <1>2, <1>4, <1>5, <1>6, <1>7, <1>8 DEF Scan, Returns, Reconcile

(* The claims of the dead process: no two of them are on one interval.      *)
LEMMA CrashCovers ==
  ASSUME TurnsInv, IInv', Crash
  PROVE  Covered' /\ Unreserved'
<1>. USE DEF TurnsInv
<1>. DEFINE Left == {Acc(a) : a \in Reserving}
            LeftBy == [a \in Reserving |-> Acc(a)]
<1>1. UNCHANGED <<turns, accepted, marker, started>>
  BY DEF Crash, streamVars
<1>2. Unreserved' /\ Reserving' = {}
  BY DEF Crash, Unreserved, Reserving, Fresh
<1>3. Credit' \subseteq Credit \cup Left
  BY <1>1 DEF Credit, Claimed
<1>4. /\ IsFiniteSet(Left) /\ Cardinality(Left) \in Nat
      /\ Cardinality(Left) <= Cardinality(Reserving)
  <2>1. LeftBy \in Surjection(Reserving, Left)
    BY DEF Surjection
  <2>. QED  BY <2>1, CountsAreNumbers, FS_Surjection, FS_CardinalityType
<1>5. /\ IsFiniteSet(Credit \cup Left)
      /\ Cardinality(Credit \cup Left) <= Cardinality(Credit) + Cardinality(Left)
  <2>1. Cardinality(Credit \cap Left) \in Nat
    BY <1>4, FS_Subset, FS_CardinalityType
  <2>. QED  BY <1>4, <2>1, CountsAreNumbers, FS_Union
<1>6. /\ IsFiniteSet(Credit') /\ Cardinality(Credit') <= Cardinality(Credit \cup Left)
  BY <1>3, <1>5, FS_Subset
<1>7. /\ Cardinality(Credit') \in Nat /\ Cardinality(Credit \cup Left) \in Nat
      /\ Cardinality(Reserving') = 0
  BY <1>2, <1>5, <1>6, FS_CardinalityType, FS_EmptySet
<1>. QED
  BY <1>1, <1>2, <1>4, <1>5, <1>6, <1>7, CountsAreNumbers DEF Covered
-----------------------------------------------------------------------------
(* The invariant                                                            *)

LEMMA TurnsInvInit ==
  ASSUME Init
  PROVE  TurnsInv
<1>1. IInv /\ Unreserved
  BY IInvInit DEF Init, Unreserved, Fresh
<1>2. Reserving = {} /\ Credit = {} /\ turns = 0 /\ accepted = 0
  BY DEF Init, LedgerInit, Reserving, Credit, Fresh, Unused
<1>3. Cardinality({}) = 0
  BY FS_EmptySet
<1>. QED  BY <1>1, <1>2, <1>3 DEF TurnsInv, Covered

LEMMA TurnsInvNext ==
  ASSUME TurnsInv, [Next]_vars
  PROVE  TurnsInv'
<1>1. IInv'
  BY IInvNext DEF TurnsInv
<1>2. CASE \E a \in Agents : LoopStep(a)
  BY <1>1, <1>2, AdmitCovers, WalkCovers, ExceedContextCovers, RecordCovers, AcceptCovers,
     CloseoutCovers
     DEF LoopStep, TurnsInv
<1>3. CASE \E a \in Agents : ArmStep(a)
  BY <1>1, <1>3, WalkCovers, ArmRefundCovers, ArmRecordCovers DEF ArmStep, TurnsInv
<1>4. CASE \E a \in Agents : Scan(a)
  BY <1>1, <1>4, ScanCovers DEF TurnsInv
<1>5. CASE Crash
  BY <1>1, <1>5, CrashCovers DEF TurnsInv
<1>6. CASE UNCHANGED vars
  <2>1. Reserving' = Reserving /\ Credit' = Credit
    BY <1>6 DEF vars, ledgerVars, streamVars, Reserving, Credit, Claimed, Acc
  <2>. QED
    BY <1>1, <1>6, <2>1 DEF vars, ledgerVars, TurnsInv, Unreserved, Covered
<1>. QED  BY <1>2, <1>3, <1>4, <1>5, <1>6 DEF Next

(* No refund takes away the turn of a decision that was accepted, or of a   *)
(* step that is still being decided: not the refund of the arms, not the    *)
(* one that is repeated after an exception, not that of the scan after a    *)
(* death, for every number of agents and intervals.                         *)
THEOREM TurnsNeverTakenAway == Spec => []TurnsStand
<1>1. Init => TurnsInv
  BY TurnsInvInit
<1>2. TurnsInv /\ [Next]_vars => TurnsInv'
  BY TurnsInvNext
<1>3. TurnsInv => TurnsStand
  BY CountsAreNumbers DEF TurnsInv, Covered, TurnsStand, Reserving
<1>. QED  BY <1>1, <1>2, <1>3, PTL DEF Spec
-----------------------------------------------------------------------------
(* The requests.  The sum over the intervals changes with one of them at a  *)
(* time, because its pairs are apart from those of the others.              *)

DueOf(W) == UNION {{m} \X (1..W[m]) : m \in Markers}

LEMMA DueSplits ==
  ASSUME NEW W \in [Markers -> Nat], NEW m \in Markers
  PROVE  LET rest == UNION {{k} \X (1..W[k]) : k \in Markers \ {m}} IN
         /\ IsFiniteSet(rest) /\ Cardinality(rest) \in Nat
         /\ IsFiniteSet(DueOf(W)) /\ Cardinality(DueOf(W)) = Cardinality(rest) + W[m]
<1>. DEFINE part(k) == {k} \X (1..W[k])
            rest == UNION {part(k) : k \in Markers \ {m}}
<1>1. \A k \in Markers : IsFiniteSet(part(k)) /\ Cardinality(part(k)) = W[k]
  <2>. SUFFICES ASSUME NEW k \in Markers
                PROVE  IsFiniteSet(part(k)) /\ Cardinality(part(k)) = W[k]
    OBVIOUS
  <2>1. IsFiniteSet({k}) /\ Cardinality({k}) = 1
    BY FS_Singleton
  <2>2. IsFiniteSet(1..W[k]) /\ Cardinality(1..W[k]) = W[k]
    BY FS_Interval
  <2>. QED  BY <2>1, <2>2, FS_Product
<1>2. IsFiniteSet(rest) /\ Cardinality(rest) \in Nat
  <2>1. IsFiniteSet(Markers \ {m})
    BY AgentsAndMarkersAreFinite
  <2>2. IsFiniteSet({part(k) : k \in Markers \ {m}})
    <3>. DEFINE F == [k \in Markers \ {m} |-> part(k)]
                T == {part(k) : k \in Markers \ {m}}
    <3>1. F \in Surjection(Markers \ {m}, T)
      BY DEF Surjection
    <3>. QED  BY <2>1, <3>1, FS_Surjection
  <2>3. \A T \in {part(k) : k \in Markers \ {m}} : IsFiniteSet(T)
    BY <1>1
  <2>4. IsFiniteSet(rest)
    BY <2>2, <2>3, FS_UNION
  <2>. QED  BY <2>4, FS_CardinalityType
<1>3. DueOf(W) = rest \cup part(m)
  BY Zenon DEF DueOf
<1>4. rest \cap part(m) = {}
  <2>1. \A u \in rest : u[1] # m
    OBVIOUS
  <2>2. \A u \in part(m) : u[1] = m
    OBVIOUS
  <2>. QED  BY <2>1, <2>2
<1>5. Cardinality({}) = 0
  BY FS_EmptySet
<1>6. IsFiniteSet(rest \cup part(m))
      /\ Cardinality(rest \cup part(m)) = Cardinality(rest) + W[m]
  <2>1. ASSUME NEW R, NEW P, IsFiniteSet(R), IsFiniteSet(P), R \cap P = {},
               NEW n \in Nat, Cardinality(P) = n
        PROVE  IsFiniteSet(R \cup P) /\ Cardinality(R \cup P) = Cardinality(R) + n
    <3>1. Cardinality(R) \in Nat
      BY <2>1, FS_CardinalityType
    <3>2. IsFiniteSet(R \cup P)
          /\ Cardinality(R \cup P) = Cardinality(R) + Cardinality(P) - Cardinality(R \cap P)
      BY <2>1, FS_Union
    <3>3. Cardinality(R \cap P) = 0
      BY <1>5, <2>1
    <3>. QED  BY <2>1, <3>1, <3>2, <3>3
  <2>. QED  BY <1>1, <1>2, <1>4, <2>1
<1>. QED  BY <1>2, <1>3, <1>6

LEMMA DueChanges ==
  ASSUME NEW V \in [Markers -> Nat], NEW W \in [Markers -> Nat], NEW m \in Markers,
         \A k \in Markers \ {m} : V[k] = W[k]
  PROVE  /\ Cardinality(DueOf(V)) \in Nat /\ Cardinality(DueOf(W)) \in Nat
         /\ Cardinality(DueOf(W)) + V[m] = Cardinality(DueOf(V)) + W[m]
         /\ V[m] <= Cardinality(DueOf(V))
<1>. DEFINE rest(X) == UNION {{k} \X (1..X[k]) : k \in Markers \ {m}}
<1>1. rest(V) = rest(W)
  OBVIOUS
<1>2. Cardinality(rest(V)) \in Nat /\ Cardinality(DueOf(V)) = Cardinality(rest(V)) + V[m]
  BY DueSplits
<1>3. Cardinality(DueOf(W)) = Cardinality(rest(W)) + W[m]
  BY DueSplits
<1>. QED  BY <1>1, <1>2, <1>3

(* The interval that an agent holds: between two requests every one that    *)
(* was started has settled, and so it is in an interval that is closed      *)
(* already; and what is reserved is the step of this interval, still to be  *)
(* refunded as long as no request was started in it.                        *)
HolderFits(a) ==
    Acc(a) # NoMarker =>
      LET m == Acc(a) IN
      /\ agent[a].at \in {"admitted", "answered"} => settled[m] = started[m]
      /\ agent[a].at = "answered" => started[m] > 0
      /\ agent[a].at = "waiting" => started[m] = settled[m] + 1
      /\ marker[m].state # "open" => settled[m] = started[m]
      /\ agent[a].reserved => marker[m].reserved = 1
      /\ agent[a].reserved /\ started[m] = 0 => marker[m].state = "open"

CountInv == TurnsInv /\ (\A a \in Agents : HolderFits(a)) /\ CountAddsUp

(* What an interval is worth, to speak of it before and after a step.       *)
WorthOf(row, st, se) ==
    CASE row.state = "unused" -> 0
      [] row.state = "open"   -> row.reserved
      [] OTHER -> IF st = 0 THEN 0 ELSE row.reserved + Less(se, row.reserved)

LEMMA WorthRead ==
  \A m \in Markers : /\ Worth(m) = WorthOf(marker[m], started[m], settled[m])
                     /\ Worth(m)' = WorthOf(marker'[m], started'[m], settled'[m])
  BY DEF Worth, WorthOf

LEMMA WorthType ==
  ASSUME NEW row \in MarkerRecords, NEW st \in Nat, NEW se \in Nat
  PROVE  WorthOf(row, st, se) \in Nat
<1>1. row.reserved \in {0, 1} /\ row.state \in {"unused", "open"} \cup Closings
  BY DEF MarkerRecords
<1>2. row.reserved \in Nat /\ Less(se, row.reserved) \in Nat
  <2>1. row.reserved \in Nat
    BY <1>1
  <2>. QED  BY <2>1, LessType
<1>3. row.reserved + Less(se, row.reserved) \in Nat
  BY <1>2
<1>. QED  BY <1>1, <1>2, <1>3 DEF WorthOf, Closings

(* The intervals but m stay as they are.                                    *)
OthersStay(m) ==
    \A k \in Markers : k # m =>
      marker'[k] = marker[k] /\ started'[k] = started[k] /\ settled'[k] = settled[k]

LEMMA CountChanges ==
  ASSUME TypeOK, TypeOK', CountAddsUp, NEW m \in Markers, OthersStay(m)
  PROVE  /\ Worth(m) \in Nat /\ Worth(m)' \in Nat /\ Worth(m) <= requests
         /\ requests' + Worth(m) = requests + Worth(m)' => CountAddsUp'
<1>. DEFINE V == [k \in Markers |-> WorthOf(marker[k], started[k], settled[k])]
            W == [k \in Markers |-> WorthOf(marker'[k], started'[k], settled'[k])]
<1>1. V \in [Markers -> Nat] /\ W \in [Markers -> Nat]
  <2>1. \A k \in Markers : /\ marker[k] \in MarkerRecords /\ marker'[k] \in MarkerRecords
                           /\ started[k] \in Nat /\ started'[k] \in Nat
                           /\ settled[k] \in Nat /\ settled'[k] \in Nat
    BY DEF TypeOK, LedgerTypeOK, MarkerRecords
  <2>. QED  BY <2>1, WorthType
<1>2. \A k \in Markers \ {m} : V[k] = W[k]
  BY DEF OthersStay
<1>3. Due = DueOf(V) /\ Due' = DueOf(W)
  BY WorthRead DEF Due, DueOf
<1>4. Worth(m) = V[m] /\ Worth(m)' = W[m]
  BY WorthRead
<1>5. requests = Cardinality(DueOf(V)) /\ requests \in Nat /\ requests' \in Nat
      /\ (CountAddsUp' <=> requests' = Cardinality(DueOf(W)))
  BY <1>3 DEF CountAddsUp, TypeOK, LedgerTypeOK
<1>. HIDE DEF V, W
<1>6. /\ Cardinality(DueOf(V)) \in Nat /\ Cardinality(DueOf(W)) \in Nat
      /\ Cardinality(DueOf(W)) + V[m] = Cardinality(DueOf(V)) + W[m]
      /\ V[m] <= Cardinality(DueOf(V))
  BY <1>1, <1>2, DueChanges
<1>7. V[m] \in Nat /\ W[m] \in Nat
  BY <1>1
<1>. QED  BY <1>4, <1>5, <1>6, <1>7

LEMMA CountStays ==
  ASSUME CountAddsUp, UNCHANGED requests,
         \A k \in Markers : WorthOf(marker'[k], started'[k], settled'[k])
                              = WorthOf(marker[k], started[k], settled[k])
  PROVE  CountAddsUp'
<1>1. Due' = Due
  BY WorthRead DEF Due
<1>. QED  BY <1>1 DEF CountAddsUp

(* A step of agent a, which touches at most the interval m, its own or new. *)
LEMMA HoldersStay ==
  ASSUME CountInv, NEW a \in Agents, OnlyMoves(a), NEW m \in Markers \cup {NoMarker},
         OthersStay(m), \A b \in Agents : b # a /\ m # NoMarker => Acc(b) # m,
         HolderFits(a)'
  PROVE  \A b \in Agents : HolderFits(b)'
<1>. SUFFICES ASSUME NEW b \in Agents, b # a PROVE HolderFits(b)'
  OBVIOUS
<1>1. agent'[b] = agent[b] /\ HolderFits(b)
  BY DEF OnlyMoves, CountInv
<1>2. Acc(b) # NoMarker => Acc(b) \in Markers /\ Acc(b) # m
  BY DEF CountInv, TurnsInv, IInv, TypeOK, Acc
<1>3. PICK n : n = agent[b].acc
  OBVIOUS
<1>4. n # NoMarker => marker'[n] = marker[n] /\ started'[n] = started[n] /\ settled'[n] = settled[n]
  BY <1>2, <1>3 DEF OthersStay, Acc
<1>. QED  BY <1>1, <1>3, <1>4 DEF HolderFits, Acc

LEMMA CountedStep ==
  ASSUME CountInv, TurnsInv', NEW a \in Agents, OnlyMoves(a), NEW m \in Markers,
         OthersStay(m), \A b \in Agents : b # a => Acc(b) # m, HolderFits(a)',
         requests' + Worth(m) = requests + Worth(m)'
  PROVE  CountInv'
<1>1. CountAddsUp'
  BY CountChanges DEF CountInv, TurnsInv, IInv
<1>2. \A b \in Agents : HolderFits(b)'
  BY HoldersStay
<1>. QED  BY <1>1, <1>2 DEF CountInv

LEMMA UncountedStep ==
  ASSUME CountInv, TurnsInv', NEW a \in Agents, OnlyMoves(a),
         UNCHANGED <<requests, marker, streamVars>>, HolderFits(a)'
  PROVE  CountInv'
<1>1. CountAddsUp'
  BY CountStays DEF CountInv, streamVars
<1>2. NoMarker \in Markers \cup {NoMarker} /\ OthersStay(NoMarker)
  BY DEF OthersStay, streamVars
<1>3. \A b \in Agents : HolderFits(b)'
  BY <1>2, HoldersStay
<1>. QED  BY <1>1, <1>3 DEF CountInv

-----------------------------------------------------------------------------
(* What the transactions on an interval do to the count                     *)

Adds(m) == requests' + Worth(m) = requests + Worth(m)' /\ OthersStay(m)

LEMMA RowFacts ==
  ASSUME TypeOK, NEW m \in Markers
  PROVE  /\ marker[m].reserved \in {0, 1} /\ marker[m].reserved \in Nat
         /\ started[m] \in Nat /\ settled[m] \in Nat /\ requests \in Nat
         /\ marker[m].state \in {"unused", "open"} \cup Closings
  BY DEF TypeOK, LedgerTypeOK

LEMMA NothingAdds ==
  ASSUME CountInv, NEW m \in Markers, UNCHANGED <<requests, marker, streamVars>>
  PROVE  Adds(m)
<1>1. Worth(m)' = Worth(m)
  BY WorthRead DEF streamVars
<1>. QED  BY <1>1 DEF Adds, OthersStay, streamVars

(* A refund or a resolution as empty gives back what was reserved.          *)
LEMMA EmptyAdds ==
  ASSUME CountInv, TypeOK', NEW m \in Markers, marker[m].state = "open", started[m] = 0,
         requests' = Less(requests, marker[m].reserved), Close(m, "empty"),
         UNCHANGED streamVars
  PROVE  Adds(m)
<1>1. /\ marker'[m].state = "empty" /\ marker'[m].reserved = marker[m].reserved
      /\ OthersStay(m)
  BY ClosedMarker DEF CountInv, TurnsInv, IInv, TypeOK, Closings, OthersStay, streamVars
<1>2. Worth(m) = marker[m].reserved
  BY WorthRead DEF WorthOf
<1>3. Worth(m)' = 0
  BY <1>1, WorthRead DEF WorthOf, streamVars
<1>4. Worth(m) <= requests
  BY <1>1, CountChanges DEF CountInv, TurnsInv, IInv
<1>5. requests \in Nat /\ marker[m].reserved \in Nat
  BY RowFacts DEF CountInv, TurnsInv, IInv
<1>. QED  BY <1>1, <1>2, <1>3, <1>4, <1>5 DEF Adds, Less

(* A record counts what has settled beyond the reservation.                 *)
LEMMA RecordAdds ==
  ASSUME CountInv, TypeOK', NEW m \in Markers, started[m] > 0,
         RecordRequests(m, settled[m]), UNCHANGED streamVars
  PROVE  Adds(m)
<1>1. CASE UNCHANGED <<requests, marker>>
  BY <1>1, NothingAdds
<1>2. CASE /\ marker[m].state = "open" /\ Close(m, "recorded")
           /\ requests' = requests + Less(settled[m], marker[m].reserved)
  <2>1. /\ marker'[m].state = "recorded" /\ marker'[m].reserved = marker[m].reserved
        /\ OthersStay(m)
    BY <1>2, ClosedMarker DEF CountInv, TurnsInv, IInv, TypeOK, Closings, OthersStay, streamVars
  <2>2. Worth(m) = marker[m].reserved
    BY <1>2, WorthRead DEF WorthOf
  <2>3. Worth(m)' = marker[m].reserved + Less(settled[m], marker[m].reserved)
    BY <2>1, WorthRead DEF WorthOf, streamVars
  <2>4. requests \in Nat /\ marker[m].reserved \in Nat
        /\ Less(settled[m], marker[m].reserved) \in Nat
    BY RowFacts, LessType DEF CountInv, TurnsInv, IInv
  <2>. QED  BY <1>2, <2>1, <2>2, <2>3, <2>4 DEF Adds
<1>. QED  BY <1>1, <1>2 DEF RecordRequests

(* A resolution as unsettled leaves the reservation in the count.           *)
LEMMA UnsettledAdds ==
  ASSUME CountInv, TypeOK', NEW m \in Markers, started[m] > 0, settled[m] = 0,
         ResolveUnsettled(m), UNCHANGED streamVars
  PROVE  Adds(m)
<1>1. CASE UNCHANGED marker
  BY <1>1, NothingAdds DEF ResolveUnsettled
<1>2. CASE marker[m].state = "open" /\ Close(m, "unsettled")
  <2>1. /\ marker'[m].state = "unsettled" /\ marker'[m].reserved = marker[m].reserved
        /\ OthersStay(m)
    BY <1>2, ClosedMarker DEF CountInv, TurnsInv, IInv, TypeOK, Closings, OthersStay, streamVars
  <2>2. Worth(m) = marker[m].reserved
    BY <1>2, WorthRead DEF WorthOf
  <2>3. Worth(m)' = marker[m].reserved + Less(0, marker[m].reserved)
    BY <2>1, WorthRead DEF WorthOf, streamVars
  <2>4. requests \in Nat /\ marker[m].reserved \in {0, 1}
    BY RowFacts DEF CountInv, TurnsInv, IInv
  <2>5. Less(0, marker[m].reserved) = 0
    BY <2>4 DEF Less
  <2>6. requests' = requests
    BY DEF ResolveUnsettled
  <2>. QED  BY <2>1, <2>2, <2>3, <2>4, <2>5, <2>6 DEF Adds
<1>. QED  BY <1>1, <1>2 DEF ResolveUnsettled, Pending

-----------------------------------------------------------------------------
(* The actions                                                              *)

LEMMA WalkCounts ==
  ASSUME CountInv, TurnsInv', NEW a \in Agents,
         Pause(a) \/ Accept(a) \/ Raise(a)
  PROVE  CountInv'
<1>1. /\ OnlyMoves(a) /\ Acc(a)' = Acc(a)
      /\ agent'[a].reserved => agent[a].reserved
      /\ agent'[a].at \in {"pausing", "top", "over", "raised"}
      /\ UNCHANGED <<requests, marker, streamVars>>
  BY DEF CountInv, TurnsInv, IInv, TypeOK, Pause, CloseoutCapacity, Accept, Raise, Go, At, OnlyMoves,
         AgentStates, Places, Acc, ledgerVars
<1>2. HolderFits(a)'
  BY <1>1 DEF CountInv, HolderFits, streamVars
<1>. QED  BY <1>1, <1>2, UncountedStep

LEMMA OwnStep ==
  ASSUME CountInv, NEW a \in Agents, NEW m \in Markers, m = Acc(a)
  PROVE  /\ \A b \in Agents : b # a => Acc(b) # m
         /\ HolderFits(a) /\ HolderOK(a) /\ MarkerOK(m)
         /\ m # NoMarker /\ TypeOK
  BY OwnMarker, MarkersAreNumbers DEF CountInv, TurnsInv, IInv

LEMMA RequestCounts ==
  ASSUME CountInv, TurnsInv', NEW a \in Agents, StartRequest(a) \/ EndRequest(a)
  PROVE  CountInv'
<1>1. PICK m \in Markers : m = Acc(a)
  BY OwnMarker DEF CountInv, TurnsInv, HolderOK, StartRequest, EndRequest, At, AtWork
<1>2. marker[m].state = "open" /\ agent[a].at \in AtWork
  BY <1>1, OwnStep DEF HolderOK, StartRequest, EndRequest, At, AtWork
<1>3. /\ OnlyMoves(a) /\ Acc(a)' = m /\ agent'[a].reserved = agent[a].reserved
      /\ UNCHANGED <<requests, marker>> /\ OthersStay(m)
  BY <1>1 DEF CountInv, TurnsInv, IInv, TypeOK, StartRequest, EndRequest, Go, OnlyMoves, AgentStates,
              Places, Acc, ledgerVars, OthersStay
<1>4. Worth(m)' = Worth(m)
  BY <1>2, <1>3, WorthRead DEF WorthOf
<1>5. HolderFits(a)'
  <2>1. /\ started[m] \in Nat /\ settled[m] \in Nat /\ HolderFits(a)
        /\ started' \in [Markers -> Nat] /\ settled' \in [Markers -> Nat]
    BY <1>1, OwnStep DEF TypeOK, TurnsInv, IInv
  <2>2. CASE StartRequest(a)
    <3>1. /\ started'[m] = started[m] + 1 /\ settled'[m] = settled[m]
          /\ agent'[a].at = "waiting" /\ agent[a].at = "admitted"
      BY <1>1, <2>2 DEF CountInv, TurnsInv, IInv, TypeOK, StartRequest, At, Go, Acc
    <3>. QED  BY <1>1, <1>2, <1>3, <2>1, <3>1, MarkersAreNumbers DEF HolderFits, Acc
  <2>3. CASE EndRequest(a)
    <3>1. /\ settled'[m] = settled[m] + 1 /\ started'[m] = started[m]
          /\ agent'[a].at \in {"answered", "admitted"} /\ agent[a].at = "waiting"
      BY <1>1, <2>3 DEF CountInv, TurnsInv, IInv, TypeOK, EndRequest, At, Go, Acc
    <3>. QED  BY <1>1, <1>2, <1>3, <2>1, <3>1, MarkersAreNumbers DEF HolderFits, Acc
  <2>. QED  BY <2>2, <2>3
<1>. QED  BY <1>1, <1>3, <1>4, <1>5, OwnStep, CountedStep

(* A new interval is worth what it reserves.                                *)
LEMMA OpenAdds ==
  ASSUME CountInv, NEW a \in Agents, NEW k \in {0, 1}, Open(a, k), requests' = requests + k,
         UNCHANGED streamVars
  PROVE  \E m \in Markers :
           /\ m = NextMarker /\ NewMarker(a, m) /\ marker'[m].reserved = k /\ Adds(m)
<1>1. PICK m \in Markers : m = NextMarker /\ NewMarker(a, m)
  BY OpensNew DEF CountInv, TurnsInv
<1>2. marker'[m].reserved = k /\ marker'[m].state = "open"
  <2>1. LedgerTypeOK
    BY DEF CountInv, TurnsInv, IInv, TypeOK
  <2>2. marker'[m] = [state |-> "open", agent |-> a, reserved |-> k, owner |-> life]
    BY <1>1, <2>1, OpenedMarker
  <2>. QED  BY <2>2
<1>3. Worth(m) = 0 /\ Worth(m)' = k
  BY <1>1, <1>2, WorthRead DEF WorthOf, NewMarker
<1>4. OthersStay(m)
  BY <1>1 DEF NewMarker, OthersStay, streamVars
<1>5. requests \in Nat /\ k \in Nat
  BY DEF CountInv, TurnsInv, IInv, TypeOK, LedgerTypeOK
<1>. QED  BY <1>1, <1>2, <1>3, <1>4, <1>5 DEF Adds

LEMMA OpeningCounts ==
  ASSUME CountInv, TurnsInv', NEW a \in Agents, OnlyMoves(a), UNCHANGED streamVars,
         NEW k \in {0, 1}, Open(a, k), requests' = requests + k,
         Acc(a)' \in {NextMarker, NoMarker}, agent'[a].at \in {"admitted", "raised"},
         Acc(a)' = NextMarker /\ agent'[a].reserved => k = 1
  PROVE  CountInv'
<1>1. PICK m \in Markers :
        /\ m = NextMarker /\ NewMarker(a, m) /\ marker'[m].reserved = k /\ Adds(m)
  BY OpenAdds
<1>2. HolderFits(a)'
  <2>1. Acc(a)' \in {m, NoMarker}
    BY <1>1
  <2>. QED  BY <1>1, <2>1 DEF HolderFits, NewMarker, streamVars, Acc
<1>. QED  BY <1>1, <1>2, CountedStep DEF Adds, NewMarker

LEMMA AdmitCounts ==
  ASSUME CountInv, TurnsInv', NEW a \in Agents, Admit(a)
  PROVE  CountInv'
<1>1. /\ OnlyMoves(a) /\ UNCHANGED streamVars /\ agent[a].at = "top" /\ Acc(a) = NoMarker
      /\ agent'[a].at \in {"admitted", "raised"}
  BY DEF CountInv, TurnsInv, IInv, TypeOK, HolderOK, EmptyHanded, Admit, At, Go, OnlyMoves, AgentStates,
         Places
<1>2. CASE AdmitSessionStep(a)
  <2>1. Acc(a)' \in {NextMarker, NoMarker}
    BY <1>1, <1>2 DEF Admit, Go, Acc, CountInv, TurnsInv, IInv, TypeOK
  <2>. QED  BY <1>1, <1>2, <2>1, OpeningCounts DEF AdmitSessionStep
<1>3. CASE Go(a, "raised") /\ UNCHANGED <<turns, requests, marker>>
  <2>1. Acc(a)' = NoMarker
    BY <1>1, <1>3 DEF Go, Acc, CountInv, TurnsInv, IInv, TypeOK
  <2>. QED  BY <1>1, <1>3, <2>1, UncountedStep DEF HolderFits
<1>. QED  BY <1>2, <1>3 DEF Admit

LEMMA CloseoutCounts ==
  ASSUME CountInv, TurnsInv', NEW a \in Agents, Closeout(a)
  PROVE  CountInv'
<1>1. /\ OnlyMoves(a) /\ UNCHANGED streamVars /\ Acc(a) = NoMarker
      /\ agent'[a].at \in {"admitted", "raised", "over"} /\ ~agent'[a].reserved
  BY DEF CountInv, TurnsInv, Unreserved, IInv, TypeOK, HolderOK, EmptyHanded, Closeout, At, Go,
         OnlyMoves, AgentStates, Places
<1>2. CASE BeginAccounting(a) /\ agent'[a].at # "over"
  <2>1. Acc(a)' \in {NextMarker, NoMarker}
    BY <1>1, <1>2 DEF Closeout, Go, Acc, CountInv, TurnsInv, IInv, TypeOK
  <2>2. requests' = requests + 0
    BY <1>2 DEF BeginAccounting, CountInv, TurnsInv, IInv, TypeOK, LedgerTypeOK
  <2>. QED  BY <1>1, <1>2, <2>1, <2>2, OpeningCounts DEF BeginAccounting
<1>3. CASE (Go(a, "raised") \/ Go(a, "over")) /\ UNCHANGED <<turns, requests, marker>>
  <2>1. Acc(a)' = NoMarker
    BY <1>1, <1>3 DEF Go, Acc, CountInv, TurnsInv, IInv, TypeOK
  <2>. QED  BY <1>1, <1>3, <2>1, UncountedStep DEF HolderFits
<1>4. (agent' = [agent EXCEPT ![a].at = "admitted", ![a].acc = NextMarker] \/ Go(a, "raised"))
        => agent'[a].at # "over"
  BY DEF Go, CountInv, TurnsInv, IInv, TypeOK
<1>. QED  BY <1>2, <1>3, <1>4 DEF Closeout

LEMMA RefundCounts ==
  ASSUME CountInv, TurnsInv', NEW a \in Agents, OnlyMoves(a), NEW m \in Markers, m = Acc(a),
         agent[a].reserved, started[m] = 0, UNCHANGED streamVars,
         RefundStep(m) \/ UNCHANGED <<turns, requests, marker>>,
         Acc(a)' \in {m, NoMarker}, ~agent'[a].reserved,
         agent'[a].at \in {"over", "raised", "refunded"}
  PROVE  CountInv'
<1>1. /\ marker[m].state = "open" /\ marker[m].reserved = 1 /\ settled[m] = 0
  <2>1. settled[m] <= started[m] /\ settled[m] \in Nat
    BY OwnStep, RowFacts DEF MarkerOK
  <2>. QED  BY <2>1, OwnStep DEF HolderFits
<1>2. CASE RefundStep(m)
  <2>1. Adds(m)
    BY <1>1, <1>2, EmptyAdds DEF RefundStep, TurnsInv, IInv
  <2>2. HolderFits(a)'
    BY <1>1, <1>2 DEF HolderFits, streamVars, Acc
  <2>. QED  BY <2>1, <2>2, OwnStep, CountedStep DEF Adds
<1>3. CASE UNCHANGED <<turns, requests, marker>>
  <2>1. HolderFits(a)'
    BY <1>1, <1>3 DEF HolderFits, streamVars, Acc
  <2>. QED  BY <1>3, <2>1, UncountedStep
<1>. QED  BY <1>2, <1>3

LEMMA ExceedContextCounts ==
  ASSUME CountInv, TurnsInv', NEW a \in Agents, ExceedContext(a)
  PROVE  CountInv'
<1>1. PICK m \in Markers : m = Acc(a)
  BY OwnMarker DEF CountInv, TurnsInv, HolderOK, ExceedContext, At, AtWork
<1>2. /\ OnlyMoves(a) /\ agent[a].reserved /\ started[m] = 0 /\ UNCHANGED streamVars
      /\ RefundStep(m) \/ UNCHANGED <<turns, requests, marker>>
      /\ Acc(a)' \in {m, NoMarker} /\ ~agent'[a].reserved /\ agent'[a].at \in {"over", "raised"}
  BY <1>1 DEF CountInv, TurnsInv, IInv, TypeOK, ExceedContext, OnlyMoves, AgentStates, Places, Returns,
         Raises, Acc
<1>. QED  BY <1>1, <1>2, RefundCounts

LEMMA ArmRefundCounts ==
  ASSUME CountInv, TurnsInv', NEW a \in Agents, ArmRefund(a)
  PROVE  CountInv'
<1>1. /\ OnlyMoves(a) /\ UNCHANGED streamVars /\ Acc(a)' \in {Acc(a), NoMarker}
      /\ ~agent'[a].reserved /\ agent'[a].at = "refunded"
  BY DEF CountInv, TurnsInv, IInv, TypeOK, ArmRefund, Go, OnlyMoves, AgentStates, Places, Returns,
         Raises, Acc
<1>2. CASE agent[a].reserved /\ Acc(a) # NoMarker /\ Attempts(Acc(a)) = 0
  <2>1. PICK m \in Markers : m = Acc(a)
    BY <1>2, OwnMarker DEF CountInv, TurnsInv
  <2>2. started[m] = 0
    BY <1>2, <2>1 DEF Attempts
  <2>3. RefundStep(m) \/ UNCHANGED <<turns, requests, marker>>
    BY <1>2, <2>1 DEF ArmRefund, Returns, Raises
  <2>. QED  BY <1>1, <1>2, <2>1, <2>2, <2>3, RefundCounts
<1>3. CASE ~(agent[a].reserved /\ Acc(a) # NoMarker /\ Attempts(Acc(a)) = 0)
  <2>1. UNCHANGED <<requests, marker>>
    BY <1>3 DEF ArmRefund, RefundTurn
  <2>2. HolderFits(a)'
    BY <1>1, <2>1 DEF CountInv, HolderFits, streamVars, Acc
  <2>. QED  BY <1>1, <2>1, <2>2, UncountedStep
<1>. QED  BY <1>2, <1>3

LEMMA RecordCounts ==
  ASSUME CountInv, TurnsInv', NEW a \in Agents, Record(a)
  PROVE  CountInv'
<1>1. PICK m \in Markers : m = Acc(a)
  BY OwnMarker DEF CountInv, TurnsInv, HolderOK, Record, At, AtWork
<1>2. started[m] > 0 /\ settled[m] = started[m]
  BY <1>1, OwnStep DEF HolderFits, Record, At
<1>3. /\ OnlyMoves(a) /\ UNCHANGED streamVars
      /\ agent'[a].reserved = agent[a].reserved /\ agent'[a].at \in {"recorded", "raised"}
      /\ Acc(a)' \in {m, NoMarker}
  BY <1>1 DEF CountInv, TurnsInv, IInv, TypeOK, Record, Go, OnlyMoves, AgentStates, Places, Acc,
         Returns, Raises
<1>4. CASE RecordRequests(m, settled[m])
  <2>1. Adds(m)
    BY <1>2, <1>3, <1>4, RecordAdds DEF TurnsInv, IInv
  <2>2. marker'[m].reserved = marker[m].reserved
    <3>1. LedgerTypeOK /\ "recorded" \in Closings
      BY DEF CountInv, TurnsInv, IInv, TypeOK, Closings
    <3>2. Close(m, "recorded") => marker'[m].reserved = marker[m].reserved
      BY <3>1, ClosedMarker
    <3>. QED  BY <1>4, <3>2 DEF RecordRequests
  <2>3. HolderFits(a)'
    BY <1>1, <1>2, <1>3, <2>2, OwnStep DEF HolderFits, streamVars, Acc
  <2>. QED  BY <1>1, <1>3, <2>1, <2>3, OwnStep, CountedStep DEF Adds
<1>5. CASE UNCHANGED <<turns, requests, marker>>
  <2>1. HolderFits(a)'
    BY <1>1, <1>2, <1>3, <1>5, OwnStep DEF HolderFits, streamVars, Acc
  <2>. QED  BY <1>3, <1>5, <2>1, UncountedStep
<1>. QED  BY <1>1, <1>4, <1>5 DEF Record, Returns, Raises

LEMMA ArmDrainCounts ==
  ASSUME CountInv, TurnsInv', NEW a \in Agents, ArmDrain(a)
  PROVE  CountInv'
<1>1. /\ OnlyMoves(a) /\ UNCHANGED <<requests, marker, started>> /\ Acc(a)' = Acc(a)
      /\ agent'[a].reserved = agent[a].reserved /\ agent'[a].at = "drained"
  BY DEF CountInv, TurnsInv, IInv, TypeOK, ArmDrain, Go, OnlyMoves, AgentStates, Places, Acc, ledgerVars
<1>2. CASE UNCHANGED settled
  <2>1. HolderFits(a)'
    BY <1>1, <1>2 DEF CountInv, HolderFits
  <2>. QED  BY <1>1, <1>2, <2>1, UncountedStep DEF streamVars
<1>3. CASE Acc(a) # NoMarker /\ settled' = [settled EXCEPT ![Acc(a)] = started[Acc(a)]]
  <2>1. PICK m \in Markers : m = Acc(a)
    BY <1>3, OwnMarker DEF CountInv, TurnsInv
  <2>2. settled'[m] = started[m] /\ OthersStay(m)
    BY <1>1, <1>3, <2>1 DEF CountInv, TurnsInv, IInv, TypeOK, OthersStay
  <2>3. marker[m].state # "open" => settled[m] = started[m]
    BY <2>1, OwnStep DEF HolderFits
  <2>4. Worth(m)' = Worth(m)
    BY <1>1, <2>2, <2>3, WorthRead DEF WorthOf
  <2>5. HolderFits(a)'
    BY <1>1, <2>1, <2>2, OwnStep DEF HolderFits, Acc
  <2>. QED  BY <1>1, <2>1, <2>2, <2>4, <2>5, OwnStep, CountedStep
<1>. QED  BY <1>2, <1>3 DEF ArmDrain, Well

LEMMA ArmRecordCounts ==
  ASSUME CountInv, TurnsInv', NEW a \in Agents, ArmRecord(a)
  PROVE  CountInv'
<1>1. OnlyMoves(a) /\ UNCHANGED streamVars /\ Acc(a)' = NoMarker
  BY DEF CountInv, TurnsInv, IInv, TypeOK, ArmRecord, OnlyMoves, AgentStates, Places, Acc
<1>2. HolderFits(a)'
  BY <1>1 DEF HolderFits
<1>3. CASE Attempts(Acc(a)) > 0
  <2>1. PICK m \in Markers : m = Acc(a) /\ started[m] > 0
    BY <1>3, OwnMarker DEF CountInv, TurnsInv, Attempts
  <2>2. Adds(m)
    BY <1>1, <1>3, <2>1, NothingAdds, RecordAdds, UnsettledAdds
       DEF ArmRecord, Returns, Raises, TurnsInv, IInv
  <2>. QED  BY <1>1, <1>2, <2>1, <2>2, OwnStep, CountedStep DEF Adds
<1>4. CASE ~(Attempts(Acc(a)) > 0)
  <2>1. UNCHANGED <<requests, marker>>
    BY <1>4 DEF ArmRecord
  <2>. QED  BY <1>1, <1>2, <2>1, UncountedStep
<1>. QED  BY <1>3, <1>4

LEMMA ScanCounts ==
  ASSUME CountInv, TurnsInv', NEW a \in Agents, Scan(a)
  PROVE  CountInv'
<1>1. UNCHANGED <<streamVars, agent>>
  BY DEF Scan
<1>2. \A b \in Agents : HolderFits(b)'
  BY <1>1, NobodyHolds DEF Scan, HolderFits, Acc, CountInv, TurnsInv
<1>3. CASE UNCHANGED <<requests, marker>>
  BY <1>1, <1>2, <1>3, CountStays DEF CountInv, streamVars
<1>4. ASSUME NEW m \in Markers, m \in Orphans(a), Reconcile(m) PROVE CountInv'
  <2>1. started[m] \in Nat /\ settled[m] \in Nat /\ settled[m] <= started[m]
        /\ marker[m].state = "open"
    BY <1>4, RowFacts DEF CountInv, TurnsInv, IInv, MarkerOK, Orphans, Pending
  <2>2. Adds(m)
    BY <1>1, <1>4, <2>1, RecordAdds, UnsettledAdds, EmptyAdds
       DEF Reconcile, ResolveEmpty, TurnsInv, IInv
  <2>3. CountAddsUp'
    BY <2>2, CountChanges DEF Adds, CountInv, TurnsInv, IInv
  <2>. QED  BY <1>2, <2>3 DEF CountInv
<1>5. Orphans(a) \subseteq Markers
  BY DEF Orphans, Pending
<1>. QED  BY <1>3, <1>4, <1>5 DEF Scan, Returns

LEMMA CrashCounts ==
  ASSUME CountInv, TurnsInv', Crash
  PROVE  CountInv'
<1>1. CountAddsUp'
  BY CountStays DEF CountInv, Crash, streamVars
<1>2. \A b \in Agents : HolderFits(b)'
  BY DEF Crash, HolderFits, Acc, Fresh
<1>. QED  BY <1>1, <1>2 DEF CountInv

LEMMA CountInvInit ==
  ASSUME Init
  PROVE  CountInv
<1>1. \A a \in Agents : HolderFits(a)
  BY DEF Init, HolderFits, Acc, Fresh
<1>2. Due = {}
  <2>1. \A m \in Markers : Worth(m) = 0
    BY DEF Init, LedgerInit, Unused, Worth
  <2>2. 1..0 = {}
    OBVIOUS
  <2>3. \A m \in Markers : {m} \X (1..Worth(m)) = {}
    BY <2>1, <2>2
  <2>. QED  BY <2>3 DEF Due
<1>3. Cardinality({}) = 0
  BY FS_EmptySet
<1>4. CountAddsUp
  BY <1>2, <1>3 DEF Init, LedgerInit, CountAddsUp
<1>. QED  BY <1>1, <1>4, TurnsInvInit DEF CountInv

LEMMA CountInvNext ==
  ASSUME CountInv, [Next]_vars
  PROVE  CountInv'
<1>1. TurnsInv'
  BY TurnsInvNext DEF CountInv
<1>2. CASE \E a \in Agents : LoopStep(a)
  BY <1>1, <1>2, AdmitCounts, WalkCounts, ExceedContextCounts, RequestCounts, RecordCounts,
     CloseoutCounts
     DEF LoopStep
<1>3. CASE \E a \in Agents : ArmStep(a)
  BY <1>1, <1>3, WalkCounts, ArmRefundCounts, ArmDrainCounts, ArmRecordCounts DEF ArmStep
<1>4. CASE \E a \in Agents : Scan(a)
  BY <1>1, <1>4, ScanCounts
<1>5. CASE Crash
  BY <1>1, <1>5, CrashCounts
<1>6. CASE UNCHANGED vars
  <2>1. CountAddsUp'
    BY <1>6, CountStays DEF CountInv, vars, ledgerVars, streamVars
  <2>2. \A a \in Agents : HolderFits(a)'
    BY <1>6 DEF CountInv, vars, ledgerVars, streamVars, HolderFits, Acc
  <2>. QED  BY <1>1, <2>1, <2>2 DEF CountInv
<1>. QED  BY <1>2, <1>3, <1>4, <1>5, <1>6 DEF Next

(* The row has every request of the streams, and each of them once: the     *)
(* reservations of admit_session_step, the refunds, the records, which may  *)
(* be repeated, and what the scan closes after a death add up, whatever     *)
(* call of a store fails before or after its commit.                        *)
THEOREM EveryRequestOnce == Spec => []CountAddsUp
<1>1. Init => CountInv
  BY CountInvInit
<1>2. CountInv /\ [Next]_vars => CountInv'
  BY CountInvNext
<1>3. CountInv => CountAddsUp
  BY DEF CountInv
<1>. QED  BY <1>1, <1>2, <1>3, PTL DEF Spec
=============================================================================
