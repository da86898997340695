-------------------------- MODULE ApprovalGateProofs --------------------------
(***************************************************************************)
(* For every set of calls, runs and users: consent is durable before a     *)
(* call starts, an accepted answer stands, an open question is awaited,    *)
(* and the quota window counts the calls that hold a slot.                 *)
(***************************************************************************)
EXTENDS ApprovalGate, FiniteSetTheorems, TLAPS

Started == {"passed", "repeated"} \cup Admitted
Holding == {"asking", "passed", "broken"} \cup Admitted
SessionGranted == \E d \in Calls : Decided(d, {"session"})

(* What the process believes to be granted was said by a person.            *)
GrantIsSaid == granted \/ seesGrant => SessionGranted

(* A question that is asked is in the queue or has its last word saved.     *)
QueueAgrees ==
    \A c \in Calls :
        /\ pc[c] = "idle" => wake[c] = "none" /\ c \notin requested \cup pending \cup saved
        /\ c \in pending => pc[c] \in {"asking", "broken"}
        /\ c \in saved => /\ c \notin pending /\ resolved[c] # <<>>
                          /\ Last(resolved[c]) = answer[c]
        /\ Asked(c) => c \in pending \cup saved
        /\ Asked(c) /\ wake[c] = "result" => c \notin pending

(* What a user was told is settled: nothing can be added to the pairing.    *)
AnswersClosed ==
    \A u \in Users :
        /\ req[u].at \in {"reading", "accepted"} => req[u].call \in Calls
        /\ req[u].at = "accepted" => req[u].call \notin pending /\ pc[req[u].call] # "idle"

(* The queue that is found is the one of the run that is driven.            *)
RunsInOrder ==
    /\ live => run \in Runs /\ registry = run
    /\ \A r \in closing : r < run \/ (r = run /\ ~live)
    /\ \A c \in Calls :
          /\ pc[c] \in {"asking", "passed"} => live /\ RunOf[c] = run
          /\ pc[c] = "lost" => RunOf[c] < run \/ (RunOf[c] = run /\ ~live)
          /\ RunOf[c] > run => pc[c] = "idle"

(* A serial batch holds a slot for a call only if all before it succeeded.  *)
SerialOrder ==
    mode = "serial" =>
        \A c, d \in Batch : c < d /\ pc[d] \in Holding => pc[c] = "ran"

(* Once a call of the batch was stopped, none of it goes on.                *)
Cancelled(c) == pc[c] = "stopped" \/ (Asked(c) /\ wake[c] = "cancel")
StopsTogether ==
    live /\ (\E d \in Batch : Cancelled(d)) =>
        \A c \in Batch : pc[c] \in Ended \/ Cancelled(c)

IInv ==
    /\ TypeOK /\ GrantIsSaid /\ QueueAgrees /\ AnswersClosed /\ RunsInOrder
    /\ SerialOrder /\ StopsTogether
    /\ DurableConsent /\ AcknowledgedStands /\ OpenQuestionIsAwaited /\ SlotsExact
-----------------------------------------------------------------------------
(* Sequences of decisions                                                   *)

(* What is added to a pairing is its last word, and nothing is taken back.  *)
LEMMA SaidLast ==
    ASSUME NEW S, NEW s \in Seq(S), NEW d \in S
    PROVE  /\ Append(s, d) \in Seq(S) /\ Append(s, d) # <<>>
           /\ Last(Append(s, d)) = d /\ d \in ToSet(Append(s, d))
           /\ ToSet(s) \subseteq ToSet(Append(s, d))
<1>1. /\ Append(s, d) \in Seq(S) /\ Len(Append(s, d)) = Len(s) + 1 /\ Len(s) \in Nat
      /\ Append(s, d)[Len(s) + 1] = d
      /\ \A i \in 1 .. Len(s) : Append(s, d)[i] = s[i]
      /\ DOMAIN s = 1 .. Len(s) /\ DOMAIN Append(s, d) = 1 .. Len(s) + 1
  OBVIOUS
<1>2. Append(s, d) # <<>>
  BY <1>1
<1>3. d \in ToSet(Append(s, d))
  BY <1>1 DEF ToSet
<1>4. ToSet(s) \subseteq ToSet(Append(s, d))
  BY <1>1 DEF ToSet
<1> QED  BY <1>1, <1>2, <1>3, <1>4 DEF Last

LEMMA LastIsSaid ==
    ASSUME NEW S, NEW s \in Seq(S), s # <<>>
    PROVE  Last(s) \in S /\ Last(s) \in ToSet(s)
<1>1. Len(s) \in DOMAIN s /\ s[Len(s)] \in S
  OBVIOUS
<1> QED  BY <1>1 DEF Last, ToSet

(* What has been said of every question stays said.                         *)
Grows == \A c \in Calls : ToSet(resolved[c]) \subseteq ToSet(resolved'[c])

(* The pairing of a question: nothing else is touched, an unsaved one gets  *)
(* at most one more word, and a success leaves it saved.                    *)
LEMMA ResolvesFacts ==
    ASSUME TypeOK, NEW c \in Calls, NEW d \in Decisions, NEW how, Resolves(c, d, how)
    PROVE  /\ resolved' \in [Calls -> Seq(Decisions)] /\ saved' \subseteq Calls /\ Grows
           /\ \A e \in Calls \ {c} : resolved'[e] = resolved[e]
           /\ saved' \in {saved, saved \cup {c}}
           /\ c \in saved => how = "ok" /\ resolved' = resolved /\ saved' = saved
           /\ c \notin saved => \/ resolved'[c] = resolved[c]
                                \/ /\ resolved'[c] = Append(resolved[c], d)
                                   /\ resolved'[c] # <<>> /\ Last(resolved'[c]) = d
           /\ c \notin saved /\ how = "ok" =>
                /\ saved' = saved \cup {c}
                /\ resolved'[c] # <<>> /\ Last(resolved'[c]) = d /\ d \in ToSet(resolved'[c])
           /\ how # "ok" => saved' = saved
<1>1. resolved \in [Calls -> Seq(Decisions)] /\ resolved[c] \in Seq(Decisions) /\ saved \subseteq Calls
  BY DEF TypeOK
<1>2. /\ Append(resolved[c], d) \in Seq(Decisions) /\ Append(resolved[c], d) # <<>>
      /\ Last(Append(resolved[c], d)) = d /\ d \in ToSet(Append(resolved[c], d))
      /\ ToSet(resolved[c]) \subseteq ToSet(Append(resolved[c], d))
  BY <1>1, SaidLast
<1>3. CASE c \in saved
  BY <1>1, <1>3 DEF Resolves, Grows
<1>4. CASE c \notin saved
  <2>1. /\ resolved' = [resolved EXCEPT ![c] = IF OnDisk(how) THEN Append(@, d) ELSE @]
        /\ saved' = IF how = "ok" THEN saved \cup {c} ELSE saved
    BY <1>4 DEF Resolves
  <2>2. resolved'[c] = IF OnDisk(how) THEN Append(resolved[c], d) ELSE resolved[c]
    BY <1>1, <2>1
  <2>3. \A e \in Calls \ {c} : resolved'[e] = resolved[e]
    BY <1>1, <2>1
  <2>4. resolved' \in [Calls -> Seq(Decisions)]
    BY <1>1, <1>2, <2>1
  <2>5. Grows
    BY <1>2, <2>2, <2>3 DEF Grows
  <2>6. how = "ok" => OnDisk(how)
    BY DEF OnDisk
  <2> QED  BY <1>1, <1>2, <1>4, <2>1, <2>2, <2>3, <2>4, <2>5, <2>6
<1> QED  BY <1>3, <1>4

-----------------------------------------------------------------------------
(* Calls of one batch *)

(* c is at work: all before it in a serial batch succeeded.                 *)
AtWork(c) == live /\ c \in Batch /\ (Enters(c) \/ pc[c] \in {"asking", "passed"})

(* What a call that leaves the gates does to the others of a serial batch   *)
(* concerns none that holds a slot.                                         *)
LEMMA GoingOn ==
    ASSUME IInv, NEW c \in Calls, AtWork(c), NEW s \in (Before \cup Ended) \ {"idle"},
           Goes(c, s), UNCHANGED <<run, mode>>
    PROVE  /\ pc' \in [Calls -> Before \cup Ended] /\ pc'[c] = s
           /\ \A d \in Calls \ {c} :
                \/ pc'[d] = pc[d]
                \/ /\ pc'[d] \in {"stopped", "skipped"} /\ d \in Batch
                   /\ pc[d] \notin Holding /\ pc[d] # "lost"
                   /\ pc'[d] = "stopped" => s \in {"broken", "stopped"}
           /\ SerialOrder'
           /\ mode = "serial" => \A e \in Batch : e < c => pc[e] = "ran"
           /\ mode = "serial" /\ s \in {"broken", "stopped"} =>
                \A e \in Batch : e > c => pc'[e] = "stopped"
<1>1. pc \in [Calls -> Before \cup Ended] /\ mode \in {"parallel", "serial"} /\ Batch \subseteq Calls
  BY DEF IInv, TypeOK, Batch
<1>2. pc' = [d \in Calls |->
             IF d = c THEN s
             ELSE IF mode = "serial" /\ d \in Later(c) /\ s \in Ended \ {"ran"}
             THEN IF s \in {"broken", "stopped"} THEN "stopped" ELSE "skipped"
             ELSE pc[d]]
  BY DEF Goes
<1>3. pc' \in [Calls -> Before \cup Ended] /\ pc'[c] = s
  <2>1. {"stopped", "skipped"} \subseteq Ended
    BY DEF Ended
  <2> QED  BY <1>1, <1>2, <2>1
<1>4. \A e \in Batch : RunOf[e] = run /\ e \in Calls /\ e \in Nat /\ c \in Nat
  BY GateAssumption DEF Batch
<1>5. pc[c] \in Before /\ pc[c] # "ran"
  BY DEF AtWork, Enters, Before
<1>6. ASSUME mode = "serial", NEW e \in Batch, e < c PROVE pc[e] = "ran"
  <2>1. CASE Enters(c)
    BY <1>6, <2>1 DEF Enters, MyTurn
  <2>2. CASE pc[c] \in {"asking", "passed"}
    BY <1>6, <2>2 DEF IInv, SerialOrder, AtWork, Holding
  <2> QED  BY <2>1, <2>2 DEF AtWork
<1>7. ASSUME mode = "serial", NEW d \in Batch, d > c PROVE pc[d] \notin Holding
  BY <1>4, <1>5, <1>7 DEF IInv, SerialOrder, AtWork
<1>8. ASSUME NEW d \in Calls \ {c}
      PROVE  \/ pc'[d] = pc[d]
             \/ /\ pc'[d] \in {"stopped", "skipped"} /\ d \in Batch
                /\ pc[d] \notin Holding /\ pc[d] # "lost" /\ mode = "serial"
                /\ pc'[d] = "stopped" => s \in {"broken", "stopped"}
  <2>1. CASE mode = "serial" /\ d \in Later(c) /\ s \in Ended \ {"ran"}
    <3>1. d \in Batch /\ d > c
      BY <2>1 DEF Later
    <3>2. pc[d] # "lost"
      BY <1>4, <3>1, GateAssumption DEF IInv, RunsInOrder, AtWork, TypeOK
    <3>3. pc'[d] = IF s \in {"broken", "stopped"} THEN "stopped" ELSE "skipped"
      BY <1>2, <2>1
    <3> QED  BY <1>7, <2>1, <3>1, <3>2, <3>3
  <2>2. CASE ~(mode = "serial" /\ d \in Later(c) /\ s \in Ended \ {"ran"})
    BY <1>2, <2>2
  <2> QED  BY <2>1, <2>2
<1>9. SerialOrder'
  <2> SUFFICES ASSUME mode' = "serial", NEW e \in Batch', NEW d \in Batch', e < d,
                      pc'[d] \in Holding
               PROVE  pc'[e] = "ran"
    BY DEF SerialOrder
  <2>1. e \in Batch /\ d \in Batch /\ mode = "serial"
    BY DEF Batch
  <2>2. pc[e] = "ran"
    <3>1. CASE d = c
      BY <1>6, <2>1, <3>1
    <3>2. CASE d # c
      <4>1. pc[d] \in Holding
        BY <1>1, <1>8, <2>1, <3>2 DEF Holding, Admitted
      <4> QED  BY <2>1, <4>1 DEF IInv, SerialOrder
    <3> QED  BY <3>1, <3>2
  <2> QED  BY <1>1, <1>5, <1>8, <2>1, <2>2 DEF Holding, Admitted
<1>10. ASSUME mode = "serial", s \in {"broken", "stopped"}, NEW e \in Batch, e > c
       PROVE  pc'[e] = "stopped"
  <2>1. e \in Later(c) /\ e # c /\ s \in Ended \ {"ran"} /\ e \in Calls
    BY <1>4, <1>10 DEF Later, Ended
  <2> QED  BY <1>2, <1>10, <2>1
<1> QED  BY <1>3, <1>6, <1>8, <1>9, <1>10

(* The calls that hold a slot of the window.                                *)
Held == {c \in Batch : pc[c] \in Holding}

LEMMA HeldIsFinite == TypeOK => IsFiniteSet(Held) /\ Cardinality(Held) \in Nat
<1>1. Held \subseteq Calls
  BY DEF Held, Batch
<1> QED  BY <1>1, FS_Subset, FS_CardinalityType, GateAssumption

(* The window after a call that was not cancelled goes on: it has taken a   *)
(* slot, kept it, given it back, or never had one.                          *)
WindowFollows(c, s) ==
    /\ s \in Holding /\ pc[c] = "idle" => used' = used + 1
    /\ s \notin Holding /\ pc[c] # "idle" => Release
    /\ (s \in Holding <=> pc[c] # "idle") => used' = used

LEMMA WorkInOrder ==
    ASSUME IInv, NEW c \in Calls, AtWork(c), ~Cancelled(c),
           NEW s \in (Before \cup Ended) \ {"idle", "stopped", "lost"}, Goes(c, s),
           UNCHANGED <<run, mode, live, registry, closing>>,
           \A d \in Calls \ {c} : wake'[d] = wake[d],
           s = "asking" => wake'[c] # "cancel",
           WindowFollows(c, s)
    PROVE  RunsInOrder' /\ SerialOrder' /\ StopsTogether' /\ SlotsExact'
<1>1. /\ pc' \in [Calls -> Before \cup Ended] /\ pc'[c] = s
      /\ \A d \in Calls \ {c} :
           \/ pc'[d] = pc[d]
           \/ /\ pc'[d] \in {"stopped", "skipped"} /\ d \in Batch
              /\ pc[d] \notin Holding /\ pc[d] # "lost"
              /\ pc'[d] = "stopped" => s \in {"broken", "stopped"}
      /\ SerialOrder'
      /\ mode = "serial" => \A e \in Batch : e < c => pc[e] = "ran"
      /\ mode = "serial" /\ s \in {"broken", "stopped"} =>
           \A e \in Batch : e > c => pc'[e] = "stopped"
  BY GoingOn
<1>2. /\ Batch' = Batch /\ c \in Batch /\ live /\ c \in Nat /\ pc[c] \in Before
      /\ \A d \in Batch : d \in Calls /\ d \in Nat /\ RunOf[d] = run
  BY GateAssumption DEF Batch, AtWork, Enters, Before
<1>3. RunsInOrder'
  <2>1. (live' => run' \in Runs /\ registry' = run') /\ \A r \in closing' : r < run' \/ (r = run' /\ ~live')
    BY DEF IInv, RunsInOrder
  <2>2. ASSUME NEW d \in Calls
        PROVE  /\ pc'[d] \in {"asking", "passed"} => live' /\ RunOf[d] = run'
               /\ pc'[d] = "lost" => RunOf[d] < run' \/ (RunOf[d] = run' /\ ~live')
               /\ RunOf[d] > run' => pc'[d] = "idle"
    <3>1. CASE d = c
      BY <1>1, <1>2, <3>1, GateAssumption DEF IInv, TypeOK
    <3>2. CASE d # c /\ pc'[d] = pc[d]
      BY <3>2 DEF IInv, RunsInOrder
    <3>3. CASE d # c /\ pc'[d] # pc[d]
      BY <1>1, <1>2, <3>3, GateAssumption DEF IInv, TypeOK
    <3> QED  BY <3>1, <3>2, <3>3
  <2> QED  BY <2>1, <2>2 DEF RunsInOrder
<1>4. \A d \in Batch : ~Cancelled(d)
  <2>1. pc[c] \notin Ended
    BY <1>2 DEF Before, Ended, Admitted
  <2> QED  BY <1>2, <2>1 DEF IInv, StopsTogether
<1>5. ASSUME NEW d \in Batch, Cancelled(d)'
      PROVE  mode = "serial" /\ s = "broken"
  <2>1. pc'[d] = "stopped" \/ (pc'[d] = "asking" /\ wake'[d] = "cancel")
    BY <1>5 DEF Cancelled, Asked
  <2>2. d # c
    BY <1>1, <2>1
  <2>3. pc'[d] # pc[d]
    BY <1>2, <1>4, <2>1, <2>2 DEF Cancelled, Asked
  <2>4. s = "broken"
    BY <1>1, <1>2, <2>1, <2>2, <2>3
  <2>5. mode = "serial"
    BY <1>2, <2>2, <2>3 DEF Goes
  <2> QED  BY <2>4, <2>5
<1>6. ASSUME mode = "serial", s = "broken", NEW e \in Batch PROVE pc'[e] \in Ended
  <2>1. CASE e = c
    BY <1>1, <1>6, <2>1 DEF Ended
  <2>2. CASE e < c
    <3>1. pc'[e] \in {"ran", "stopped", "skipped"}
      BY <1>1, <1>2, <1>6, <2>2
    <3> QED  BY <3>1 DEF Ended, Admitted
  <2>3. CASE e > c
    BY <1>1, <1>6, <2>3 DEF Ended
  <2> QED  BY <1>2, <2>1, <2>2, <2>3
<1>7. StopsTogether'
  BY <1>2, <1>5, <1>6 DEF StopsTogether
<1>8. SlotsExact'
  <2>1. used = Cardinality(Held)
    BY <1>2, <1>4 DEF IInv, SlotsExact, Cancelled, Held, Holding
  <2>2. c \in Held <=> pc[c] # "idle"
    BY <1>2 DEF Held, Before, Holding, Admitted
  <2>3. Held' = IF s \in Holding THEN Held \cup {c} ELSE Held \ {c}
    <3>1. ASSUME NEW d \in Batch, d # c PROVE pc'[d] \in Holding <=> pc[d] \in Holding
      BY <1>1, <1>2, <3>1 DEF Holding, Admitted
    <3> QED  BY <1>1, <1>2, <3>1 DEF Held
  <2>4. IsFiniteSet(Held) /\ Cardinality(Held) \in Nat
    BY HeldIsFinite DEF IInv
  <2>5. used' = Cardinality(Held)'
    <3>1. CASE s \in Holding
      BY <2>1, <2>2, <2>3, <2>4, <3>1, FS_AddElement DEF WindowFollows
    <3>2. CASE s \notin Holding /\ c \notin Held
      BY <2>1, <2>2, <2>3, <3>2 DEF WindowFollows
    <3>3. CASE s \notin Holding /\ c \in Held
      <4>1. Cardinality(Held \ {c}) = Cardinality(Held) - 1 /\ Cardinality(Held \ {c}) \in Nat
        BY <2>4, <3>3, FS_RemoveElement, FS_CardinalityType
      <4>2. used > 0 /\ used' = used - 1
        BY <2>1, <2>2, <2>4, <3>3, <4>1 DEF WindowFollows, Release
      <4> QED  BY <2>1, <2>3, <3>3, <4>1, <4>2
    <3> QED  BY <3>1, <3>2, <3>3
  <2> QED  BY <2>5 DEF SlotsExact, Held, Holding
<1> QED  BY <1>1, <1>3, <1>7, <1>8

(* What has been decided stays decided.                                     *)
Consented(c) == Decided(c, Approvals) \/ (c \notin EachTime /\ SessionGranted)

LEMMA ConsentStands ==
    ASSUME Grows
    PROVE  /\ \A c \in Calls : \A D : Decided(c, D) => Decided(c, D)'
           /\ SessionGranted => SessionGranted'
           /\ \A c \in Calls : Consented(c) => Consented(c)'
<1>1. \A c \in Calls : \A D : Decided(c, D) => Decided(c, D)'
  BY DEF Grows, Decided
<1>2. SessionGranted => SessionGranted'
  BY <1>1 DEF SessionGranted
<1> QED  BY <1>1, <1>2 DEF Consented

(* Consent is asked of the calls that come to start.                        *)
LEMMA ConsentKept ==
    ASSUME IInv, Grows,
           \A c \in NeedsAsk : pc'[c] \in Started => pc[c] \in Started \/ Consented(c)'
    PROVE  DurableConsent'
<1> SUFFICES ASSUME NEW c \in NeedsAsk, pc'[c] \in Started
             PROVE  Consented(c)'
  BY DEF DurableConsent, Started, Consented, SessionGranted
<1>1. c \in Calls
  BY GateAssumption
<1>2. CASE pc[c] \in Started
  <2>1. Consented(c)
    BY <1>2 DEF IInv, DurableConsent, Started, Consented, SessionGranted
  <2> QED  BY <1>1, <2>1, ConsentStands
<1> QED  BY <1>2

(* A step of a call between its question and the end of its work.           *)
LEMMA GateStep ==
    ASSUME IInv, NEW c \in Calls, UNCHANGED faults,
           PlanBlocks(c) \/ QuotaRefuses(c) \/ PassesUnasked(c) \/ CreatesRow(c)
    PROVE  IInv'
<1>a. UNCHANGED <<stream, drive, wake, queue, registry, closing, req, torn>>
  BY DEF PlanBlocks, QuotaRefuses, PassesUnasked, CreatesRow
<1>b. pc[c] = "passed" => RunOf[c] = run
  BY DEF IInv, RunsInOrder
<1>c. used \in 0 .. Ceiling /\ Ceiling \in Nat
  BY GateAssumption DEF IInv, TypeOK
<1>1. PICK s \in {"blocked", "refused", "passed", "repeated"} \cup Admitted :
        /\ Goes(c, s) /\ WindowFollows(c, s) /\ AtWork(c) /\ pc[c] \in {"idle", "passed"}
        /\ pc[c] = "idle" /\ s \in Started => s = "passed" /\ (c \notin NeedsAsk \/ GrantHit(c))
        /\ used' \in 0 .. Ceiling
  <2>1. CASE PlanBlocks(c)
    BY <1>c, <2>1 DEF PlanBlocks, WindowFollows, AtWork, Enters, Holding, Started, Admitted
  <2>2. CASE QuotaRefuses(c)
    BY <1>c, <2>2 DEF QuotaRefuses, WindowFollows, AtWork, Enters, Holding, Started, Admitted
  <2>3. CASE PassesUnasked(c)
    BY <1>c, <2>3 DEF PassesUnasked, Takes, WindowFollows, AtWork, Enters, Holding
  <2>4. CASE CreatesRow(c) /\ c \in Repeated
    BY <1>b, <1>c, <2>4
    DEF CreatesRow, Release, WindowFollows, AtWork, Holding, Admitted, Batch
  <2>5. CASE CreatesRow(c) /\ c \notin Repeated
    BY <1>b, <1>c, <2>5 DEF CreatesRow, WindowFollows, AtWork, Holding, Admitted, Batch
  <2> QED  BY <2>1, <2>2, <2>3, <2>4, <2>5
<1>2. s \in (Before \cup Ended) \ {"idle", "stopped", "lost", "asking", "broken", "denied"}
  BY DEF Before, Ended, Admitted
<1>3. ~Cancelled(c)
  BY <1>1 DEF Cancelled, Asked
<1>4. RunsInOrder' /\ SerialOrder' /\ StopsTogether' /\ SlotsExact'
  BY <1>a, <1>1, <1>2, <1>3, WorkInOrder DEF drive
<1>5. /\ pc' \in [Calls -> Before \cup Ended] /\ pc'[c] = s
      /\ \A d \in Calls \ {c} :
           \/ pc'[d] = pc[d]
           \/ /\ pc'[d] \in {"stopped", "skipped"} /\ d \in Batch
              /\ pc[d] \notin Holding /\ pc[d] # "lost"
  BY <1>a, <1>1, <1>2, GoingOn DEF drive
<1>6. TypeOK'
  BY <1>a, <1>1, <1>5 DEF IInv, TypeOK, stream, drive, queue
<1>7. Grows /\ GrantIsSaid'
  BY <1>a DEF Grows, IInv, GrantIsSaid, SessionGranted, Decided, stream, drive
<1>8. QueueAgrees'
  BY <1>a, <1>1, <1>2, <1>5 DEF IInv, QueueAgrees, Asked, Holding, Admitted, stream, queue
<1>9. AnswersClosed'
  BY <1>a, <1>1, <1>2, <1>5 DEF IInv, AnswersClosed, queue
<1>10. DurableConsent'
  <2>1. ASSUME NEW d \in NeedsAsk, pc'[d] \in Started, pc[d] \notin Started PROVE Consented(d)'
    <3>1. d = c
      BY <1>5, <2>1, GateAssumption DEF Started, Admitted
    <3>2. GrantHit(c)
      BY <1>1, <1>5, <2>1, <3>1 DEF Started
    <3>3. Consented(c)
      BY <3>2 DEF IInv, GrantIsSaid, GrantHit, Consented
    <3> QED  BY <1>7, <3>1, <3>3, ConsentStands
  <2> QED  BY <1>7, <2>1, ConsentKept
<1>11. AcknowledgedStands'
  <2>1. ASSUME NEW u \in Users, req[u].at = "accepted"
        PROVE  pc'[req[u].call] \notin (IF req[u].decision = "deny"
                                          THEN {"passed", "repeated"} \cup Admitted
                                          ELSE {"denied"})
    <3>1. req[u].call \in Calls /\ pc[req[u].call] # "idle"
      BY <2>1 DEF IInv, AnswersClosed
    <3>2. pc[req[u].call] \notin (IF req[u].decision = "deny"
                                    THEN {"passed", "repeated"} \cup Admitted
                                    ELSE {"denied"})
      BY <2>1 DEF IInv, AcknowledgedStands
    <3>3. CASE req[u].call = c
      BY <1>1, <1>2, <1>5, <3>1, <3>2, <3>3
    <3>4. CASE req[u].call # c
      BY <1>5, <3>1, <3>2, <3>4 DEF Admitted
    <3> QED  BY <3>3, <3>4
  <2> QED  BY <1>a, <2>1 DEF IInv, AcknowledgedStands, stream
<1>12. OpenQuestionIsAwaited'
  BY <1>a, <1>1, <1>5 DEF IInv, OpenQuestionIsAwaited, QueueAgrees, TypeOK, Asked, Found, Holding,
                          stream, drive, queue
<1> QED  BY <1>4, <1>6, <1>7, <1>8, <1>9, <1>10, <1>11, <1>12 DEF IInv

(* A question is put: to the stream and to the queue, or the call is broken.*)
LEMMA AskStep ==
    ASSUME IInv, NEW c \in Calls, NEW how, Asks(c, how), faults' \in 0 .. MaxFaults
    PROVE  IInv'
<1>a. UNCHANGED <<resolved, granted, plan, drive, wake, answer, saved, registry, closing, req>>
  BY DEF Asks
<1>b. /\ pc[c] = "idle" /\ AtWork(c) /\ used < Ceiling /\ used' = used + 1 /\ c \in NeedsAsk
      /\ pending' = pending \cup {c}
      /\ requested' \in {requested, requested \cup {c}}
      /\ torn \subseteq torn' /\ torn' \subseteq torn \cup {c}
  BY DEF Asks, Takes, Enters, AtWork
<1>c. c \notin requested \cup pending \cup saved /\ wake[c] = "none"
  BY <1>b DEF IInv, QueueAgrees
<1>1. PICK s \in {"asking", "broken"} :
        Goes(c, s) /\ (s = "broken" => c \in torn' \/ requested' = requested)
  <2>1. CASE how = "ok"
    BY <2>1 DEF Asks
  <2>2. CASE how # "ok"
    BY <2>2 DEF Asks, OnDisk
  <2> QED  BY <2>1, <2>2
<1>2. s \in (Before \cup Ended) \ {"idle", "stopped", "lost"}
  BY DEF Before, Ended
<1>3. ~Cancelled(c) /\ WindowFollows(c, s)
  BY <1>b DEF Cancelled, Asked, WindowFollows, Holding
<1>4. RunsInOrder' /\ SerialOrder' /\ StopsTogether' /\ SlotsExact'
  BY <1>a, <1>b, <1>c, <1>1, <1>2, <1>3, WorkInOrder DEF drive
<1>5. /\ pc' \in [Calls -> Before \cup Ended] /\ pc'[c] = s
      /\ \A d \in Calls \ {c} :
           \/ pc'[d] = pc[d]
           \/ /\ pc'[d] \in {"stopped", "skipped"} /\ d \in Batch
              /\ pc[d] \notin Holding /\ pc[d] # "lost"
  BY <1>a, <1>b, <1>1, <1>2, GoingOn DEF drive
<1>6. TypeOK'
  <2>1. used' \in 0 .. Ceiling
    BY <1>b, GateAssumption DEF IInv, TypeOK
  <2> QED  BY <1>a, <1>b, <1>5, <2>1 DEF IInv, TypeOK, drive
<1>7. Grows /\ GrantIsSaid'
  BY <1>a DEF Grows, IInv, GrantIsSaid, SessionGranted, Decided, drive
<1>8. QueueAgrees'
  <2>1. ASSUME NEW d \in Calls \ {c}
        PROVE  /\ pc'[d] = "idle" => pc[d] = "idle"
               /\ d \in requested' \cup pending' \cup saved' <=> d \in requested \cup pending \cup saved
               /\ d \in pending' <=> d \in pending
               /\ d \in pending => pc'[d] = pc[d]
               /\ Asked(d)' => Asked(d)
    BY <1>a, <1>b, <1>5 DEF IInv, QueueAgrees, Holding, Asked
  <2> QED  BY <1>a, <1>b, <1>c, <1>1, <1>5, <2>1 DEF IInv, QueueAgrees, Asked
<1>9. AnswersClosed'
  BY <1>a, <1>b, <1>5 DEF IInv, AnswersClosed
<1>10. DurableConsent'
  <2>1. ASSUME NEW d \in NeedsAsk, pc'[d] \in Started PROVE pc[d] \in Started
    BY <1>1, <1>5, <2>1, GateAssumption DEF Started, Admitted
  <2> QED  BY <1>7, <2>1, ConsentKept
<1>11. AcknowledgedStands'
  <2>1. ASSUME NEW u \in Users, req[u].at = "accepted"
        PROVE  /\ req[u].call \in Calls \ {c}
               /\ pc'[req[u].call] \in {pc[req[u].call], "stopped", "skipped"}
    BY <1>b, <1>5, <2>1 DEF IInv, AnswersClosed
  <2> QED  BY <1>a, <2>1 DEF IInv, AcknowledgedStands, Admitted
<1>12. OpenQuestionIsAwaited'
  <2> SUFFICES ASSUME NEW d \in requested', resolved'[d] = <<>>
               PROVE  (live' /\ Asked(d)' /\ Found(d)') \/ d \in torn' \/ pc'[d] = "lost"
    BY DEF OpenQuestionIsAwaited
  <2>1. CASE d = c
    <3>1. s = "asking" \/ c \in torn'
      BY <1>b, <1>c, <1>1, <2>1
    <3>2. live /\ registry = RunOf[c]
      BY <1>b DEF IInv, RunsInOrder, AtWork, Batch
    <3> QED  BY <1>a, <1>b, <1>5, <2>1, <3>1, <3>2 DEF Asked, Found, drive
  <2>2. CASE d # c
    <3>1. d \in requested /\ d \in Calls /\ resolved[d] = <<>>
      BY <1>a, <1>b, <2>2 DEF IInv, TypeOK
    <3>2. (live /\ Asked(d) /\ Found(d)) \/ d \in torn \/ pc[d] = "lost"
      BY <3>1 DEF IInv, OpenQuestionIsAwaited
    <3>3. pc[d] \in {"asking", "lost"} => pc'[d] = pc[d]
      BY <1>5, <2>2, <3>1 DEF Holding
    <3> QED  BY <1>a, <1>b, <3>2, <3>3 DEF Asked, Found, drive
  <2> QED  BY <2>1, <2>2
<1> QED  BY <1>4, <1>6, <1>7, <1>8, <1>9, <1>10, <1>11, <1>12 DEF IInv

(* The end of a wait leaves the queue with the answer that holds: the one   *)
(* that was accepted before, or a denial of what nobody answered.           *)
LEMMA WakingUp ==
    ASSUME IInv, NEW c \in Calls, NEW why, Wakes(c, why),
           \/ why = "result" /\ UNCHANGED <<pending, answer>>
           \/ why \in {"timeout", "cancel"} /\ Expires(c)
    PROVE  /\ answer' \in [Calls -> Decisions \cup {"none"}] /\ answer'[c] \in Decisions
           /\ \A d \in Calls \ {c} : answer'[d] = answer[d]
           /\ pending' = pending \ {c}
           /\ c \in saved => answer' = answer /\ Last(resolved[c]) = answer'[c] /\ resolved[c] # <<>>
           /\ wake' \in [Calls -> {"none", "result", "timeout", "cancel"}]
           /\ wake'[c] = "none" /\ \A d \in Calls \ {c} : wake'[d] = wake[d]
           /\ AtWork(c) /\ pc[c] = "asking" /\ registry = RunOf[c]
<1>1. /\ pc[c] = "asking" /\ wake[c] = why /\ wake' = [wake EXCEPT ![c] = "none"]
      /\ wake \in [Calls -> {"none", "result", "timeout", "cancel"}]
      /\ answer \in [Calls -> Decisions \cup {"none"}] /\ "deny" \in Decisions
  BY DEF Wakes, Asked, IInv, TypeOK, Decisions
<1>2. wake' \in [Calls -> {"none", "result", "timeout", "cancel"}]
      /\ wake'[c] = "none" /\ \A d \in Calls \ {c} : wake'[d] = wake[d]
  BY <1>1
<1>3. live /\ RunOf[c] = run /\ c \in Batch /\ registry = run
  BY <1>1 DEF IInv, RunsInOrder, Batch
<1>4. /\ c \in pending \cup saved /\ (why = "result" => c \notin pending)
      /\ c \in saved => c \notin pending /\ resolved[c] # <<>> /\ Last(resolved[c]) = answer[c]
  BY <1>1 DEF IInv, QueueAgrees, Asked
<1>5. c \in saved => Last(resolved[c]) \in Decisions
  BY <1>4, LastIsSaid DEF IInv, TypeOK
<1>6. CASE why = "result"
  BY <1>1, <1>2, <1>3, <1>4, <1>5, <1>6 DEF AtWork
<1>7. CASE why # "result"
  <2>1. /\ pending' = pending \ {c}
        /\ answer' = [answer EXCEPT ![c] = IF c \in pending THEN "deny" ELSE @]
    BY <1>7 DEF Expires
  <2>2. CASE c \in pending
    <3>1. answer' = [answer EXCEPT ![c] = "deny"]
      BY <2>1, <2>2
    <3> QED  BY <1>1, <1>2, <1>3, <1>4, <2>1, <2>2, <3>1 DEF AtWork
  <2>3. CASE c \notin pending
    <3>1. answer' = answer
      BY <1>1, <2>1, <2>3
    <3> QED  BY <1>1, <1>2, <1>3, <1>4, <1>5, <2>1, <2>3, <3>1 DEF AtWork
  <2> QED  BY <2>2, <2>3
<1> QED  BY <1>6, <1>7

(* What the wait for an answer ends in, in the stream and in the queue.     *)
Ends(c, s) ==
    /\ Goes(c, s) /\ s \in {"passed", "denied", "broken", "stopped"}
    /\ resolved' \in [Calls -> Seq(Decisions)] /\ saved' \subseteq Calls /\ Grows
    /\ \A d \in Calls \ {c} : resolved'[d] = resolved[d] /\ (d \in saved' <=> d \in saved)
    /\ c \in saved' => resolved'[c] # <<>> /\ Last(resolved'[c]) = answer'[c]
    /\ c \in saved => resolved'[c] = resolved[c]
    /\ resolved'[c] = <<>> => c \in torn'
    /\ s = "passed" => answer'[c] \in Approvals \cap ToSet(resolved'[c])
    /\ s = "denied" => answer'[c] = "deny" /\ Release
    /\ s # "denied" => used' = used
    /\ granted' \in BOOLEAN /\ seesGrant' \in BOOLEAN
    /\ granted' \/ seesGrant' => granted \/ seesGrant \/ "session" \in ToSet(resolved'[c])
    /\ torn \subseteq torn' /\ torn' \subseteq torn \cup {c}

LEMMA Returning ==
    ASSUME IInv, NEW c \in Calls, NEW how, Returns(c, how), answer'[c] \in Decisions,
           c \in saved => Last(resolved[c]) = answer'[c] /\ resolved[c] # <<>>
    PROVE  \E s \in {"passed", "denied", "broken"} : Ends(c, s)
<1>1. CASE Resolves(c, answer'[c], "ok") /\ Leaves(c, answer'[c], how) /\ UNCHANGED torn
  <2>1. /\ resolved' \in [Calls -> Seq(Decisions)] /\ saved' \subseteq Calls /\ Grows
        /\ \A e \in Calls \ {c} : resolved'[e] = resolved[e]
        /\ saved' \in {saved, saved \cup {c}}
        /\ c \in saved => resolved' = resolved /\ saved' = saved
        /\ c \notin saved =>
             /\ saved' = saved \cup {c}
             /\ resolved'[c] # <<>> /\ Last(resolved'[c]) = answer'[c]
             /\ answer'[c] \in ToSet(resolved'[c])
    BY <1>1, ResolvesFacts DEF IInv
  <2>2. c \in saved => answer'[c] \in ToSet(resolved'[c])
    BY <2>1, LastIsSaid DEF IInv, TypeOK
  <2>3. granted \in BOOLEAN /\ seesGrant \in BOOLEAN
    BY DEF IInv, TypeOK
  <2>4. PICK s \in {"passed", "denied", "broken"} :
          /\ Goes(c, s)
          /\ s = "passed" => answer'[c] \in Approvals
          /\ s = "denied" => answer'[c] = "deny" /\ Release
          /\ s # "denied" => used' = used
          /\ granted' \in BOOLEAN /\ seesGrant' \in BOOLEAN
          /\ granted' \/ seesGrant' => granted \/ seesGrant \/ answer'[c] = "session"
    <3>1. CASE answer'[c] = "deny" /\ Goes(c, "denied") /\ Release /\ UNCHANGED <<granted, seesGrant>>
      BY <2>3, <3>1
    <3>2. CASE answer'[c] = "once" /\ Goes(c, "passed") /\ UNCHANGED <<used, granted, seesGrant>>
      BY <2>3, <3>2 DEF Approvals
    <3>3. CASE /\ answer'[c] = "session"
               /\ granted' = (granted \/ OnDisk(how)) /\ seesGrant' = (seesGrant \/ how = "ok")
               /\ Goes(c, IF how = "ok" THEN "passed" ELSE "broken")
               /\ UNCHANGED used
      <4>1. granted' \in BOOLEAN /\ seesGrant' \in BOOLEAN
        BY <3>3
      <4> QED  BY <3>3, <4>1 DEF Approvals
    <3> QED  BY <1>1, <3>1, <3>2, <3>3 DEF Leaves
  <2> QED  BY <1>1, <2>1, <2>2, <2>4 DEF Ends
<1>2. CASE /\ how # "ok" /\ Resolves(c, answer'[c], how)
           /\ Goes(c, "broken") /\ torn' = torn \cup {c}
           /\ UNCHANGED <<used, granted, seesGrant>>
  <2>1. /\ resolved' \in [Calls -> Seq(Decisions)] /\ saved' = saved /\ c \notin saved /\ Grows
        /\ \A e \in Calls \ {c} : resolved'[e] = resolved[e]
    BY <1>2, ResolvesFacts DEF IInv
  <2> QED  BY <1>2, <2>1 DEF Ends, IInv, TypeOK
<1> QED  BY <1>1, <1>2 DEF Returns

(* A cancelled call ends, and takes the calls behind it along.              *)
LEMMA StoppedInOrder ==
    ASSUME IInv, NEW c \in Calls, AtWork(c), pc[c] = "asking", Cancelled(c), Goes(c, "stopped"),
           UNCHANGED <<run, mode, live, registry, closing>>,
           \A d \in Calls \ {c} : wake'[d] = wake[d]
    PROVE  RunsInOrder' /\ SerialOrder' /\ StopsTogether' /\ SlotsExact'
<1>0. "stopped" \in (Before \cup Ended) \ {"idle"}
  BY DEF Before, Ended
<1>1. /\ pc' \in [Calls -> Before \cup Ended] /\ pc'[c] = "stopped"
      /\ \A d \in Calls \ {c} :
           \/ pc'[d] = pc[d]
           \/ /\ pc'[d] \in {"stopped", "skipped"} /\ d \in Batch
              /\ pc[d] \notin Holding /\ pc[d] # "lost"
      /\ SerialOrder'
  BY <1>0, GoingOn
<1>2. /\ Batch' = Batch /\ c \in Batch /\ live
      /\ \A d \in Batch : d \in Calls /\ RunOf[d] = run /\ run \in Nat
  BY GateAssumption DEF Batch, AtWork, IInv, TypeOK
<1>3. RunsInOrder'
  <2>1. (live' => run' \in Runs /\ registry' = run') /\ \A r \in closing' : r < run' \/ (r = run' /\ ~live')
    BY DEF IInv, RunsInOrder
  <2>2. ASSUME NEW d \in Calls
        PROVE  /\ pc'[d] \in {"asking", "passed"} => live' /\ RunOf[d] = run'
               /\ pc'[d] = "lost" => RunOf[d] < run' \/ (RunOf[d] = run' /\ ~live')
               /\ RunOf[d] > run' => pc'[d] = "idle"
    <3>1. CASE d \in Batch /\ pc'[d] \in {"stopped", "skipped"}
      BY <1>2, <3>1
    <3>2. CASE pc'[d] = pc[d]
      BY <3>2 DEF IInv, RunsInOrder
    <3> QED  BY <1>1, <1>2, <3>1, <3>2
  <2> QED  BY <2>1, <2>2 DEF RunsInOrder
<1>4. \A d \in Batch : pc[d] \in Ended \/ Cancelled(d)
  BY <1>2 DEF IInv, StopsTogether
<1>5. StopsTogether'
  <2>1. ASSUME NEW d \in Batch PROVE pc'[d] \in Ended \/ Cancelled(d)'
    <3>1. CASE pc'[d] \in {"stopped", "skipped"}
      BY <3>1 DEF Ended
    <3>2. CASE d # c /\ pc'[d] = pc[d]
      BY <1>2, <1>4, <3>2 DEF Cancelled, Asked
    <3> QED  BY <1>1, <1>2, <3>1, <3>2
  <2> QED  BY <1>2, <2>1 DEF StopsTogether
<1>6. SlotsExact'
  BY <1>1, <1>2 DEF SlotsExact
<1> QED  BY <1>1, <1>3, <1>5, <1>6

LEMMA WakeEnds ==
    ASSUME IInv, NEW c \in Calls, NEW how,
           WakesAnswered(c, how) \/ TimesOut(c, how) \/ IsCancelled(c, how)
    PROVE  /\ \E s \in {"passed", "denied", "broken", "stopped"} :
                Ends(c, s) /\ (s = "stopped" <=> wake[c] = "cancel")
           /\ answer' \in [Calls -> Decisions \cup {"none"}]
           /\ \A d \in Calls \ {c} : answer'[d] = answer[d]
           /\ c \in saved => answer' = answer
           /\ pending' = pending \ {c}
           /\ wake' \in [Calls -> {"none", "result", "timeout", "cancel"}]
           /\ wake'[c] = "none" /\ \A d \in Calls \ {c} : wake'[d] = wake[d]
           /\ AtWork(c) /\ pc[c] = "asking" /\ registry = RunOf[c]
           /\ UNCHANGED <<requested, plan, run, live, mode, seesPlan, registry, closing, req>>
<1>1. CASE WakesAnswered(c, how)
  <2>1. Wakes(c, "result") /\ UNCHANGED <<pending, answer>> /\ Returns(c, how)
    BY <1>1 DEF WakesAnswered
  <2>2. \E s \in {"passed", "denied", "broken"} : Ends(c, s)
    BY <2>1, WakingUp, Returning
  <2> QED  BY <2>1, <2>2, WakingUp DEF Wakes
<1>2. CASE TimesOut(c, how)
  <2>1. Wakes(c, "timeout") /\ Expires(c) /\ Returns(c, how)
    BY <1>2 DEF TimesOut
  <2>2. \E s \in {"passed", "denied", "broken"} : Ends(c, s)
    BY <2>1, WakingUp, Returning
  <2> QED  BY <2>1, <2>2, WakingUp DEF Wakes
<1>3. CASE IsCancelled(c, how)
  <2>1. /\ Wakes(c, "cancel") /\ Expires(c) /\ Resolves(c, answer'[c], how)
        /\ torn' = IF how = "ok" THEN torn ELSE torn \cup {c}
        /\ Goes(c, "stopped") /\ UNCHANGED <<used, granted, seesGrant>>
    BY <1>3 DEF IsCancelled
  <2>2. /\ answer'[c] \in Decisions
        /\ c \in saved => Last(resolved[c]) = answer'[c] /\ resolved[c] # <<>>
    BY <2>1, WakingUp
  <2>3. /\ resolved' \in [Calls -> Seq(Decisions)] /\ saved' \subseteq Calls /\ Grows
        /\ \A e \in Calls \ {c} : resolved'[e] = resolved[e]
        /\ saved' \in {saved, saved \cup {c}}
        /\ c \in saved => how = "ok" /\ resolved' = resolved /\ saved' = saved
        /\ c \notin saved /\ how = "ok" =>
             saved' = saved \cup {c} /\ resolved'[c] # <<>> /\ Last(resolved'[c]) = answer'[c]
        /\ how # "ok" => saved' = saved
    BY <2>1, <2>2, ResolvesFacts DEF IInv
  <2>4. Ends(c, "stopped")
    BY <2>1, <2>2, <2>3 DEF Ends, IInv, TypeOK
  <2> QED  BY <2>1, <2>4, WakingUp DEF Wakes
<1> QED  BY <1>1, <1>2, <1>3

(* The answer arrives, the time is over, or the run is cancelled.           *)
LEMMA WakeStep ==
    ASSUME IInv, NEW c \in Calls, NEW how, faults' \in 0 .. MaxFaults,
           WakesAnswered(c, how) \/ TimesOut(c, how) \/ IsCancelled(c, how)
    PROVE  IInv'
<1>a. /\ answer' \in [Calls -> Decisions \cup {"none"}]
      /\ \A d \in Calls \ {c} : answer'[d] = answer[d]
      /\ c \in saved => answer' = answer
      /\ pending' = pending \ {c}
      /\ wake' \in [Calls -> {"none", "result", "timeout", "cancel"}]
      /\ wake'[c] = "none" /\ \A d \in Calls \ {c} : wake'[d] = wake[d]
      /\ AtWork(c) /\ pc[c] = "asking" /\ registry = RunOf[c]
      /\ UNCHANGED <<requested, plan, run, live, mode, seesPlan, registry, closing, req>>
  BY WakeEnds
<1>1. PICK s \in {"passed", "denied", "broken", "stopped"} :
        Ends(c, s) /\ (s = "stopped" <=> wake[c] = "cancel")
  BY WakeEnds
<1>2. s \in (Before \cup Ended) \ {"idle", "lost", "asking"}
  BY DEF Before, Ended
<1>5. /\ pc' \in [Calls -> Before \cup Ended] /\ pc'[c] = s
      /\ \A d \in Calls \ {c} :
           \/ pc'[d] = pc[d]
           \/ /\ pc'[d] \in {"stopped", "skipped"} /\ d \in Batch
              /\ pc[d] \notin Holding /\ pc[d] # "lost"
  BY <1>a, <1>1, <1>2, GoingOn DEF Ends
<1>6. TypeOK'
  <2>1. used' \in 0 .. Ceiling
    BY <1>1, GateAssumption DEF Ends, Release, IInv, TypeOK
  <2>2. granted' \in BOOLEAN /\ seesGrant' \in BOOLEAN
    BY <1>1 DEF Ends
  <2>3. /\ resolved' \in [Calls -> Seq(Decisions)] /\ saved' \subseteq Calls
        /\ torn' \subseteq Calls /\ pending' \subseteq Calls
    BY <1>a, <1>1 DEF Ends, IInv, TypeOK
  <2> QED  BY <1>a, <1>5, <2>1, <2>2, <2>3 DEF IInv, TypeOK
<1>7. Grows /\ \A d \in Calls \ {c} : resolved'[d] = resolved[d] /\ (d \in saved' <=> d \in saved)
  BY <1>1 DEF Ends
<1>8. GrantIsSaid'
  <2>1. CASE granted \/ seesGrant
    BY <1>7, <2>1, ConsentStands DEF IInv, GrantIsSaid
  <2>2. CASE "session" \in ToSet(resolved'[c])
    BY <2>2 DEF GrantIsSaid, SessionGranted, Decided
  <2> QED  BY <1>1, <2>1, <2>2 DEF Ends, GrantIsSaid
<1>9. QueueAgrees'
  <2>1. ASSUME NEW d \in Calls \ {c}
        PROVE  /\ pc'[d] = "idle" => pc[d] = "idle"
               /\ d \in pending' <=> d \in pending
               /\ d \in pending => pc'[d] = pc[d]
               /\ Asked(d)' => Asked(d)
    BY <1>a, <1>5 DEF IInv, QueueAgrees, Holding, Asked
  <2>2. c \in saved' => resolved'[c] # <<>> /\ Last(resolved'[c]) = answer'[c]
    BY <1>1 DEF Ends
  <2> QED  BY <1>a, <1>2, <1>5, <1>7, <2>1, <2>2 DEF IInv, QueueAgrees, Asked
<1>10. AnswersClosed'
  BY <1>a, <1>2, <1>5 DEF IInv, AnswersClosed
<1>11. DurableConsent'
  <2>1. ASSUME NEW d \in NeedsAsk, pc'[d] \in Started, pc[d] \notin Started
        PROVE  Consented(d)'
    <3>1. d = c /\ s = "passed"
      BY <1>1, <1>5, <2>1, GateAssumption DEF Started, Admitted
    <3>2. answer'[c] \in Approvals \cap ToSet(resolved'[c])
      BY <1>1, <3>1 DEF Ends
    <3>3. Decided(c, Approvals)'
      BY <3>2 DEF Decided
    <3> QED  BY <3>1, <3>3 DEF Consented
  <2> QED  BY <1>7, <2>1, ConsentKept
<1>12. AcknowledgedStands'
  <2> SUFFICES ASSUME NEW u \in Users, req[u].at = "accepted"
               PROVE  /\ resolved'[req[u].call] # <<>>
                      /\ Last(resolved'[req[u].call]) = req[u].decision
                      /\ pc'[req[u].call] \notin (IF req[u].decision = "deny"
                                                    THEN {"passed", "repeated"} \cup Admitted
                                                    ELSE {"denied"})
    BY <1>a DEF IInv, AcknowledgedStands
  <2>1. /\ req[u].call \in Calls /\ req[u].call \notin pending /\ resolved[req[u].call] # <<>>
        /\ Last(resolved[req[u].call]) = req[u].decision
        /\ pc[req[u].call] \notin (IF req[u].decision = "deny"
                                     THEN {"passed", "repeated"} \cup Admitted
                                     ELSE {"denied"})
    BY DEF IInv, AcknowledgedStands, AnswersClosed
  <2>2. CASE req[u].call # c
    BY <1>5, <1>7, <2>1, <2>2 DEF Admitted
  <2>3. CASE req[u].call = c
    <3>1. c \in saved
      BY <1>a, <2>1, <2>3 DEF IInv, QueueAgrees, Asked
    <3>2. resolved'[c] = resolved[c] /\ answer'[c] = Last(resolved'[c])
      <4>1. resolved'[c] = resolved[c]
        BY <1>1, <3>1 DEF Ends
      <4>2. Last(resolved[c]) = answer[c] /\ c \notin pending
        BY <3>1 DEF IInv, QueueAgrees
      <4>3. answer'[c] = answer[c]
        BY <1>a, <3>1
      <4> QED  BY <4>1, <4>2, <4>3
    <3>3. answer'[c] = req[u].decision
      BY <2>1, <2>3, <3>2
    <3>4. s = "passed" => answer'[c] \in Approvals
      BY <1>1 DEF Ends
    <3>5. s = "denied" => answer'[c] = "deny"
      BY <1>1 DEF Ends
    <3> QED  BY <1>5, <2>1, <2>3, <3>2, <3>3, <3>4, <3>5 DEF Approvals, Admitted
  <2> QED  BY <2>2, <2>3
<1>13. OpenQuestionIsAwaited'
  <2> SUFFICES ASSUME NEW d \in requested, resolved'[d] = <<>>
               PROVE  (live' /\ Asked(d)' /\ Found(d)') \/ d \in torn' \/ pc'[d] = "lost"
    BY <1>a DEF OpenQuestionIsAwaited
  <2>1. CASE d = c
    BY <1>1, <2>1 DEF Ends
  <2>2. CASE d # c
    <3>1. d \in Calls /\ resolved[d] = <<>>
      BY <1>7, <2>2 DEF IInv, TypeOK
    <3>2. (live /\ Asked(d) /\ Found(d)) \/ d \in torn \/ pc[d] = "lost"
      BY <3>1 DEF IInv, OpenQuestionIsAwaited
    <3>3. pc[d] \in {"asking", "lost"} => pc'[d] = pc[d]
      BY <1>5, <2>2, <3>1 DEF Holding
    <3>4. torn \subseteq torn'
      BY <1>1 DEF Ends
    <3> QED  BY <1>a, <2>2, <3>2, <3>3, <3>4 DEF Asked, Found
  <2> QED  BY <2>1, <2>2
<1>14. RunsInOrder' /\ SerialOrder' /\ StopsTogether' /\ SlotsExact'
  <2>1. CASE s # "stopped"
    <3>1. ~Cancelled(c)
      BY <1>a, <1>1, <2>1 DEF Cancelled
    <3>2. WindowFollows(c, s)
      BY <1>a, <1>1, <2>1 DEF Ends, WindowFollows, Holding, Admitted
    <3>3. Goes(c, s)
      BY <1>1 DEF Ends
    <3> QED  BY <1>a, <1>2, <2>1, <3>1, <3>2, <3>3, WorkInOrder
  <2>2. CASE s = "stopped"
    <3>1. Cancelled(c) /\ Goes(c, "stopped")
      BY <1>a, <1>1, <2>2 DEF Cancelled, Asked, Ends
    <3> QED  BY <1>a, <3>1, StoppedInOrder
  <2> QED  BY <2>1, <2>2
<1> QED  BY <1>6, <1>8, <1>9, <1>10, <1>11, <1>12, <1>13, <1>14 DEF IInv

-----------------------------------------------------------------------------
(* The users *)

(* One request changes, and none of the others.                             *)
LEMMA Requesting ==
    ASSUME IInv, NEW u \in Users,
           NEW r \in [call : Calls \cup {0}, decision : Decisions,
                      at : {"free", "reading", "accepted", "refused"}],
           req' = [req EXCEPT ![u] = r]
    PROVE  /\ req' \in [Users -> [call : Calls \cup {0}, decision : Decisions,
                                  at : {"free", "reading", "accepted", "refused"}]]
           /\ req'[u] = r /\ \A v \in Users \ {u} : req'[v] = req[v]
  BY DEF IInv, TypeOK

(* A request that comes to nothing, or is only read.                        *)
LEMMA RequestOnly ==
    ASSUME IInv, NEW u \in Users, faults' \in 0 .. MaxFaults,
           NEW r \in [call : Calls \cup {0}, decision : Decisions,
                      at : {"free", "reading", "accepted", "refused"}],
           req' = [req EXCEPT ![u] = r],
           r.at # "accepted", r.at = "reading" => r.call \in Calls,
           UNCHANGED <<stream, drive, used, pc, wake, queue, registry, closing, torn>>
    PROVE  IInv'
<1>1. /\ req' \in [Users -> [call : Calls \cup {0}, decision : Decisions,
                             at : {"free", "reading", "accepted", "refused"}]]
      /\ req'[u] = r /\ \A v \in Users \ {u} : req'[v] = req[v]
  BY Requesting
<1> USE DEF stream, drive, queue
<1>2. TypeOK'
  BY <1>1 DEF IInv, TypeOK
<1>3. GrantIsSaid' /\ DurableConsent'
  BY DEF IInv, GrantIsSaid, DurableConsent, SessionGranted, Decided
<1>4. QueueAgrees' /\ OpenQuestionIsAwaited'
  BY DEF IInv, QueueAgrees, OpenQuestionIsAwaited, Asked, Found
<1>5. AnswersClosed' /\ AcknowledgedStands'
  BY <1>1 DEF IInv, AnswersClosed, AcknowledgedStands
<1>6. RunsInOrder' /\ SerialOrder'
  BY DEF IInv, RunsInOrder, SerialOrder, Batch
<1>7. StopsTogether'
  BY DEF IInv, StopsTogether, Cancelled, Asked, Batch
<1>8. SlotsExact'
  BY DEF IInv, SlotsExact, Batch
<1> QED  BY <1>2, <1>3, <1>4, <1>5, <1>6, <1>7, <1>8 DEF IInv

LEMMA AcceptStep ==
    ASSUME IInv, NEW u \in Users, Accepts(u), UNCHANGED faults
    PROVE  IInv'
<1> DEFINE c == req[u].call
           d == req[u].decision
<1>1. /\ req[u].at = "reading" /\ c \in Calls /\ d \in Decisions /\ c \in pending
      /\ Resolves(c, d, "ok")
  BY DEF Accepts, Found, IInv, AnswersClosed, TypeOK
<1>2. c \notin saved /\ pc[c] \in {"asking", "broken"}
  BY <1>1 DEF IInv, QueueAgrees
<1>3. /\ resolved' \in [Calls -> Seq(Decisions)] /\ saved' = saved \cup {c} /\ Grows
      /\ \A e \in Calls \ {c} : resolved'[e] = resolved[e]
      /\ resolved'[c] # <<>> /\ Last(resolved'[c]) = d
  BY <1>1, <1>2, ResolvesFacts DEF IInv
<1>4. /\ pending' = pending \ {c}
      /\ answer' = [answer EXCEPT ![c] = d]
      /\ wake' = [wake EXCEPT ![c] = IF Asked(c) /\ @ = "none" THEN "result" ELSE @]
      /\ req' = [req EXCEPT ![u].at = "accepted"]
      /\ UNCHANGED <<requested, granted, plan, drive, used, pc, registry, closing, torn>>
  BY DEF Accepts
<1> HIDE DEF c, d
<1>5. req \in [Users -> [call : Calls \cup {0}, decision : Decisions,
                       at : {"free", "reading", "accepted", "refused"}]]
  BY DEF IInv, TypeOK
<1>6. /\ req' \in [Users -> [call : Calls \cup {0}, decision : Decisions,
                             at : {"free", "reading", "accepted", "refused"}]]
      /\ req'[u].call = c /\ req'[u].decision = d /\ req'[u].at = "accepted"
      /\ \A v \in Users \ {u} : req'[v] = req[v]
  BY <1>4, <1>5 DEF c, d
<1>7. /\ answer' \in [Calls -> Decisions \cup {"none"}] /\ answer'[c] = d
      /\ \A e \in Calls \ {c} : answer'[e] = answer[e]
  BY <1>1, <1>4 DEF IInv, TypeOK
<1>8. /\ wake' \in [Calls -> {"none", "result", "timeout", "cancel"}]
      /\ wake'[c] \in {wake[c], "result"} /\ \A e \in Calls \ {c} : wake'[e] = wake[e]
      /\ wake'[c] = "cancel" <=> wake[c] = "cancel"
  BY <1>1, <1>4 DEF IInv, TypeOK
<1> USE DEF drive
<1>9. TypeOK'
  BY <1>1, <1>3, <1>4, <1>6, <1>7, <1>8 DEF IInv, TypeOK
<1>10. GrantIsSaid'
  BY <1>3, <1>4, ConsentStands DEF IInv, GrantIsSaid
<1>11. QueueAgrees'
  BY <1>1, <1>2, <1>3, <1>4, <1>7, <1>8 DEF IInv, QueueAgrees, Asked
<1>12. AnswersClosed'
  BY <1>1, <1>2, <1>4, <1>6 DEF IInv, AnswersClosed
<1>13. DurableConsent'
  BY <1>3, <1>4, ConsentKept
<1>14. AcknowledgedStands'
  <2>1. ASSUME NEW v \in Users \ {u}, req[v].at = "accepted" PROVE req[v].call \in Calls \ {c}
    BY <1>1, <2>1 DEF IInv, AnswersClosed
  <2>2. ASSUME NEW v \in Users \ {u}, req[v].at = "accepted"
        PROVE  /\ resolved'[req[v].call] # <<>> /\ Last(resolved'[req[v].call]) = req[v].decision
               /\ pc'[req[v].call] \notin (IF req[v].decision = "deny"
                                             THEN {"passed", "repeated"} \cup Admitted
                                             ELSE {"denied"})
               /\ \A w \in Users \ {v} : req'[w].at = "accepted" => req'[w].call # req[v].call
    BY <1>3, <1>4, <1>6, <2>1, <2>2 DEF IInv, AcknowledgedStands
  <2>3. pc'[c] \notin {"passed", "repeated", "denied"} \cup Admitted
    BY <1>2, <1>4 DEF Admitted
  <2>4. \A v \in Users \ {u} : req'[v].at = "accepted" => req'[v].call # c
    BY <1>6, <2>1
  <2> QED  BY <1>3, <1>6, <2>2, <2>3, <2>4 DEF AcknowledgedStands
<1>15. OpenQuestionIsAwaited'
  BY <1>3, <1>4 DEF IInv, OpenQuestionIsAwaited, Asked, Found, TypeOK
<1>16. RunsInOrder' /\ SerialOrder'
  BY <1>4 DEF IInv, RunsInOrder, SerialOrder, Batch
<1>17. StopsTogether'
  <2>1. \A e \in Calls : Cancelled(e)' <=> Cancelled(e)
    BY <1>4, <1>8 DEF Cancelled, Asked
  <2>2. Batch' = Batch /\ Batch \subseteq Calls
    BY <1>4 DEF Batch
  <2> QED  BY <1>4, <2>1, <2>2 DEF IInv, StopsTogether
<1>18. SlotsExact'
  BY <1>4 DEF IInv, SlotsExact, Batch
<1> QED
  BY <1>9, <1>10, <1>11, <1>12, <1>13, <1>14, <1>15, <1>16, <1>17, <1>18 DEF IInv

(* A word that a failed append may leave in the stream changes nothing that *)
(* was settled.                                                             *)
LEMMA FailStep ==
    ASSUME IInv, NEW u \in Users, NEW how, FailsToAccept(u, how), faults' \in 0 .. MaxFaults
    PROVE  IInv'
<1> DEFINE c == req[u].call
<1>1. /\ req[u].at = "reading" /\ c \in Calls /\ c \in pending /\ how # "ok"
      /\ req[u].decision \in Decisions /\ Resolves(c, req[u].decision, how)
  BY DEF FailsToAccept, Found, IInv, AnswersClosed, TypeOK, Failures
<1>2. /\ req' = [req EXCEPT ![u] = Refused]
      /\ UNCHANGED <<requested, granted, plan, drive, used, pc, wake, pending, answer,
                     registry, closing, torn>>
  BY DEF FailsToAccept
<1> HIDE DEF c
<1>3. c \notin saved
  BY <1>1 DEF IInv, QueueAgrees
<1>4. /\ resolved' \in [Calls -> Seq(Decisions)] /\ saved' = saved /\ Grows
      /\ \A e \in Calls \ {c} : resolved'[e] = resolved[e]
      /\ resolved'[c] = <<>> => resolved[c] = <<>>
  BY <1>1, <1>3, ResolvesFacts DEF IInv
<1>5. Refused \in [call : Calls \cup {0}, decision : Decisions,
                   at : {"free", "reading", "accepted", "refused"}] /\ Refused.at = "refused"
  BY DEF Refused, None, Decisions
<1>6. /\ req' \in [Users -> [call : Calls \cup {0}, decision : Decisions,
                             at : {"free", "reading", "accepted", "refused"}]]
      /\ req'[u].at = "refused" /\ \A v \in Users \ {u} : req'[v] = req[v]
  BY <1>2, <1>5, Requesting
<1> USE DEF drive
<1>7. TypeOK'
  BY <1>2, <1>4, <1>6 DEF IInv, TypeOK
<1>8. GrantIsSaid' /\ DurableConsent'
  BY <1>2, <1>4, ConsentStands, ConsentKept DEF IInv, GrantIsSaid
<1>9. QueueAgrees'
  BY <1>1, <1>2, <1>3, <1>4 DEF IInv, QueueAgrees, Asked
<1>10. AnswersClosed'
  BY <1>2, <1>6 DEF IInv, AnswersClosed
<1>11. AcknowledgedStands'
  <2>1. ASSUME NEW v \in Users, req[v].at = "accepted" PROVE req[v].call \in Calls \ {c}
    BY <1>1, <2>1 DEF IInv, AnswersClosed
  <2> QED  BY <1>2, <1>4, <1>6, <2>1 DEF IInv, AcknowledgedStands
<1>12. OpenQuestionIsAwaited'
  BY <1>2, <1>4 DEF IInv, OpenQuestionIsAwaited, Asked, Found, TypeOK
<1>13. RunsInOrder' /\ SerialOrder'
  BY <1>2 DEF IInv, RunsInOrder, SerialOrder, Batch
<1>14. StopsTogether'
  BY <1>2 DEF IInv, StopsTogether, Cancelled, Asked, Batch
<1>15. SlotsExact'
  BY <1>2 DEF IInv, SlotsExact, Batch
<1> QED
  BY <1>7, <1>8, <1>9, <1>10, <1>11, <1>12, <1>13, <1>14, <1>15 DEF IInv

LEMMA UserStep ==
    ASSUME IInv, NEW u \in Users, UNCHANGED faults,
           Rejects(u) \/ \E c \in Calls, d \in Decisions : Reads(u, c, d)
    PROVE  IInv'
<1>0. faults' \in 0 .. MaxFaults
  BY DEF IInv, TypeOK
<1>1. CASE Rejects(u)
  <2>1. None \in [call : Calls \cup {0}, decision : Decisions,
                  at : {"free", "reading", "accepted", "refused"}] /\ None.at = "free"
    BY DEF None, Decisions
  <2> QED  BY <1>0, <1>1, <2>1, RequestOnly DEF Rejects
<1>2. CASE \E c \in Calls, d \in Decisions : Reads(u, c, d)
  <2>1. PICK c \in Calls, d \in Decisions : Reads(u, c, d)
    BY <1>2
  <2>2. LET r == [call |-> c, decision |-> d, at |-> "reading"] IN
          /\ r \in [call : Calls \cup {0}, decision : Decisions,
                    at : {"free", "reading", "accepted", "refused"}]
          /\ r.at = "reading" /\ r.call \in Calls
    OBVIOUS
  <2> QED  BY <1>0, <2>1, <2>2, RequestOnly DEF Reads
<1> QED  BY <1>1, <1>2

-----------------------------------------------------------------------------
(* The session and its runs *)

(* The mode of the session and its grant change behind the run's back.      *)
LEMMA SessionStep ==
    ASSUME IInv, UNCHANGED faults, Revoke \/ \E p \in BOOLEAN : SetMode(p)
    PROVE  IInv'
<1>1. /\ UNCHANGED <<requested, resolved, drive, used, pc, wake, queue, registry,
                     closing, req, torn>>
      /\ granted' => granted
  BY DEF Revoke, SetMode
<1>2. granted' \in BOOLEAN /\ plan' \in BOOLEAN
  BY DEF Revoke, SetMode, IInv, TypeOK
<1> USE DEF drive, queue
<1>3. TypeOK'
  BY <1>1, <1>2 DEF IInv, TypeOK
<1>4. GrantIsSaid'
  BY <1>1 DEF IInv, GrantIsSaid, SessionGranted, Decided
<1>5. QueueAgrees' /\ OpenQuestionIsAwaited'
  BY <1>1 DEF IInv, QueueAgrees, OpenQuestionIsAwaited, Asked, Found
<1>6. AnswersClosed' /\ AcknowledgedStands' /\ DurableConsent'
  BY <1>1 DEF IInv, AnswersClosed, AcknowledgedStands, DurableConsent, Decided
<1>7. RunsInOrder' /\ SerialOrder'
  BY <1>1 DEF IInv, RunsInOrder, SerialOrder, Batch
<1>8. StopsTogether' /\ SlotsExact'
  BY <1>1 DEF IInv, StopsTogether, SlotsExact, Cancelled, Asked, Batch
<1> QED  BY <1>3, <1>4, <1>5, <1>6, <1>7, <1>8 DEF IInv

(* The time of a question is over; its call has not noticed yet.            *)
LEMMA TimerStep ==
    ASSUME IInv, UNCHANGED faults, NEW c \in Calls, Timer(c)
    PROVE  IInv'
<1>1. /\ UNCHANGED <<stream, drive, used, pc, queue, registry, closing, req, torn>>
      /\ pc[c] = "asking" /\ wake[c] # "cancel" /\ wake' = [wake EXCEPT ![c] = "timeout"]
  BY DEF Timer, Asked
<1>2. /\ wake' \in [Calls -> {"none", "result", "timeout", "cancel"}]
      /\ wake'[c] = "timeout" /\ \A d \in Calls \ {c} : wake'[d] = wake[d]
  BY <1>1 DEF IInv, TypeOK
<1> USE DEF stream, drive, queue
<1>3. TypeOK'
  BY <1>1, <1>2 DEF IInv, TypeOK
<1>4. GrantIsSaid' /\ AnswersClosed' /\ AcknowledgedStands' /\ DurableConsent'
  BY <1>1 DEF IInv, GrantIsSaid, SessionGranted, AnswersClosed, AcknowledgedStands,
              DurableConsent, Decided
<1>5. QueueAgrees' /\ OpenQuestionIsAwaited'
  BY <1>1, <1>2 DEF IInv, QueueAgrees, OpenQuestionIsAwaited, Asked, Found
<1>6. RunsInOrder' /\ SerialOrder' /\ SlotsExact'
  BY <1>1 DEF IInv, RunsInOrder, SerialOrder, SlotsExact, Batch
<1>7. StopsTogether'
  <2>1. \A d \in Calls : Cancelled(d)' <=> Cancelled(d)
    BY <1>1, <1>2 DEF Cancelled, Asked
  <2>2. Batch' = Batch /\ Batch \subseteq Calls
    BY <1>1 DEF Batch
  <2> QED  BY <1>1, <2>1, <2>2 DEF IInv, StopsTogether
<1> QED  BY <1>3, <1>4, <1>5, <1>6, <1>7 DEF IInv

(* A run is cancelled: nobody who has not started will start any more.      *)
LEMMA CancelStep ==
    ASSUME IInv, UNCHANGED faults, CancelRun
    PROVE  IInv'
<1>1. /\ UNCHANGED <<stream, drive, used, queue, registry, closing, req, torn>>
      /\ live
      /\ wake' = [c \in Calls |-> IF c \in Batch /\ Asked(c) THEN "cancel" ELSE wake[c]]
      /\ pc' = [c \in Calls |-> IF c \in Batch /\ pc[c] \in {"idle", "passed"}
                                THEN "stopped" ELSE pc[c]]
  BY DEF CancelRun
<1>2. /\ wake' \in [Calls -> {"none", "result", "timeout", "cancel"}]
      /\ \A c \in Calls : wake'[c] = IF c \in Batch /\ Asked(c) THEN "cancel" ELSE wake[c]
  BY <1>1 DEF IInv, TypeOK
<1>3. /\ pc' \in [Calls -> Before \cup Ended]
      /\ \A c \in Calls : pc'[c] = IF c \in Batch /\ pc[c] \in {"idle", "passed"}
                                   THEN "stopped" ELSE pc[c]
  BY <1>1 DEF IInv, TypeOK, Ended
<1>4. \A c \in Calls : (pc'[c] = pc[c] \/ (pc'[c] = "stopped" /\ pc[c] \in {"idle", "passed"} /\ c \in Batch))
  BY <1>3
<1> USE DEF stream, drive, queue
<1>5. TypeOK'
  BY <1>1, <1>2, <1>3 DEF IInv, TypeOK
<1>6. GrantIsSaid' /\ Grows
  BY <1>1 DEF IInv, GrantIsSaid, SessionGranted, Decided, Grows
<1>7. DurableConsent'
  <2>1. \A c \in NeedsAsk : pc'[c] \in Started => pc[c] \in Started
    BY <1>4, GateAssumption DEF Started, Admitted
  <2> QED  BY <1>6, <2>1, ConsentKept
<1>8. QueueAgrees' /\ AnswersClosed' /\ OpenQuestionIsAwaited'
  BY <1>1, <1>2, <1>4 DEF IInv, QueueAgrees, AnswersClosed, OpenQuestionIsAwaited, Asked, Found,
                          TypeOK
<1>9. AcknowledgedStands'
  <2>1. ASSUME NEW u \in Users, req[u].at = "accepted"
        PROVE  pc'[req[u].call] \in {pc[req[u].call], "stopped"}
    BY <1>4, <2>1 DEF IInv, AnswersClosed
  <2> QED  BY <1>1, <2>1 DEF IInv, AcknowledgedStands, Admitted
<1>10. RunsInOrder'
  <2>1. \A c \in Batch : c \in Calls /\ RunOf[c] = run /\ run \in Nat
    BY GateAssumption DEF Batch, IInv, TypeOK
  <2> QED  BY <1>1, <1>4, <2>1 DEF IInv, RunsInOrder
<1>11. SerialOrder'
  <2>1. Batch' = Batch /\ Batch \subseteq Calls
    BY <1>1 DEF Batch
  <2>2. \A c \in Batch : /\ pc'[c] \in Holding => pc[c] \in Holding
                         /\ pc[c] = "ran" => pc'[c] = "ran"
    BY <1>4, <2>1 DEF Holding, Admitted
  <2> QED  BY <1>1, <2>1, <2>2 DEF IInv, SerialOrder
<1>12. ASSUME NEW c \in Batch PROVE pc'[c] \in Ended \/ Cancelled(c)'
  <2>1. c \in Calls
    BY DEF Batch
  <2>2. pc[c] \in Before \/ pc[c] \in Ended
    BY <2>1 DEF IInv, TypeOK
  <2> QED  BY <1>2, <1>3, <2>1, <2>2 DEF Before, Cancelled, Asked
<1>13. StopsTogether'
  BY <1>1, <1>12 DEF StopsTogether, Batch
<1>14. SlotsExact'
  <2>1. CASE \E c \in Batch : pc'[c] = "stopped"
    BY <1>1, <2>1 DEF SlotsExact, Batch
  <2>2. CASE \A c \in Batch : pc'[c] # "stopped"
    <3>1. \A c \in Batch : pc'[c] = pc[c]
      BY <1>4, <2>2 DEF Batch
    <3>2. {c \in Batch' : pc'[c] \in Holding} = {c \in Batch : pc[c] \in Holding}
      BY <1>1, <3>1 DEF Batch
    <3> QED  BY <1>1, <2>2, <3>1, <3>2 DEF IInv, SlotsExact, Holding, Batch
  <2> QED  BY <2>1, <2>2
<1> QED  BY <1>5, <1>6, <1>7, <1>8, <1>9, <1>10, <1>11, <1>13, <1>14 DEF IInv

LEMMA LaunchStep ==
    ASSUME IInv, UNCHANGED faults, Launch
    PROVE  IInv'
<1>1. /\ ~live /\ run + 1 \in Runs /\ run' = run + 1 /\ live' = TRUE /\ registry' = run + 1
      /\ seesGrant' = granted /\ seesPlan' = plan /\ used' = 0 /\ mode' \in Modes
      /\ pending' = {} /\ saved' = {} /\ answer' = [c \in Calls |-> "none"]
      /\ UNCHANGED <<stream, pc, wake, closing, req, torn>>
  BY DEF Launch
<1>2. run \in Nat /\ \A c \in Calls : RunOf[c] \in Nat
  <2>1. run \in Nat
    BY GateAssumption DEF IInv, TypeOK
  <2>2. \A c \in Calls : RunOf[c] \in Nat
    BY GateAssumption
  <2> QED  BY <2>1, <2>2
<1>3. \A c \in Calls : pc[c] \notin {"asking", "passed"}
  BY <1>1 DEF IInv, RunsInOrder
<1>4. \A c \in Batch' : c \in Calls /\ pc[c] = "idle"
  BY <1>1, <1>2 DEF Batch, IInv, RunsInOrder
<1> USE DEF stream
<1>5. TypeOK'
  BY <1>1, GateAssumption DEF IInv, TypeOK
<1>6. GrantIsSaid' /\ DurableConsent' /\ AcknowledgedStands'
  BY <1>1 DEF IInv, GrantIsSaid, SessionGranted, DurableConsent, Decided, AcknowledgedStands
<1>7. QueueAgrees' /\ AnswersClosed'
  BY <1>1, <1>3 DEF IInv, QueueAgrees, AnswersClosed, Asked
<1>8. OpenQuestionIsAwaited'
  BY <1>1, <1>3 DEF IInv, OpenQuestionIsAwaited, Asked
<1>9. RunsInOrder'
  <2>1. \A r \in closing : r \in Nat
    BY GateAssumption DEF IInv, TypeOK
  <2>2. \A r \in closing' : r < run'
    BY <1>1, <1>2, <2>1 DEF IInv, RunsInOrder
  <2>3. \A c \in Calls : /\ pc'[c] = "lost" => RunOf[c] < run'
                         /\ RunOf[c] > run' => pc'[c] = "idle"
    BY <1>1, <1>2 DEF IInv, RunsInOrder
  <2> QED  BY <1>1, <1>3, <2>2, <2>3 DEF RunsInOrder
<1>10. SerialOrder' /\ StopsTogether'
  BY <1>1, <1>3, <1>4 DEF SerialOrder, StopsTogether, Cancelled, Asked, Holding, Admitted
<1>11. SlotsExact'
  <2>1. {c \in Batch' : pc'[c] \in Holding} = {}
    BY <1>1, <1>4 DEF Holding, Admitted
  <2> QED  BY <1>1, <2>1, FS_EmptySet DEF SlotsExact, Holding
<1> QED  BY <1>5, <1>6, <1>7, <1>8, <1>9, <1>10, <1>11 DEF IInv

(* The run is over, its callback comes, or it was the callback of another.  *)
LEMMA RunEndStep ==
    ASSUME IInv, UNCHANGED faults, Finish \/ \E r \in Runs : Collect(r)
    PROVE  IInv'
<1>1. /\ UNCHANGED <<stream, run, mode, seesGrant, seesPlan, used, pc, wake, queue, req, torn>>
      /\ live' => live /\ closing' \subseteq closing /\ registry' = registry
      /\ live' \in BOOLEAN
      /\ \A c \in Calls : pc[c] \in {"asking", "passed"} => live' /\ registry' = registry
      /\ \A r \in closing' : r \in closing \/ (r = run /\ ~live')
      /\ closing' \subseteq Runs /\ registry' \in Runs \cup {0}
      /\ ~live => ~live'
  <2>1. CASE Finish
    <3>1. \A c \in Calls : pc[c] \notin {"asking", "passed"}
      BY <2>1 DEF Finish, Batch, Ended, Admitted, IInv, RunsInOrder
    <3>2. run \in Runs
      BY <2>1 DEF Finish, IInv, RunsInOrder
    <3> QED  BY <2>1, <3>1, <3>2 DEF Finish, IInv, TypeOK
  <2>2. CASE \E r \in Runs : Collect(r)
    <3>1. PICK r \in Runs : Collect(r)
      BY <2>2
    <3>2. live => r # run /\ registry = run
      BY <3>1, GateAssumption DEF Collect, IInv, RunsInOrder
    <3> QED  BY <3>1, <3>2 DEF Collect, IInv, TypeOK, drive, RunsInOrder
  <2> QED  BY <2>1, <2>2
<1> USE DEF stream, queue
<1>2. TypeOK'
  BY <1>1 DEF IInv, TypeOK
<1>3. GrantIsSaid' /\ DurableConsent' /\ AcknowledgedStands' /\ QueueAgrees' /\ AnswersClosed'
  BY <1>1 DEF IInv, GrantIsSaid, SessionGranted, DurableConsent, Decided, AcknowledgedStands,
              QueueAgrees, AnswersClosed, Asked
<1>4. OpenQuestionIsAwaited'
  BY <1>1 DEF IInv, OpenQuestionIsAwaited, Asked, Found, TypeOK
<1>5. RunsInOrder'
  BY <1>1 DEF IInv, RunsInOrder
<1>6. SerialOrder' /\ StopsTogether' /\ SlotsExact'
  BY <1>1 DEF IInv, SerialOrder, StopsTogether, SlotsExact, Cancelled, Asked, Batch
<1> QED  BY <1>2, <1>3, <1>4, <1>5, <1>6 DEF IInv

LEMMA CrashStep ==
    ASSUME IInv, faults' \in 0 .. MaxFaults, Crash
    PROVE  IInv'
<1>1. /\ live /\ live' = FALSE /\ registry' = 0 /\ closing' = {}
      /\ pending' = {} /\ saved' = {} /\ answer' = [c \in Calls |-> "none"]
      /\ pc' = [c \in Calls |-> IF c \in Batch /\ pc[c] \in Before THEN "lost" ELSE pc[c]]
      /\ wake' = [c \in Calls |-> "none"]
      /\ req' = [u \in Users |-> IF req[u].at = "reading" THEN None ELSE req[u]]
      /\ UNCHANGED <<stream, run, mode, seesGrant, seesPlan, used, torn>>
  BY DEF Crash
<1>2. /\ pc' \in [Calls -> Before \cup Ended]
      /\ \A c \in Calls : pc'[c] = IF c \in Batch /\ pc[c] \in Before THEN "lost" ELSE pc[c]
  BY <1>1 DEF IInv, TypeOK, Ended
<1>3. \A c \in Calls : pc'[c] \notin {"asking", "passed"}
  BY <1>2 DEF IInv, RunsInOrder, Batch, Before
<1>4. None \in [call : Calls \cup {0}, decision : Decisions,
                at : {"free", "reading", "accepted", "refused"}] /\ None.at = "free"
  BY DEF None, Decisions
<1>5. /\ req' \in [Users -> [call : Calls \cup {0}, decision : Decisions,
                             at : {"free", "reading", "accepted", "refused"}]]
      /\ \A u \in Users : \/ req'[u] = req[u] /\ req[u].at # "reading"
                          \/ req'[u] = None
  BY <1>1, <1>4 DEF IInv, TypeOK
<1> USE DEF stream
<1>6. TypeOK'
  BY <1>1, <1>2, <1>5 DEF IInv, TypeOK
<1>7. GrantIsSaid' /\ Grows
  BY <1>1 DEF IInv, GrantIsSaid, SessionGranted, Decided, Grows
<1>8. DurableConsent'
  <2>1. \A c \in NeedsAsk : pc'[c] \in Started => pc[c] \in Started
    BY <1>2, GateAssumption DEF Started, Admitted
  <2> QED  BY <1>7, <2>1, ConsentKept
<1>9. QueueAgrees'
  <2>1. \A c \in Calls : pc'[c] = "idle" => c \notin requested
    BY <1>2 DEF IInv, QueueAgrees
  <2> QED  BY <1>1, <1>3, <2>1 DEF QueueAgrees, Asked
<1>10. AnswersClosed' /\ AcknowledgedStands'
  <2>1. ASSUME NEW u \in Users, req'[u].at = "accepted"
        PROVE  /\ req'[u] = req[u] /\ req[u].call \in Calls /\ pc[req[u].call] # "idle"
               /\ pc'[req[u].call] \in {pc[req[u].call], "lost"}
    BY <1>2, <1>4, <1>5, <2>1 DEF IInv, AnswersClosed
  <2>2. \A u \in Users : req'[u].at # "reading"
    BY <1>4, <1>5
  <2>3. AnswersClosed'
    BY <1>1, <2>1, <2>2 DEF AnswersClosed
  <2> QED  BY <1>1, <2>1, <2>3 DEF IInv, AcknowledgedStands, Admitted
<1>11. OpenQuestionIsAwaited'
  <2> SUFFICES ASSUME NEW c \in requested, resolved[c] = <<>>, c \notin torn
               PROVE  pc'[c] = "lost"
    BY <1>1 DEF OpenQuestionIsAwaited
  <2>1. c \in Calls /\ (Asked(c) \/ pc[c] = "lost")
    BY DEF IInv, OpenQuestionIsAwaited, TypeOK
  <2> QED  BY <1>2, <2>1 DEF Asked, Before, Batch, IInv, RunsInOrder
<1>12. RunsInOrder'
  <2>1. \A c \in Batch : c \in Calls /\ RunOf[c] = run /\ run \in Nat
    BY GateAssumption DEF Batch, IInv, TypeOK
  <2> QED  BY <1>1, <1>2, <1>3, <2>1 DEF IInv, RunsInOrder
<1>13. SerialOrder'
  <2>1. Batch' = Batch /\ Batch \subseteq Calls
    BY <1>1 DEF Batch
  <2>2. \A c \in Batch : /\ pc'[c] \in Holding => pc[c] \in Holding
                         /\ pc[c] = "ran" => pc'[c] = "ran"
    BY <1>2, <2>1 DEF Holding, Admitted, Before
  <2> QED  BY <1>1, <2>1, <2>2 DEF IInv, SerialOrder
<1>14. StopsTogether' /\ SlotsExact'
  BY <1>1 DEF StopsTogether, SlotsExact
<1> QED  BY <1>6, <1>7, <1>8, <1>9, <1>10, <1>11, <1>12, <1>13, <1>14 DEF IInv

(* What was never answered gets its denial, which saves nothing in a queue. *)
LEMMA RecoverStep ==
    ASSUME IInv, UNCHANGED faults, NEW c \in Calls, Recover(c)
    PROVE  IInv'
<1>1. /\ resolved[c] = <<>> /\ resolved' = [resolved EXCEPT ![c] = <<"deny">>]
      /\ UNCHANGED <<requested, granted, plan, drive, used, pc, wake, queue, registry,
                     closing, req, torn>>
  BY DEF Recover
<1>2. <<"deny">> \in Seq(Decisions) /\ <<"deny">> # <<>>
  BY DEF Decisions
<1>3. /\ resolved' \in [Calls -> Seq(Decisions)] /\ resolved'[c] # <<>>
      /\ \A d \in Calls \ {c} : resolved'[d] = resolved[d]
  BY <1>1, <1>2 DEF IInv, TypeOK
<1>4. Grows
  <2>1. ToSet(resolved[c]) = {}
    BY <1>1 DEF ToSet
  <2> QED  BY <1>3, <2>1 DEF Grows
<1> USE DEF drive, queue
<1>5. TypeOK'
  BY <1>1, <1>3 DEF IInv, TypeOK
<1>6. GrantIsSaid' /\ DurableConsent'
  BY <1>1, <1>4, ConsentStands, ConsentKept DEF IInv, GrantIsSaid
<1>7. QueueAgrees' /\ AnswersClosed'
  BY <1>1, <1>3 DEF IInv, QueueAgrees, AnswersClosed, Asked
<1>8. AcknowledgedStands'
  <2>1. ASSUME NEW u \in Users, req[u].at = "accepted" PROVE req[u].call \in Calls \ {c}
    BY <1>1, <2>1 DEF IInv, AnswersClosed, AcknowledgedStands
  <2> QED  BY <1>1, <1>3, <2>1 DEF IInv, AcknowledgedStands
<1>9. OpenQuestionIsAwaited'
  BY <1>1, <1>3 DEF IInv, OpenQuestionIsAwaited, Asked, Found, TypeOK
<1>10. RunsInOrder' /\ SerialOrder'
  BY <1>1 DEF IInv, RunsInOrder, SerialOrder, Batch
<1>11. StopsTogether' /\ SlotsExact'
  BY <1>1 DEF IInv, StopsTogether, SlotsExact, Cancelled, Asked, Batch
<1> QED  BY <1>5, <1>6, <1>7, <1>8, <1>9, <1>10, <1>11 DEF IInv

-----------------------------------------------------------------------------
(* The theorems *)

LEMMA InitHolds == Init => IInv
<1> SUFFICES ASSUME Init PROVE IInv
  OBVIOUS
<1> USE DEF Init
<1>1. TypeOK
  <2>1. None \in [call : Calls \cup {0}, decision : Decisions,
                  at : {"free", "reading", "accepted", "refused"}]
    BY DEF None, Decisions
  <2>2. used \in 0 .. Ceiling /\ faults \in 0 .. MaxFaults
    BY GateAssumption
  <2>3. resolved \in [Calls -> Seq(Decisions)]
    OBVIOUS
  <2>4. pc \in [Calls -> Before \cup Ended]
    BY DEF Before
  <2>5. granted \in BOOLEAN /\ plan \in BOOLEAN /\ live \in BOOLEAN /\ seesGrant \in BOOLEAN
        /\ seesPlan \in BOOLEAN
    OBVIOUS
  <2> QED  BY <2>1, <2>2, <2>3, <2>4, <2>5 DEF TypeOK
<1>2. GrantIsSaid /\ QueueAgrees
  BY DEF GrantIsSaid, QueueAgrees, Asked
<1>3. AnswersClosed /\ AcknowledgedStands
  BY DEF AnswersClosed, AcknowledgedStands, None
<1>4. RunsInOrder /\ SerialOrder /\ StopsTogether /\ SlotsExact
  BY DEF RunsInOrder, SerialOrder, StopsTogether, SlotsExact
<1>5. DurableConsent /\ OpenQuestionIsAwaited
  BY GateAssumption DEF DurableConsent, OpenQuestionIsAwaited, Admitted
<1> QED  BY <1>1, <1>2, <1>3, <1>4, <1>5 DEF IInv

LEMMA StepHolds ==
    ASSUME IInv, [Next]_vars
    PROVE  IInv'
<1>1. CASE Step /\ UNCHANGED faults
  <2>1. faults' \in 0 .. MaxFaults
    BY <1>1 DEF IInv, TypeOK
  <2>2. ASSUME NEW c \in Calls, Appends(c, "ok") PROVE IInv'
    BY <2>1, <2>2, AskStep, WakeStep DEF Appends
  <2> QED
    BY <1>1, <2>2, GateStep, TimerStep, RecoverStep, UserStep, AcceptStep, SessionStep,
       CancelStep, LaunchStep, RunEndStep DEF Step
<1>2. CASE Fault /\ faults < MaxFaults /\ faults' = faults + 1
  <2>1. faults' \in 0 .. MaxFaults
    BY <1>2, GateAssumption DEF IInv, TypeOK
  <2>2. ASSUME NEW c \in Calls, NEW how \in Failures, Appends(c, how) PROVE IInv'
    BY <2>1, <2>2, AskStep, WakeStep DEF Appends
  <2> QED  BY <1>2, <2>1, <2>2, FailStep, CrashStep DEF Fault
<1>3. CASE UNCHANGED vars
  <2> USE <1>3 DEF vars, stream, drive, queue
  <2>1. TypeOK'
    BY DEF IInv, TypeOK
  <2>2. GrantIsSaid' /\ DurableConsent' /\ AcknowledgedStands' /\ AnswersClosed'
    BY DEF IInv, GrantIsSaid, SessionGranted, DurableConsent, Decided, AcknowledgedStands,
           AnswersClosed
  <2>3. QueueAgrees' /\ OpenQuestionIsAwaited'
    BY DEF IInv, QueueAgrees, OpenQuestionIsAwaited, Asked, Found
  <2>4. RunsInOrder' /\ SerialOrder'
    BY DEF IInv, RunsInOrder, SerialOrder, Batch
  <2>5. StopsTogether' /\ SlotsExact'
    BY DEF IInv, StopsTogether, SlotsExact, Cancelled, Asked, Batch
  <2> QED  BY <2>1, <2>2, <2>3, <2>4, <2>5 DEF IInv
<1> QED  BY <1>1, <1>2, <1>3 DEF Next

LEMMA Inductive == Spec => []IInv
  BY InitHolds, StepHolds, PTL DEF Spec

(* The state of the gate has its types: the quota window never exceeds its  *)
(* ceiling, and nothing but decisions comes into a pairing.                 *)
THEOREM TypeCorrect == Spec => []TypeOK
<1>1. IInv => TypeOK
  BY DEF IInv
<1> QED  BY <1>1, Inductive, PTL

(* A call above the permission of the session starts only after a person's  *)
(* approval is in the stream, whatever was lost of the writes.              *)
THEOREM ConsentIsDurable == Spec => []DurableConsent
<1>1. IInv => DurableConsent
  BY DEF IInv
<1> QED  BY <1>1, Inductive, PTL

(* The answer that /approve told a user is accepted stands, against timers, *)
(* cancellations, other users, failing writes, crashes and the recovery.    *)
THEOREM AcceptedAnswerStands == Spec => []AcknowledgedStands
<1>1. IInv => AcknowledgedStands
  BY DEF IInv
<1> QED  BY <1>1, Inductive, PTL

(* An open question has its call waiting in the queue that /approve finds,  *)
(* or a failed write or a death of the process explains it.                 *)
THEOREM OpenQuestionHasItsCall == Spec => []OpenQuestionIsAwaited
<1>1. IInv => OpenQuestionIsAwaited
  BY DEF IInv
<1> QED  BY <1>1, Inductive, PTL

(* The quota window counts the calls that hold a slot, neither losing one   *)
(* nor giving one back twice, until the run is cancelled.                   *)
THEOREM WindowIsExact == Spec => []SlotsExact
<1>1. IInv => SlotsExact
  BY DEF IInv
<1> QED  BY <1>1, Inductive, PTL
=============================================================================
