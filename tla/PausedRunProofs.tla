---------------------------- MODULE PausedRunProofs ----------------------------
(***************************************************************************)
(* That a budget version of a run is driven by one execution at most, that *)
(* a question has one answer, and that an open run is carried on, for any  *)
(* number of clients, tasks, runs and questions and for every bound on     *)
(* failures and deaths.                                                    *)
(***************************************************************************)
EXTENDS PausedRun, FiniteSetTheorems, TLAPS

(* What the invariant says of a log, as operators of any sequence.          *)
Marks(l, r, types) == {i \in DOMAIN l : l[i].run = r /\ l[i].type \in types}
VersionIn(l, r)    == 1 + Cardinality(Marks(l, r, {"run/resumed"}))
AnswersIn(l, q)    == {i \in DOMAIN l : l[i].type = "user/message" /\ l[i].question = q}
GivenIn(l, q)      == {l[i].answer : i \in AnswersIn(l, q)}
Known(l, r)        == Marks(l, r, Lifecycle) # {}

(* Events that neither resume a run nor answer a question.                  *)
IsQuiet(s) == \A i \in DOMAIN s : s[i].type \notin {"run/resumed", "user/message"}
-----------------------------------------------------------------------------
(* The invariant *)

ExecType  == [Execs -> [run : Runs \cup {NoRun}, version : Nat, stage : Stages]]
ClaimType == [Resumers -> [run : Runs \cup {NoRun}, version : Nat,
                           question : Questions \cup {NoQuestion}]]

Resuming == {"claimed", "planned", "read", "loaded", "resumed"}

(* A resume on its way has a run, and so has one that may be sent again.    *)
ClaimsARun ==
    \A r \in Resumers :
      pc[r] \in Resuming \/ (r \in Clients /\ claim[r] # NoClaim) => claim[r].run \in Runs

TypeInv == TypeOK /\ ClaimsARun

(* Versions that are driven or about to be are versions of the log.         *)
Granted ==
    /\ \A x \in Execs :
         IF exec[x].run = NoRun
           THEN exec[x].version <= 1
           ELSE exec[x].version <= VersionIn(log, exec[x].run) /\ Known(log, exec[x].run)
    /\ \A r \in Resumers :
         pc[r] = "resumed" => /\ claim[r].version + 1 <= VersionIn(log, claim[r].run)
                              /\ Known(log, claim[r].run)

(* Who has written run/resumed is alone to launch that version.             *)
OneClaimant ==
    \A r \in Resumers :
      pc[r] = "resumed" =>
        /\ \A x \in Execs :
             exec[x].run = claim[r].run => exec[x].version # claim[r].version + 1
        /\ \A s \in Resumers \ {r} :
             pc[s] = "resumed" /\ claim[s].run = claim[r].run
               => claim[s].version # claim[r].version

(* What the holder of the lock has validated is still true.                 *)
HolderIsCurrent ==
    \A r \in Resumers :
      pc[r] \in {"read", "loaded"} =>
        /\ lock = r
        /\ claim[r].version = VersionIn(log, claim[r].run)
        /\ Answering(r) => GivenIn(log, claim[r].question) \subseteq {AnswerOf[r]}

(* AnswerStands, in terms of the log.                                       *)
AnswersAgree ==
    /\ \A q \in Questions : \A i, j \in AnswersIn(log, q) : i = j
    /\ \A r \in Resumers :
         pc[r] \in {"resumed", "served"} /\ Answering(r)
           => GivenIn(log, claim[r].question) = {AnswerOf[r]}

DriverInv ==
    /\ TypeInv
    /\ Granted /\ OneClaimant /\ HolderIsCurrent /\ AnswersAgree
    /\ OneDriverPerVersion
-----------------------------------------------------------------------------
(* The log *)

LEMMA Said ==
    ASSUME NEW l \in Seq(Events), NEW s \in Seq(Events)
    PROVE  /\ l \o s \in Seq(Events)
           /\ \A r, types : Marks(l, r, types) \subseteq Marks(l \o s, r, types)
           /\ \A r, types : \A i \in Marks(l \o s, r, types) :
                i \in Marks(l, r, types)
                \/ (i > Len(l) /\ i - Len(l) \in Marks(s, r, types))
           /\ \A r, types : \A i \in Marks(s, r, types) :
                i + Len(l) \in Marks(l \o s, r, types)
           /\ \A q : AnswersIn(l, q) \subseteq AnswersIn(l \o s, q)
           /\ \A q : \A i \in AnswersIn(l \o s, q) :
                i \in AnswersIn(l, q)
                \/ (i > Len(l) /\ i - Len(l) \in AnswersIn(s, q))
           /\ \A i \in DOMAIN l : (l \o s)[i] = l[i]
<1> DEFINE k == l \o s
<1>1. k \in Seq(Events) /\ Len(k) = Len(l) + Len(s)
  OBVIOUS
<1>2. DOMAIN l = 1 .. Len(l) /\ DOMAIN s = 1 .. Len(s) /\ DOMAIN k = 1 .. Len(l) + Len(s)
      /\ Len(l) \in Nat /\ Len(s) \in Nat
  BY <1>1
<1>3. \A i \in 1 .. Len(l) : k[i] = l[i]
  BY <1>2
<1>4. \A i \in 1 .. Len(s) : k[i + Len(l)] = s[i]
  BY <1>2
<1>5. \A i \in DOMAIN k : i \in 1 .. Len(l)
                          \/ (i > Len(l) /\ i - Len(l) \in 1 .. Len(s) /\ k[i] = s[i - Len(l)])
  BY <1>2, <1>4
<1>6. \A i \in 1 .. Len(s) : i + Len(l) \in DOMAIN k
  BY <1>2
<1> HIDE DEF k
<1>7. \A r, types : Marks(l, r, types) \subseteq Marks(k, r, types)
  BY <1>2, <1>3 DEF Marks
<1>8. ASSUME NEW r, NEW types, NEW i \in Marks(k, r, types)
      PROVE  i \in Marks(l, r, types) \/ (i > Len(l) /\ i - Len(l) \in Marks(s, r, types))
  BY <1>2, <1>3, <1>5 DEF Marks
<1>9. ASSUME NEW r, NEW types, NEW i \in Marks(s, r, types)
      PROVE  i + Len(l) \in Marks(k, r, types)
  BY <1>2, <1>4, <1>6 DEF Marks
<1>10. \A q : AnswersIn(l, q) \subseteq AnswersIn(k, q)
  BY <1>2, <1>3 DEF AnswersIn
<1>11. ASSUME NEW q, NEW i \in AnswersIn(k, q)
       PROVE  i \in AnswersIn(l, q) \/ (i > Len(l) /\ i - Len(l) \in AnswersIn(s, q))
  BY <1>2, <1>3, <1>5 DEF AnswersIn
<1> QED
  BY <1>1, <1>2, <1>3, <1>7, <1>8, <1>9, <1>10, <1>11 DEF k

LEMMA MarksAreFinite ==
    ASSUME NEW l \in Seq(Events), NEW r, NEW types
    PROVE  IsFiniteSet(Marks(l, r, types)) /\ Cardinality(Marks(l, r, types)) \in Nat
<1>1. IsFiniteSet(1 .. Len(l))
  BY FS_Interval
<1>2. Marks(l, r, types) \in SUBSET (1 .. Len(l))
  BY DEF Marks
<1> QED  BY <1>1, <1>2, FS_Subset, FS_CardinalityType

LEMMA VersionIsNumber ==
    ASSUME NEW l \in Seq(Events), NEW r
    PROVE  VersionIn(l, r) \in Nat /\ VersionIn(l, r) >= 1
  BY MarksAreFinite DEF VersionIn

(* What resumes nothing leaves every version.                               *)
LEMMA VersionStays ==
    ASSUME NEW l \in Seq(Events), NEW s \in Seq(Events), NEW r,
           \A i \in DOMAIN s : s[i].run = r => s[i].type # "run/resumed"
    PROVE  VersionIn(l \o s, r) = VersionIn(l, r)
<1>1. Marks(s, r, {"run/resumed"}) = {}
  BY DEF Marks
<1>2. Marks(l, r, {"run/resumed"}) \subseteq Marks(l \o s, r, {"run/resumed"})
  BY Said
<1>3. \A i \in Marks(l \o s, r, {"run/resumed"}) : i \in Marks(l, r, {"run/resumed"})
  BY <1>1, Said
<1>4. Marks(l \o s, r, {"run/resumed"}) = Marks(l, r, {"run/resumed"})
  BY <1>2, <1>3
<1> QED  BY <1>4 DEF VersionIn

(* A resume raises the version of its run by one.                           *)
LEMMA VersionRises ==
    ASSUME NEW l \in Seq(Events), NEW r \in Runs \cup {NoRun}
    PROVE  /\ VersionIn(l \o <<Resumed(r)>>, r) = VersionIn(l, r) + 1
           /\ Known(l \o <<Resumed(r)>>, r)
<1> DEFINE s == <<Resumed(r)>>
           M(k, types) == Marks(k, r, types)
<1>1. s \in Seq(Events) /\ Len(s) = 1 /\ DOMAIN s = {1} /\ s[1] = Resumed(r)
  BY DEF Resumed, Events, Lifecycle, Opening
<1>2. M(s, {"run/resumed"}) = {1} /\ 1 \in M(s, Lifecycle)
  BY <1>1 DEF Marks, Resumed, Lifecycle, Opening
<1>3. Len(l) \in Nat /\ Len(l) + 1 \notin M(l, {"run/resumed"})
  BY DEF Marks
<1> HIDE DEF s
<1>4. \A i \in M(l \o s, {"run/resumed"}) : i \in M(l, {"run/resumed"}) \/ i - Len(l) = 1
  BY <1>1, <1>2, Said
<1>5. M(l \o s, {"run/resumed"}) \subseteq Int
  BY <1>1, Said DEF Marks
<1>6. 1 + Len(l) \in M(l \o s, {"run/resumed"}) /\ 1 + Len(l) \in M(l \o s, Lifecycle)
  BY <1>1, <1>2, Said
<1>7. M(l \o s, {"run/resumed"}) = M(l, {"run/resumed"}) \cup {Len(l) + 1}
  BY <1>1, <1>3, <1>4, <1>5, <1>6, Said
<1>8. Cardinality(M(l \o s, {"run/resumed"})) = Cardinality(M(l, {"run/resumed"})) + 1
  BY <1>3, <1>7, MarksAreFinite, FS_AddElement
<1> QED  BY <1>6, <1>8, MarksAreFinite DEF VersionIn, Known, s

LEMMA KnownStays ==
    ASSUME NEW l \in Seq(Events), NEW s \in Seq(Events), NEW r, Known(l, r)
    PROVE  Known(l \o s, r)
  BY Said DEF Known

LEMMA AnswersStay ==
    ASSUME NEW l \in Seq(Events), NEW s \in Seq(Events), NEW q, AnswersIn(s, q) = {}
    PROVE  AnswersIn(l \o s, q) = AnswersIn(l, q) /\ GivenIn(l \o s, q) = GivenIn(l, q)
<1>1. AnswersIn(l, q) \subseteq AnswersIn(l \o s, q)
  BY Said
<1>2. \A i \in AnswersIn(l \o s, q) : i \in AnswersIn(l, q)
  BY Said
<1>3. AnswersIn(l \o s, q) = AnswersIn(l, q)
  BY <1>1, <1>2
<1>4. \A i \in AnswersIn(l, q) : (l \o s)[i] = l[i]
  BY Said DEF AnswersIn
<1> QED  BY <1>3, <1>4 DEF GivenIn

(* The operators of RunLog in these terms.                                  *)
LEMMA InTermsOfLog ==
    ASSUME NEW r, NEW q, NEW a
    PROVE  /\ Version(r) = VersionIn(log, r)
           /\ Of(r, Lifecycle) = Marks(log, r, Lifecycle)
           /\ AnswersTo(q) = AnswersIn(log, q)
           /\ Conflicts(q, a) <=> \E b \in GivenIn(log, q) : b # a
           /\ AlreadyRecorded(q, a) <=> GivenIn(log, q) = {a}
<1>1. /\ Version(r) = VersionIn(log, r) /\ AnswersTo(q) = AnswersIn(log, q)
      /\ Of(r, Lifecycle) = Marks(log, r, Lifecycle)
  BY DEF Version, VersionIn, Of, Marks, AnswersTo, AnswersIn
<1>2. Conflicts(q, a) <=> \E b \in GivenIn(log, q) : b # a
  BY <1>1 DEF Conflicts, GivenIn
<1>3. AlreadyRecorded(q, a) <=> GivenIn(log, q) = {a}
  BY <1>1 DEF AlreadyRecorded, GivenIn
<1> QED  BY <1>1, <1>2, <1>3

(* What no version and no answer depends on.                                *)
LogKept ==
    /\ \A r : VersionIn(log', r) = VersionIn(log, r) /\ (Known(log, r) => Known(log', r))
    /\ \A q : AnswersIn(log', q) = AnswersIn(log, q) /\ GivenIn(log', q) = GivenIn(log, q)

LEMMA QuietKeeps ==
    ASSUME log \in Seq(Events), NEW s \in Seq(Events), IsQuiet(s), Says(s)
    PROVE  LogKept
<1>1. ASSUME NEW r PROVE VersionIn(log', r) = VersionIn(log, r) /\ (Known(log, r) => Known(log', r))
  BY VersionStays, KnownStays DEF IsQuiet, Says
<1>2. ASSUME NEW q PROVE AnswersIn(s, q) = {}
  BY DEF IsQuiet, AnswersIn
<1>3. ASSUME NEW q PROVE AnswersIn(log', q) = AnswersIn(log, q) /\ GivenIn(log', q) = GivenIn(log, q)
  BY <1>2, AnswersStay DEF Says
<1> QED  BY <1>1, <1>3 DEF LogKept

LEMMA UnsaidKeeps ==
    ASSUME Unsaid
    PROVE  LogKept
  BY DEF Unsaid, LogKept
-----------------------------------------------------------------------------
(* Types *)

LEMMA EventsAreTyped ==
    ASSUME NEW r \in Runs \cup {NoRun}, NEW q \in Questions \cup {NoQuestion}, NEW a \in Answers
    PROVE  {Started(r), Asked(r, q), Paused(r, q), Resumed(r), Ended(r), Answer(q, a)}
             \subseteq Events
  BY DEF Started, Asked, Paused, Resumed, Ended, Answer, Events, Lifecycle, Opening

LEMMA OneSaid ==
    ASSUME NEW e \in Events
    PROVE  /\ <<e>> \in Seq(Events)
           /\ DOMAIN <<e>> = {1} /\ <<e>>[1] = e /\ Len(<<e>>) = 1
  OBVIOUS

LEMMA TwoSaid ==
    ASSUME NEW a \in Events, NEW b \in Events
    PROVE  LET s == <<a>> \o <<b>>
           IN  s \in Seq(Events) /\ DOMAIN s = {1, 2} /\ s[1] = a /\ s[2] = b
<1> DEFINE s == <<a>> \o <<b>>
<1>1. s \in Seq(Events) /\ Len(s) = 2
  OBVIOUS
<1>2. s[1] = a /\ s[2] = b
  OBVIOUS
<1>3. DOMAIN s = 1 .. 2
  BY <1>1
<1> QED  BY <1>1, <1>2, <1>3

(* The ends that the scan writes.                                           *)
LEMMA EndsSaid ==
    LET s == SetToSeq({Ended(r) : r \in Unterminated})
    IN  /\ s \in Seq(Events) /\ \A i \in DOMAIN s : s[i].type = "run/ended"
        /\ \A r \in Unterminated : \E i \in DOMAIN s : s[i] = Ended(r)
<1> DEFINE E == {Ended(r) : r \in Unterminated}
           n == Cardinality(E)
           s == SetToSeq(E)
<1>1. IsFiniteSet(Unterminated)
  <2>1. IsFiniteSet(Runs)
    BY RunLogAssumption, FS_Interval DEF Runs
  <2> QED  BY <2>1, FS_Subset DEF Unterminated
<1>2. IsFiniteSet(E)
  <2>1. [r \in Unterminated |-> Ended(r)] \in Surjection(Unterminated, E)
    BY DEF Surjection
  <2> QED  BY <1>1, <2>1, FS_Surjection
<1>3. n \in Nat /\ \E f \in [1 .. n -> E] : IsInjective(f)
  BY <1>2, FS_CardinalityType DEF ExistsBijection, Bijection, Injection
<1>4. s \in [1 .. n -> E] /\ IsInjective(s)
  BY <1>3 DEF SetToSeq
<1>5. E \subseteq Events /\ \A e \in E : e.type = "run/ended"
  <2>1. SUFFICES ASSUME NEW r \in Unterminated
                 PROVE  Ended(r) \in Events /\ Ended(r).type = "run/ended"
    OBVIOUS
  <2> QED  BY DEF Unterminated, Ended, Events, Lifecycle, Opening
<1> HIDE DEF E, n, s
<1>6. s \in Seq(Events) /\ DOMAIN s = 1 .. n
  BY <1>3, <1>4, <1>5
<1>7. \A e \in E : \E i \in DOMAIN s : s[i] = e
  <2>1. s \in Injection(1 .. n, E)
    BY <1>4 DEF Injection, IsInjective
  <2>2. IsFiniteSet(1 .. n) /\ Cardinality(1 .. n) = Cardinality(E)
    BY <1>3, FS_Interval DEF n
  <2>3. s \in Surjection(1 .. n, E)
    BY <1>2, <2>1, <2>2, FS_Injection
  <2> QED  BY <1>6, <2>3 DEF Surjection
<1>8. \A r \in Unterminated : \E i \in DOMAIN s : s[i] = Ended(r)
  BY <1>7 DEF E
<1> QED  BY <1>4, <1>5, <1>6, <1>8 DEF s, E

LEMMA LogGrows ==
    ASSUME TypeOK, NEW s \in Seq(Events), Says(s)
    PROVE  LogTypeOK' /\ Len(log') = Len(log) + Len(s) /\ Len(log') \in Nat
  BY DEF TypeOK, LogTypeOK, Says

LEMMA UnrecordedIsTyped ==
    ASSUME TypeOK, NEW r \in Resumers
    PROVE  /\ Unrecorded(r) \in Seq(Events)
           /\ Unrecorded(r) = <<>> \/ Unrecorded(r) = <<Answer(claim[r].question, AnswerOf[r])>>
<1>1. claim[r].question \in Questions \cup {NoQuestion} /\ AnswerOf[r] \in Answers
  BY PausedRunAssumption DEF TypeOK
<1>2. Answer(claim[r].question, AnswerOf[r]) \in Events
  BY <1>1, EventsAreTyped DEF NoRun
<1> QED  BY <1>2, OneSaid DEF Unrecorded

LEMMA VersionIsTyped ==
    ASSUME TypeOK, NEW r
    PROVE  Version(r) \in Nat
<1>1. VersionIn(log, r) \in Nat
  BY VersionIsNumber DEF TypeOK, LogTypeOK
<1> QED  BY <1>1 DEF Version, VersionIn, Of, Marks

(* A request goes on.                                                       *)
LEMMA Going ==
    ASSUME TypeOK, NEW r \in Requests, NEW place \in Places, Goes(r, place)
    PROVE  /\ pc' \in [Requests -> Places] /\ pc'[r] = place
           /\ \A s \in Requests \ {r} : pc'[s] = pc[s]
  BY DEF TypeOK, Goes

(* ... or is over.                                                          *)
LEMMA Refusing ==
    ASSUME TypeOK, NEW r \in Resumers, Refuse(r) \/ Fail(r)
    PROVE  /\ pc' \in [Requests -> Places] /\ claim' \in ClaimType
           /\ timer' \in Questions \cup {NoQuestion}
           /\ \/ pc'[r] = "idle" /\ claim'[r] = NoClaim
              \/ pc'[r] = "failed" /\ claim'[r] = claim[r] /\ r \in Clients
           /\ \A s \in Requests \ {r} : pc'[s] = pc[s]
           /\ \A s \in Resumers \ {r} : claim'[s] = claim[s]
<1>1. claim \in ClaimType /\ r \in Requests
  BY DEF TypeOK, ClaimType, Requests
<1>2. NoClaim \in [run : Runs \cup {NoRun}, version : Nat, question : Questions \cup {NoQuestion}]
  BY DEF NoClaim
<1>3. CASE Refuse(r)
  BY <1>1, <1>2, <1>3, Going DEF Refuse, Places, ClaimType, TypeOK
<1>4. CASE Fail(r) /\ r # Ticker
  BY <1>1, <1>4, Going DEF Fail, Places, TypeOK, Resumers
<1> QED  BY <1>3, <1>4 DEF Fail

LEMMA LaunchIsTyped ==
    ASSUME TypeOK, NEW run \in Runs \cup {NoRun}, NEW v \in Nat, Launch(run, v)
    PROVE  /\ slot' \in Execs
           /\ exec' \in ExecType
           /\ crossed' \in BOOLEAN
<1>1. NextExec \in UnusedExecs
  BY DEF Launch, NextExec
<1>2. slot' \in Execs
  BY <1>1 DEF Launch, UnusedExecs
<1>3. [run |-> run, version |-> v, stage |-> "launched"]
        \in [run : Runs \cup {NoRun}, version : Nat, stage : Stages]
  BY DEF Stages
<1>4. exec' \in ExecType
  BY <1>3 DEF Launch, TypeOK, ExecType
<1>5. crossed' \in BOOLEAN
  BY DEF Launch, TypeOK
<1> QED  BY <1>2, <1>4, <1>5

LEMMA MovesIsTyped ==
    ASSUME TypeOK, NEW x \in Execs, NEW from, NEW to \in Stages, Moves(x, from, to)
    PROVE  exec' \in ExecType
  BY DEF TypeOK, Moves, ExecType

LEMMA InitTyped == Init => TypeInv
<1> SUFFICES ASSUME Init PROVE TypeInv
  OBVIOUS
<1>1. LogTypeOK
  BY DEF Init, LogTypeOK
<1>2. TypeOK
  BY <1>1 DEF Init, TypeOK, Unlaunched, NoClaim, Stages, Places
<1>3. ClaimsARun
  BY DEF Init, ClaimsARun, Resuming, Requests
<1> QED  BY <1>2, <1>3 DEF TypeInv

LEMMA ResumeTyped ==
    ASSUME TypeInv, NEW r \in Resumers, Claim(r) \/ Proceeds(r)
    PROVE  TypeInv'
<1> USE DEF TypeInv
<1> DEFINE T == /\ LogTypeOK'
                /\ slot' \in Execs \cup {NoExec} /\ exec' \in ExecType /\ crossed' \in BOOLEAN
                /\ seen' \in Nat /\ lock' \in Resumers \cup {Nobody}
                /\ faults' \in Nat /\ cut' \subseteq Runs
                /\ UNCHANGED <<up, crashes, dropped>>
<1>a. r \in Requests /\ Resumers \subseteq Requests
  BY DEF Requests
<1>b. claim \in ClaimType /\ claim[r].run \in Runs \cup {NoRun} /\ claim[r].version + 1 \in Nat
      /\ claim[r].question \in Questions \cup {NoQuestion} /\ Len(log) \in Nat
  BY DEF TypeOK, LogTypeOK, ClaimType
<1>c. ASSUME T, Refuse(r) \/ Fail(r) PROVE TypeInv'
  <2>1. TypeOK'
    BY <1>c, Refusing DEF TypeOK, ExecType, ClaimType
  <2>2. ClaimsARun'
    BY <1>a, <1>c, Refusing DEF ClaimsARun, Resuming
  <2> QED  BY <2>1, <2>2
<1>d. ASSUME T, NEW place \in Places, Goes(r, place), UNCHANGED <<claim, timer>>,
             place \in Resuming => claim[r].run \in Runs
      PROVE  TypeInv'
  <2>1. TypeOK'
    BY <1>a, <1>b, <1>d, Going DEF TypeOK, ExecType, ClaimType
  <2>2. ClaimsARun'
    BY <1>a, <1>d, Going DEF ClaimsARun
  <2> QED  BY <2>1, <2>2
<1> USE DEF T
<1>1. CASE Claim(r)
  <2>1. claim' \in ClaimType /\ claim'[r].run \in Runs
        /\ \A s \in Resumers \ {r} : claim'[s] = claim[s]
    BY <1>1, VersionIsTyped DEF Claim, TypeOK, ClaimType, ClaimsARun
  <2>2. /\ pc' \in [Requests -> Places]
        /\ \A s \in Requests \ {r} : pc'[s] = pc[s]
    BY <1>a, <1>1, Going DEF Claim, Places
  <2>3. TypeOK'
    BY <1>1, <2>1, <2>2 DEF Claim, TypeOK, LogTypeOK, ClaimType, boundVars, historyVars
  <2>4. ClaimsARun'
    BY <1>a, <2>1, <2>2 DEF ClaimsARun
  <2> QED  BY <2>3, <2>4
<1>2. CASE Plan(r)
  <2>1. T
    BY <1>2 DEF Plan, TypeOK, LogTypeOK, ExecType, boundVars, historyVars
  <2> QED  BY <1>2, <1>c, <1>d, <2>1 DEF Plan, Places, Resuming, ClaimsARun
<1>3. CASE CommitRead(r)
  <2>1. T
    BY <1>3 DEF CommitRead, TypeOK, LogTypeOK, ExecType, boundVars, historyVars
  <2> QED  BY <1>3, <1>c, <1>d, <2>1 DEF CommitRead, Places, Resuming, ClaimsARun
<1>4. CASE LoadAggregate(r)
  <2> DEFINE run == claim[r].run
             q   == claim[r].question
  <2>1. <<Paused(run, q)>> \in Seq(Events) /\ Len(<<Paused(run, q)>>) = 1
    BY <1>b, OneSaid DEF Paused, Events, Lifecycle, Opening
  <2>2. LogTypeOK'
    BY <1>4, <2>1, LogGrows DEF LoadAggregate, Unsaid, TypeOK, LogTypeOK
  <2>3. T
    BY <1>4, <1>b, <2>2 DEF LoadAggregate, Loaded, Release, TypeOK, ExecType, boundVars, historyVars
  <2> QED  BY <1>4, <1>c, <1>d, <2>3 DEF LoadAggregate, Loaded, Places, Resuming, ClaimsARun
<1>5. CASE Commit(r)
  <2>1. Unrecorded(r) \o <<Resumed(claim[r].run)>> \in Seq(Events)
    <3>1. Resumed(claim[r].run) \in Events
      BY <1>b DEF Resumed, Events, Lifecycle, Opening
    <3> QED  BY <3>1, OneSaid, UnrecordedIsTyped
  <2>2. LogTypeOK'
    BY <1>5, <2>1, LogGrows DEF Commit
  <2>3. T
    BY <1>5, <2>2 DEF Commit, Release, TypeOK, ExecType, boundVars, historyVars
  <2> QED  BY <1>5, <1>d, <2>3 DEF Commit, Places, Resuming, ClaimsARun
<1>6. CASE CommitTorn(r)
  <2>1. LogTypeOK'
    BY <1>6, UnrecordedIsTyped, LogGrows DEF CommitTorn
  <2>2. T
    BY <1>6, <2>1 DEF CommitTorn, Fails, Release, TypeOK, ExecType, historyVars
  <2> QED  BY <1>6, <1>c, <2>2 DEF CommitTorn
<1>7. CASE CommitConflict(r) \/ CommitFails(r)
  <2>1. T
    BY <1>7 DEF CommitConflict, CommitFails, Fails, Release, TypeOK, LogTypeOK, ExecType,
                boundVars, historyVars
  <2> QED  BY <1>7, <1>c, <2>1 DEF CommitConflict, CommitFails
<1>8. CASE LaunchResumed(r)
  <2>1. slot' \in Execs /\ exec' \in ExecType /\ crossed' \in BOOLEAN
    BY <1>8, <1>b, LaunchIsTyped DEF LaunchResumed
  <2>2. T
    BY <1>8, <2>1 DEF LaunchResumed, TypeOK, LogTypeOK, boundVars
  <2>3. CASE r # Ticker
    BY <1>8, <1>d, <2>2, <2>3 DEF LaunchResumed, Places, Resuming
  <2>4. CASE r = Ticker
    <3>1. Goes(r, "idle") /\ claim' = [claim EXCEPT ![r] = NoClaim]
          /\ timer' \in Questions \cup {NoQuestion}
      BY <1>8, <2>4 DEF LaunchResumed, TypeOK
    <3>2. claim' \in ClaimType /\ claim'[r] = NoClaim
          /\ \A s \in Resumers \ {r} : claim'[s] = claim[s]
      BY <1>b, <3>1 DEF ClaimType, NoClaim
    <3>3. pc' \in [Requests -> Places] /\ pc'[r] = "idle"
          /\ \A s \in Requests \ {r} : pc'[s] = pc[s]
      BY <1>a, <3>1, Going DEF Places
    <3>4. TypeOK'
      BY <2>2, <3>1, <3>2, <3>3 DEF TypeOK, ExecType, ClaimType
    <3>5. ClaimsARun'
      BY <1>a, <3>2, <3>3 DEF ClaimsARun, Resuming
    <3> QED  BY <3>4, <3>5
  <2> QED  BY <2>3, <2>4
<1>9. CASE LaunchFails(r)
  <2>1. claim[r].run \in Runs
    BY <1>9 DEF LaunchFails, ClaimsARun, Resuming
  <2>2. T
    BY <1>9, <2>1 DEF LaunchFails, Fails, TypeOK, LogTypeOK, ExecType
  <2> QED  BY <1>9, <1>c, <2>2 DEF LaunchFails
<1> QED
  BY <1>1, <1>2, <1>3, <1>4, <1>5, <1>6, <1>7, <1>8, <1>9 DEF Proceeds, CommitEnds

LEMMA TaskTyped ==
    ASSUME TypeInv, NEW k \in Tasks, Look(k) \/ TaskLaunch(k)
    PROVE  TypeInv'
<1> USE DEF TypeInv
<1>0. k \in Requests /\ k \notin Resumers /\ Resumers \subseteq Requests
  BY PausedRunAssumption DEF Requests, Resumers
<1>1. CASE Look(k)
  BY <1>0, <1>1 DEF Look, Goes, TypeOK, LogTypeOK, ClaimsARun, Places, boundVars, historyVars
<1>2. CASE TaskLaunch(k)
  <2>1. /\ slot' \in Execs \cup {NoExec} /\ crossed' \in BOOLEAN
        /\ exec' \in ExecType
    BY <1>2, LaunchIsTyped DEF TaskLaunch, TypeOK, ExecType
  <2>2. TypeOK'
    BY <1>0, <1>2, <2>1 DEF TaskLaunch, Goes, TypeOK, LogTypeOK, ExecType, Places, boundVars
  <2>3. ClaimsARun'
    BY <1>0, <1>2 DEF TaskLaunch, Goes, TypeOK, ClaimsARun
  <2> QED  BY <2>2, <2>3
<1> QED  BY <1>1, <1>2

LEMMA ExecutionTyped ==
    ASSUME TypeInv, NEW x \in Execs, Drives(x) \/ EndsUnsaid(x)
    PROVE  TypeInv'
<1> USE DEF TypeInv
<1>0. exec[x].run \in Runs \cup {NoRun}
  BY DEF TypeOK
<1>1. CASE Begin(x)
  <2>1. exec' \in ExecType
    <3>1. exec \in ExecType /\ exec[x] \in [run : Runs \cup {NoRun}, version : Nat, stage : Stages]
          /\ "live" \in Stages
      BY DEF TypeOK, ExecType, Stages
    <3>2. ASSUME NEW r \in Runs, exec' = [exec EXCEPT ![x].run = r, ![x].stage = "live"]
          PROVE  exec' \in ExecType
      <4>1. \A y \in Execs \ {x} : exec'[y] = exec[y]
        BY <3>1, <3>2 DEF ExecType
      <4>2. exec'[x] \in [run : Runs \cup {NoRun}, version : Nat, stage : Stages]
        BY <3>1, <3>2 DEF ExecType
      <4>3. exec' = [y \in Execs |-> exec'[y]]
        BY <3>1, <3>2 DEF ExecType
      <4> QED  BY <3>1, <4>1, <4>2, <4>3 DEF ExecType
    <3>3. ASSUME exec' = [exec EXCEPT ![x].stage = "live"] PROVE exec' \in ExecType
      BY <3>1, <3>3 DEF ExecType
    <3> QED  BY <1>1, <3>2, <3>3 DEF Begin, UnusedRuns
  <2>2. LogTypeOK'
    <3>1. ASSUME NEW r \in Runs, Says(<<Started(r)>>) PROVE LogTypeOK'
      <4>1. Started(r) \in Events
        BY DEF Started, Events, Lifecycle, Opening
      <4> QED  BY <3>1, <4>1, OneSaid, LogGrows
    <3> QED  BY <1>1, <3>1 DEF Begin, Unsaid, TypeOK, LogTypeOK, UnusedRuns
  <2>3. TypeOK' /\ ClaimsARun'
    BY <1>1, <2>1, <2>2 DEF Begin, TypeOK, ExecType, ClaimsARun, requestVars, boundVars, historyVars
  <2> QED  BY <2>3
<1>2. CASE Ask(x)
  <2>1. exec' \in ExecType
    BY <1>2, MovesIsTyped DEF Ask, Stages
  <2>2. LogTypeOK' /\ timer' \in Questions
    <3>1. ASSUME NEW q \in Questions, Says(<<Asked(exec[x].run, q)>>) PROVE LogTypeOK'
      <4>1. Asked(exec[x].run, q) \in Events
        BY <1>0 DEF Asked, Events
      <4> QED  BY <3>1, <4>1, OneSaid, LogGrows
    <3> QED  BY <1>2, <3>1 DEF Ask, UnusedQuestions
  <2>3. TypeOK' /\ ClaimsARun'
    BY <1>2, <2>1, <2>2 DEF Ask, Moves, Works, TypeOK, ExecType, ClaimsARun, requestVars
  <2> QED  BY <2>3
<1>3. CASE Pause(x)
  <2>1. exec' \in ExecType
    BY <1>3, MovesIsTyped DEF Pause, Stages
  <2>2. LogTypeOK'
    <3>1. ASSUME NEW q \in Questions \cup {NoQuestion}, Says(<<Paused(exec[x].run, q)>>)
          PROVE  LogTypeOK'
      <4>1. Paused(exec[x].run, q) \in Events
        BY <1>0 DEF Paused, Events, Lifecycle, Opening
      <4> QED  BY <3>1, <4>1, OneSaid, LogGrows
    <3> QED  BY <1>3, <3>1 DEF Pause
  <2>3. TypeOK' /\ ClaimsARun'
    BY <1>3, <2>1, <2>2 DEF Pause, Moves, Works, TypeOK, ExecType, ClaimsARun, requestVars
  <2> QED  BY <2>3
<1>4. CASE End(x)
  <2>1. exec' \in ExecType
    BY <1>4, MovesIsTyped DEF End, Stages
  <2>2. LogTypeOK'
    <3>1. Ended(exec[x].run) \in Events
      BY <1>0 DEF Ended, Events, Lifecycle, Opening
    <3> QED  BY <1>4, <3>1, OneSaid, LogGrows DEF End
  <2>3. TypeOK' /\ ClaimsARun'
    BY <1>4, <2>1, <2>2 DEF End, Moves, Works, TypeOK, ExecType, ClaimsARun, requestVars
  <2> QED  BY <2>3
<1>5. CASE TaskDone(x)
  <2>1. exec' \in ExecType
    BY <1>5, MovesIsTyped DEF TaskDone, Stages
  <2>2. TypeOK' /\ ClaimsARun'
    BY <1>5, <2>1 DEF TaskDone, Moves, Works, Unsaid, TypeOK, LogTypeOK, ExecType, ClaimsARun,
                    requestVars
  <2> QED  BY <2>2
<1>6. CASE EndsUnsaid(x)
  <2>1. exec' \in ExecType
    BY <1>6, MovesIsTyped DEF EndsUnsaid, Stages
  <2>2. TypeOK' /\ ClaimsARun'
    BY <1>0, <1>6, <2>1 DEF EndsUnsaid, Moves, Works, Fails, Unsaid, TypeOK, LogTypeOK,
                            ExecType, ClaimsARun, requestVars
  <2> QED  BY <2>2
<1> QED  BY <1>1, <1>2, <1>3, <1>4, <1>5, <1>6 DEF Drives

LEMMA TimeoutTyped ==
    ASSUME TypeInv, Expire \/ Resolve
    PROVE  TypeInv'
<1> USE DEF TypeInv
<1>0. Ticker \in Requests /\ Ticker \in Resumers /\ Ticker \notin Clients
      /\ Resumers \subseteq Requests
  BY PausedRunAssumption DEF Requests, Resumers
<1>1. CASE Expire
  <2>a. claim' \in ClaimType
    <3>1. claim \in ClaimType /\ timer \in Questions \cup {NoQuestion}
      BY DEF TypeOK, ClaimType
    <3>2. ASSUME NEW c \in [run : Runs \cup {NoRun}, version : Nat,
                           question : Questions \cup {NoQuestion}],
                 claim' = [claim EXCEPT ![Ticker] = c]
          PROVE  claim' \in ClaimType
      BY <3>1, <3>2 DEF ClaimType
    <3>3. \A run \in Runs : Version(run) \in Nat
      BY VersionIsTyped
    <3>4. [NoClaim EXCEPT !.question = timer]
            \in [run : Runs \cup {NoRun}, version : Nat, question : Questions \cup {NoQuestion}]
      BY <3>1 DEF NoClaim
    <3> QED  BY <1>1, <3>1, <3>2, <3>3, <3>4 DEF Expire
  <2>b. pc' \in [Requests -> Places]
    BY <1>0, <1>1, Going DEF Expire, Places
  <2>1. TypeOK'
    BY <1>1, <2>a, <2>b DEF Expire, TypeOK, LogTypeOK, ClaimType, boundVars, historyVars
  <2>2. ClaimsARun'
    BY <1>0, <1>1 DEF Expire, Goes, TypeOK, ClaimsARun, Resuming
  <2> QED  BY <2>1, <2>2
<1>2. CASE Resolve
  BY <1>0, <1>2 DEF Resolve, Goes, TypeOK, LogTypeOK, ClaimsARun, Places, Resuming, NoClaim,
                    boundVars, historyVars
<1> QED  BY <1>1, <1>2

LEMMA ProcessTyped ==
    ASSUME TypeInv, Crash \/ Start
    PROVE  TypeInv'
<1> USE DEF TypeInv
<1>0. Ticker \in Resumers /\ Ticker \notin Clients /\ Resumers \subseteq Requests
  BY PausedRunAssumption DEF Requests, Resumers
<1>1. CASE Crash
  <2>1. exec' \in ExecType
    BY <1>1 DEF Crash, TypeOK, ExecType, Stages
  <2>2. pc' \in [Requests -> Places]
    BY <1>1 DEF Crash, TypeOK, Places
  <2>c. claim' \in ClaimType
    <3>1. claim \in ClaimType /\ claim' = [claim EXCEPT ![Ticker] = NoClaim]
      BY <1>1 DEF Crash, TypeOK, ClaimType
    <3> QED  BY <3>1 DEF ClaimType, NoClaim
  <2>d. /\ slot' = NoExec /\ lock' = Nobody /\ seen' = 0 /\ timer' = NoQuestion
        /\ up' = FALSE /\ crossed' = FALSE /\ crashes' = crashes + 1
        /\ UNCHANGED <<log, faults, cut, dropped>>
    BY <1>1 DEF Crash, Release
  <2>e. LogTypeOK' /\ crashes' \in Nat /\ faults' \in Nat /\ cut' \subseteq Runs
        /\ dropped' \subseteq Questions
    BY <2>d DEF TypeOK, LogTypeOK
  <2>3. TypeOK'
    BY <2>1, <2>2, <2>c, <2>d, <2>e DEF TypeOK, ExecType, ClaimType
  <2>4. ASSUME NEW r \in Resumers, r # Ticker
        PROVE  pc'[r] \notin Resuming /\ claim'[r] = claim[r]
    BY <1>0, <1>1, <2>4 DEF Crash, TypeOK, Resuming
  <2>5. pc'[Ticker] \notin Resuming
    BY <1>0, <1>1 DEF Crash, Resuming
  <2>6. ClaimsARun'
    BY <1>0, <2>4, <2>5 DEF ClaimsARun
  <2> QED  BY <2>3, <2>6
<1>2. CASE Start
  <2>1. LogTypeOK'
    <3>1. ASSUME NEW r \in Runs, NEW q \in Questions, Says(<<Paused(r, q)>>) PROVE LogTypeOK'
      <4>1. Paused(r, q) \in Events
        BY DEF Paused, Events, Lifecycle, Opening
      <4> QED  BY <3>1, <4>1, OneSaid, LogGrows
    <3>2. ASSUME Says(SetToSeq({Ended(r) : r \in Unterminated})) PROVE LogTypeOK'
      BY <3>2, EndsSaid, LogGrows
    <3> QED  BY <1>2, <3>1, <3>2 DEF Start, Scan, Unsaid, TypeOK, LogTypeOK, Unterminated
  <2>2. cut' \subseteq Runs /\ faults' \in Nat
    BY <1>2 DEF Start, Scan, Fails, Works, Unterminated, TypeOK
  <2>3. timer' \in Questions \cup {NoQuestion} /\ dropped' \subseteq Questions
    BY <1>2 DEF Start, RestoreTimer, TypeOK
  <2>4. TypeOK' /\ ClaimsARun'
    BY <1>2, <2>1, <2>2, <2>3 DEF Start, TypeOK, ExecType, ClaimsARun, requestVars
  <2> QED  BY <2>4
<1> QED  BY <1>1, <1>2

LEMMA StepTyped ==
    ASSUME TypeInv, [Next]_vars
    PROVE  TypeInv'
<1>1. CASE Next
  BY <1>1, ResumeTyped, TaskTyped, ExecutionTyped, TimeoutTyped, ProcessTyped DEF Next
<1>2. CASE UNCHANGED vars
  BY <1>2 DEF TypeInv, TypeOK, LogTypeOK, ClaimsARun, vars, requestVars, boundVars, historyVars
<1> QED  BY <1>1, <1>2

(* Every variable keeps its type.                                           *)
THEOREM TypeCorrect == Spec => []TypeOK
<1>1. TypeInv => TypeOK
  BY DEF TypeInv
<1> QED  BY <1>1, InitTyped, StepTyped, PTL DEF Spec
-----------------------------------------------------------------------------
(* One driver for a version and one answer for a question *)

LEMMA InitDriven == Init => DriverInv
<1> SUFFICES ASSUME Init PROVE DriverInv
  OBVIOUS
<1>1. TypeInv
  BY InitTyped
<1>2. \A x \in Execs : exec[x].run = NoRun /\ exec[x].version = 0
  BY DEF Init, Unlaunched
<1>3. \A r \in Resumers : pc[r] = "idle"
  BY DEF Init, Requests
<1>4. \A q : AnswersIn(log, q) = {}
  BY DEF Init, AnswersIn
<1> QED
  BY <1>1, <1>2, <1>3, <1>4 DEF DriverInv, Granted, OneClaimant, HolderIsCurrent, AnswersAgree,
                                OneDriverPerVersion

(* Steps that neither launch, nor grant a version, nor answer.              *)
ExecsKept == \A x \in Execs : exec'[x].run = exec[x].run /\ exec'[x].version = exec[x].version

Waits(r) ==
    /\ pc'[r] \in {"read", "loaded"} =>
         pc[r] \in {"read", "loaded"} /\ claim'[r] = claim[r] /\ lock' = lock
    /\ pc'[r] \in {"resumed", "served"} => pc[r] = pc'[r] /\ claim'[r] = claim[r]

LEMMA Kept ==
    ASSUME DriverInv, TypeInv', LogKept, ExecsKept, \A r \in Resumers : Waits(r)
    PROVE  DriverInv'
<1> USE DEF DriverInv
<1>1. Granted'
  BY DEF Granted, LogKept, ExecsKept, Waits
<1>2. OneClaimant'
  BY DEF OneClaimant, ExecsKept, Waits
<1>3. HolderIsCurrent'
  BY DEF HolderIsCurrent, LogKept, Waits, Answering
<1>4. AnswersAgree'
  BY DEF AnswersAgree, LogKept, Waits, Answering
<1>5. OneDriverPerVersion'
  BY DEF OneDriverPerVersion, ExecsKept
<1> QED  BY <1>1, <1>2, <1>3, <1>4, <1>5

(* Only the holder of the lock stands between its two halves.               *)
LEMMA OneHolder ==
    ASSUME DriverInv, NEW r \in Resumers, NEW s \in Resumers \ {r},
           pc[r] \in {"read", "loaded"} \/ ~Locked
    PROVE  pc[s] \notin {"read", "loaded"}
  BY PausedRunAssumption DEF DriverInv, HolderIsCurrent, Locked, Requests

(* The answer that an attempt adds is the first.                            *)
AddsAnswer(r, l) ==
    /\ l \in Seq(Events)
    /\ \A run : VersionIn(l, run) = VersionIn(log, run) /\ (Known(log, run) => Known(l, run))
    /\ \A q \in Questions : \A i, j \in AnswersIn(l, q) : i = j
    /\ \A q : GivenIn(log, q) # {} => GivenIn(l, q) = GivenIn(log, q)
    /\ Answering(r) => GivenIn(l, claim[r].question) = {AnswerOf[r]}

LEMMA AnswerSaid ==
    ASSUME DriverInv, NEW r \in Resumers, pc[r] = "loaded"
    PROVE  AddsAnswer(r, log \o Unrecorded(r))
<1> DEFINE u == Unrecorded(r)
           l == log \o u
           p == claim[r].question
           a == AnswerOf[r]
<1>1. log \in Seq(Events) /\ u \in Seq(Events) /\ l \in Seq(Events)
  BY UnrecordedIsTyped, Said DEF DriverInv, TypeInv, TypeOK, LogTypeOK
<1>2. u = <<>> \/ u = <<Answer(p, a)>>
  BY UnrecordedIsTyped DEF DriverInv, TypeInv
<1>3. \A i \in DOMAIN u : u[i].type = "user/message" /\ u[i].question = p /\ u[i].answer = a
  BY <1>2 DEF Answer
<1>4. Answering(r) => GivenIn(log, p) \subseteq {a}
  BY DEF DriverInv, HolderIsCurrent
<1>5. CASE u = <<>>
  <2>1. l = log
    BY <1>1, <1>5
  <2>2. Answering(r) => AlreadyRecorded(p, a)
    BY <1>5 DEF Unrecorded
  <2>3. Answering(r) => GivenIn(log, p) = {a}
    BY <2>2, InTermsOfLog
  <2> QED  BY <1>1, <2>1, <2>3 DEF DriverInv, AnswersAgree, AddsAnswer
<1>6. CASE u # <<>>
  <2>1. Answering(r) /\ ~AlreadyRecorded(p, a)
    BY <1>6 DEF Unrecorded
  <2>2. GivenIn(log, p) # {a}
    BY <2>1, InTermsOfLog
  <2>3. GivenIn(log, p) = {}
    BY <1>4, <2>1, <2>2
  <2>4. AnswersIn(log, p) = {}
    BY <2>3 DEF GivenIn
  <2>5. u = <<Answer(p, a)>> /\ DOMAIN u = {1} /\ AnswersIn(u, p) = {1}
        /\ \A q : q # p => AnswersIn(u, q) = {}
    BY <1>2, <1>6 DEF AnswersIn, Answer
  <2> HIDE DEF u
  <2>6. ASSUME NEW run PROVE VersionIn(l, run) = VersionIn(log, run) /\ (Known(log, run) => Known(l, run))
    BY <1>1, <1>3, VersionStays, KnownStays
  <2>7. ASSUME NEW q, q # p PROVE AnswersIn(l, q) = AnswersIn(log, q) /\ GivenIn(l, q) = GivenIn(log, q)
    <3>1. AnswersIn(u, q) = {}
      BY <2>5, <2>7
    <3> QED  BY <1>1, <3>1, AnswersStay
  <2>8. AnswersIn(l, p) = {1 + Len(log)}
    <3>1. 1 + Len(log) \in AnswersIn(l, p)
      <4>1. DOMAIN l = 1 .. Len(log) + 1 /\ l[Len(log) + 1] = u[1]
        BY <1>1, <2>5
      <4> QED  BY <1>1, <1>3, <2>5, <4>1 DEF AnswersIn
    <3>2. \A i \in AnswersIn(l, p) : i - Len(log) = 1 /\ i \in Int
      BY <1>1, <2>4, <2>5, Said DEF AnswersIn
    <3> QED  BY <1>1, <3>1, <3>2
  <2>9. GivenIn(l, p) = {a}
    <3>1. l[1 + Len(log)].answer = a
      <4>1. l[Len(log) + 1] = u[1]
        BY <1>1, <2>5
      <4> QED  BY <1>1, <1>3, <2>5, <4>1
    <3> QED  BY <2>8, <3>1 DEF GivenIn
  <2>10. \A q \in Questions : \A i, j \in AnswersIn(l, q) : i = j
    BY <2>7, <2>8 DEF DriverInv, AnswersAgree
  <2>11. \A q : GivenIn(log, q) # {} => GivenIn(l, q) = GivenIn(log, q)
    BY <2>3, <2>7
  <2> QED  BY <1>1, <2>6, <2>9, <2>10, <2>11 DEF AddsAnswer, u
<1> QED  BY <1>5, <1>6

LEMMA CommitDriven ==
    ASSUME DriverInv, TypeInv', NEW r \in Resumers, Commit(r)
    PROVE  DriverInv'
<1> DEFINE l   == log \o Unrecorded(r)
           run == claim[r].run
           e   == <<Resumed(run)>>
<1> USE DEF DriverInv
<1>1. pc[r] = "loaded" /\ r \in Requests /\ Resumers \subseteq Requests /\ lock = r
  BY DEF Commit, Requests, HolderIsCurrent
<1>2. run \in Runs /\ claim[r].version \in Nat /\ claim[r].version = VersionIn(log, run)
  BY <1>1 DEF TypeInv, TypeOK, ClaimsARun, Resuming, HolderIsCurrent
<1>3. AddsAnswer(r, l)
  BY <1>1, AnswerSaid
<1>4. e \in Seq(Events) /\ DOMAIN e = {1} /\ e[1] = Resumed(run)
  BY <1>2 DEF Resumed, Events, Lifecycle, Opening
<1>5. log' = l \o e
  <2>1. log \in Seq(Events) /\ Unrecorded(r) \in Seq(Events)
    BY UnrecordedIsTyped DEF TypeInv, TypeOK, LogTypeOK
  <2> QED  BY <1>4, <2>1 DEF Commit, Says
<1>6. VersionIn(log', run) = VersionIn(log, run) + 1 /\ Known(log', run)
  BY <1>2, <1>3, <1>5, VersionRises DEF AddsAnswer
<1>7. ASSUME NEW other, other # run
      PROVE  VersionIn(log', other) = VersionIn(log, other)
             /\ (Known(log, other) => Known(log', other))
  <2>1. \A i \in DOMAIN e : e[i].run = other => e[i].type # "run/resumed"
    BY <1>4, <1>7 DEF Resumed
  <2>2. VersionIn(l \o e, other) = VersionIn(l, other)
    BY <1>3, <1>4, <2>1, VersionStays DEF AddsAnswer
  <2>3. Known(l, other) => Known(l \o e, other)
    BY <1>3, <1>4, KnownStays DEF AddsAnswer
  <2> QED  BY <1>3, <1>5, <2>2, <2>3 DEF AddsAnswer
<1>8. ASSUME NEW q PROVE AnswersIn(log', q) = AnswersIn(l, q) /\ GivenIn(log', q) = GivenIn(l, q)
  <2>1. AnswersIn(e, q) = {}
    BY <1>4 DEF AnswersIn, Resumed
  <2> QED  BY <1>3, <1>4, <1>5, <2>1, AnswersStay DEF AddsAnswer
<1> HIDE DEF l, e
<1>9. /\ pc'[r] = "resumed" /\ \A s \in Resumers \ {r} : pc'[s] = pc[s]
      /\ claim' = claim /\ exec' = exec
  BY <1>1, Going DEF Commit, Places, TypeInv
<1>10. \A s \in Resumers \ {r} : pc'[s] \notin {"read", "loaded"}
  BY <1>1, <1>9, OneHolder
<1>11. NoRun \notin Runs
  BY DEF NoRun, Runs
<1>12. VersionIn(log, run) \in Nat /\ \A x \in Execs : exec[x].version \in Nat
  BY VersionIsNumber DEF TypeInv, TypeOK, LogTypeOK
<1>13. Granted'
  <2>1. ASSUME NEW x \in Execs, exec[x].run # NoRun
        PROVE  exec[x].version <= VersionIn(log', exec[x].run) /\ Known(log', exec[x].run)
    BY <1>6, <1>7, <1>12, <2>1 DEF Granted
  <2>2. ASSUME NEW s \in Resumers, pc'[s] = "resumed"
        PROVE  claim[s].version + 1 <= VersionIn(log', claim[s].run) /\ Known(log', claim[s].run)
    <3>1. CASE s = r
      BY <1>2, <1>6, <3>1
    <3>2. CASE s # r
      <4>1. claim[s].version + 1 <= VersionIn(log, claim[s].run) /\ Known(log, claim[s].run)
            /\ claim[s].version \in Nat
        BY <1>9, <2>2, <3>2 DEF Granted, TypeInv, TypeOK
      <4> QED  BY <1>6, <1>7, <1>12, <4>1
    <3> QED  BY <3>1, <3>2
  <2> QED  BY <1>9, <2>1, <2>2 DEF Granted
<1>14. OneClaimant'
  <2>1. \A x \in Execs : exec[x].run = run => exec[x].version # claim[r].version + 1
    BY <1>2, <1>11, <1>12 DEF Granted
  <2>2. \A s \in Resumers \ {r} :
          pc[s] = "resumed" /\ claim[s].run = run => claim[s].version # claim[r].version
    BY <1>2 DEF Granted, TypeInv, TypeOK
  <2> QED  BY <1>9, <2>1, <2>2 DEF OneClaimant
<1>15. HolderIsCurrent'
  BY <1>9, <1>10 DEF HolderIsCurrent
<1>16. AnswersAgree'
  <2>1. ASSUME NEW s \in Resumers, pc'[s] \in {"resumed", "served"}, Answering(s)
        PROVE  GivenIn(log', claim[s].question) = {AnswerOf[s]}
    BY <1>3, <1>8, <1>9, <2>1 DEF AnswersAgree, AddsAnswer
  <2> QED  BY <1>3, <1>8, <1>9, <2>1 DEF AnswersAgree, AddsAnswer, Answering
<1>17. OneDriverPerVersion'
  BY <1>9 DEF OneDriverPerVersion
<1> QED  BY <1>13, <1>14, <1>15, <1>16, <1>17

LEMMA TornDriven ==
    ASSUME DriverInv, TypeInv', NEW r \in Resumers, CommitTorn(r)
    PROVE  DriverInv'
<1> USE DEF DriverInv
<1>1. pc[r] = "loaded" /\ Resumers \subseteq Requests
  BY DEF CommitTorn, Requests
<1>2. AddsAnswer(r, log')
  BY <1>1, AnswerSaid DEF CommitTorn, Says
<1>3. /\ pc'[r] \in {"idle", "failed"} /\ exec' = exec
      /\ \A s \in Resumers \ {r} : pc'[s] = pc[s] /\ claim'[s] = claim[s]
  BY <1>1, Refusing DEF CommitTorn, TypeInv
<1>4. \A s \in Resumers : pc'[s] \notin {"read", "loaded"}
  BY <1>1, <1>3, OneHolder
<1>5. Granted'
  BY <1>2, <1>3 DEF Granted, AddsAnswer
<1>6. OneClaimant'
  BY <1>3 DEF OneClaimant
<1>7. HolderIsCurrent'
  BY <1>4 DEF HolderIsCurrent
<1>8. AnswersAgree'
  BY <1>2, <1>3 DEF AnswersAgree, AddsAnswer, Answering
<1>9. OneDriverPerVersion'
  BY <1>3 DEF OneDriverPerVersion
<1> QED  BY <1>5, <1>6, <1>7, <1>8, <1>9

(* A launch that puts this run and version into an unused execution.        *)
LEMMA LaunchPuts ==
    ASSUME TypeInv, NEW run, NEW v, Launch(run, v)
    PROVE  \E n \in Execs :
             /\ exec'[n].run = run /\ exec'[n].version = v
             /\ \A x \in Execs \ {n} : exec'[x] = exec[x]
<1>1. NextExec \in Execs
  BY DEF Launch, NextExec, UnusedExecs
<1> QED  BY <1>1 DEF Launch, TypeInv, TypeOK

LEMMA ResumedDriven ==
    ASSUME DriverInv, TypeInv', NEW r \in Resumers, LaunchResumed(r)
    PROVE  DriverInv'
<1> USE DEF DriverInv
<1>1. pc[r] = "resumed" /\ r \in Requests /\ Resumers \subseteq Requests /\ log' = log
      /\ lock' = lock
  BY DEF LaunchResumed, Requests
<1>2. claim[r].run \in Runs /\ NoRun \notin Runs
  BY <1>1 DEF TypeInv, ClaimsARun, Resuming, NoRun, Runs
<1>3. PICK n \in Execs :
        /\ exec'[n].run = claim[r].run /\ exec'[n].version = claim[r].version + 1
        /\ \A x \in Execs \ {n} : exec'[x] = exec[x]
  BY LaunchPuts DEF LaunchResumed
<1>4. /\ pc'[r] \in {"idle", "served"} /\ (pc'[r] = "served" => claim' = claim)
      /\ \A s \in Resumers \ {r} : pc'[s] = pc[s] /\ claim'[s] = claim[s]
  BY <1>1, Going DEF LaunchResumed, Places, TypeInv, TypeOK
<1>5. Granted'
  BY <1>1, <1>2, <1>3, <1>4 DEF Granted
<1>6. OneClaimant'
  <2>1. ASSUME NEW s \in Resumers, pc'[s] = "resumed"
        PROVE  s # r /\ pc[s] = "resumed" /\ claim'[s] = claim[s]
    BY <1>4, <2>1
  <2>2. ASSUME NEW s \in Resumers, pc'[s] = "resumed", claim[r].run = claim[s].run
        PROVE  claim[r].version + 1 # claim[s].version + 1
    <3>1. claim[s].version # claim[r].version
      BY <1>1, <2>1, <2>2 DEF OneClaimant
    <3>2. claim[s].version \in Nat /\ claim[r].version \in Nat
      BY DEF TypeInv, TypeOK
    <3> QED  BY <3>1, <3>2
  <2>3. ASSUME NEW s \in Resumers, pc'[s] = "resumed", NEW x \in Execs, exec'[x].run = claim[s].run
        PROVE  exec'[x].version # claim[s].version + 1
    BY <1>3, <2>1, <2>2, <2>3 DEF OneClaimant
  <2> QED  BY <2>1, <2>3 DEF OneClaimant
<1>7. HolderIsCurrent'
  BY <1>1, <1>4 DEF HolderIsCurrent, Answering
<1>8. AnswersAgree'
  BY <1>1, <1>4 DEF AnswersAgree, Answering
<1>9. OneDriverPerVersion'
  <2>1. \A x \in Execs \ {n} : exec'[x].run = exec'[n].run => exec'[x].version # exec'[n].version
    BY <1>1, <1>3 DEF OneClaimant
  <2> QED  BY <1>3, <2>1 DEF OneDriverPerVersion
<1> QED  BY <1>5, <1>6, <1>7, <1>8, <1>9

LEMMA TaskDriven ==
    ASSUME DriverInv, TypeInv', NEW k \in Tasks, Look(k) \/ TaskLaunch(k)
    PROVE  DriverInv'
<1> USE DEF DriverInv
<1>1. /\ \A s \in Resumers : pc'[s] = pc[s]
      /\ claim' = claim /\ log' = log /\ lock' = lock
  BY PausedRunAssumption DEF Look, TaskLaunch, Goes, Requests, Resumers, TypeInv, TypeOK
<1>2. LogKept /\ \A r \in Resumers : Waits(r)
  BY <1>1 DEF LogKept, Waits
<1>3. CASE exec' = exec
  BY <1>2, <1>3, Kept DEF ExecsKept
<1>4. CASE Launch(NoRun, 1)
  <2>1. PICK n \in Execs : /\ exec'[n].run = NoRun /\ exec'[n].version = 1
                           /\ \A x \in Execs \ {n} : exec'[x] = exec[x]
    BY <1>4, LaunchPuts
  <2>2. \A r \in Resumers : pc[r] = "resumed" => claim[r].run # NoRun
    BY DEF TypeInv, ClaimsARun, Resuming, NoRun, Runs
  <2>3. Granted' /\ OneClaimant' /\ OneDriverPerVersion'
    BY <1>1, <2>1, <2>2 DEF Granted, OneClaimant, OneDriverPerVersion
  <2>4. HolderIsCurrent' /\ AnswersAgree'
    BY <1>1 DEF HolderIsCurrent, AnswersAgree, Answering
  <2> QED  BY <2>3, <2>4
<1> QED  BY <1>3, <1>4 DEF Look, TaskLaunch

LEMMA ResumeDriven ==
    ASSUME DriverInv, TypeInv', NEW r \in Resumers, Claim(r) \/ Proceeds(r)
    PROVE  DriverInv'
<1>a. r \in Requests /\ Resumers \subseteq Requests /\ TypeOK
  BY DEF Requests, DriverInv, TypeInv
<1>b. ASSUME LogKept, exec' = exec, Refuse(r) \/ Fail(r),
             lock' = lock \/ pc[r] \in {"read", "loaded"}
      PROVE  DriverInv'
  <2>1. Waits(r)
    BY <1>a, <1>b, Refusing DEF Waits
  <2>2. ASSUME NEW s \in Resumers \ {r} PROVE Waits(s)
    BY <1>a, <1>b, Refusing, OneHolder DEF Waits
  <2> QED  BY <1>b, <2>1, <2>2, Kept DEF ExecsKept
<1>c. ASSUME LogKept, exec' = exec, UNCHANGED <<claim, lock>>,
             NEW place \in Places \ {"resumed", "served"}, Goes(r, place),
             place = "loaded" => pc[r] \in {"read", "loaded"}, place # "read"
      PROVE  DriverInv'
  <2>1. \A s \in Resumers : Waits(s)
    BY <1>a, <1>c, Going DEF Waits
  <2> QED  BY <1>c, <2>1, Kept DEF ExecsKept
<1>1. CASE Claim(r)
  <2>1. /\ pc'[r] = "claimed" /\ \A s \in Resumers \ {r} : pc'[s] = pc[s] /\ claim'[s] = claim[s]
        /\ lock' = lock
    BY <1>a, <1>1, Going DEF Claim, Places, TypeOK
  <2>2. LogKept /\ ExecsKept
    BY <1>1 DEF Claim, LogKept, ExecsKept
  <2> QED  BY <2>1, <2>2, Kept DEF Waits
<1>2. CASE Plan(r)
  <2>1. LogKept /\ exec' = exec /\ lock' = lock
    BY <1>2 DEF Plan, LogKept
  <2> QED  BY <1>2, <1>b, <1>c, <2>1 DEF Plan, Places
<1>3. CASE CommitRead(r)
  <2>1. LogKept /\ exec' = exec /\ log' = log
    BY <1>3 DEF CommitRead, LogKept
  <2>2. CASE Stands(r)
    <3>1. /\ pc'[r] = "read" /\ lock' = r /\ claim' = claim /\ ~Locked
          /\ \A s \in Resumers \ {r} : pc'[s] = pc[s]
      BY <1>a, <1>3, <2>2, Going DEF CommitRead, Places
    <3>2. \A s \in Resumers \ {r} : pc'[s] \notin {"read", "loaded"}
      BY <3>1, OneHolder
    <3>3. claim[r].version = VersionIn(log, claim[r].run)
      BY <2>2, InTermsOfLog DEF Stands
    <3>4. Answering(r) => GivenIn(log, claim[r].question) \subseteq {AnswerOf[r]}
      BY <2>2, InTermsOfLog DEF Stands
    <3>5. HolderIsCurrent'
      BY <2>1, <3>1, <3>2, <3>3, <3>4 DEF HolderIsCurrent, Answering
    <3>6. Granted' /\ OneClaimant' /\ AnswersAgree' /\ OneDriverPerVersion'
      BY <2>1, <3>1 DEF DriverInv, Granted, OneClaimant, AnswersAgree, OneDriverPerVersion, Answering
    <3> QED  BY <3>5, <3>6 DEF DriverInv
  <2>3. CASE ~Stands(r)
    BY <1>3, <1>b, <2>1, <2>3 DEF CommitRead
  <2> QED  BY <2>2, <2>3
<1>4. CASE LoadAggregate(r)
  <2>1. LogKept
    <3>1. ASSUME Says(<<Paused(claim[r].run, claim[r].question)>>) PROVE LogKept
      <4>1. Paused(claim[r].run, claim[r].question) \in Events
        BY <1>a DEF TypeOK, Paused, Events, Lifecycle, Opening
      <4>2. IsQuiet(<<Paused(claim[r].run, claim[r].question)>>)
        BY DEF IsQuiet, Paused
      <4> QED  BY <1>a, <3>1, <4>1, <4>2, OneSaid, QuietKeeps DEF TypeOK, LogTypeOK
    <3> QED  BY <1>4, <3>1, UnsaidKeeps DEF LoadAggregate
  <2>2. exec' = exec /\ pc[r] = "read"
    BY <1>4 DEF LoadAggregate
  <2> QED  BY <1>4, <1>b, <1>c, <2>1, <2>2 DEF LoadAggregate, Loaded, Places
<1>5. CASE CommitConflict(r) \/ CommitFails(r)
  <2>1. LogKept /\ exec' = exec /\ pc[r] \in {"read", "loaded"}
    BY <1>5 DEF CommitConflict, CommitFails, LogKept
  <2> QED  BY <1>5, <1>b, <2>1 DEF CommitConflict, CommitFails
<1>6. CASE LaunchFails(r)
  <2>1. LogKept /\ exec' = exec /\ lock' = lock
    BY <1>6 DEF LaunchFails, LogKept
  <2> QED  BY <1>6, <1>b, <2>1 DEF LaunchFails
<1> QED
  BY <1>1, <1>2, <1>3, <1>4, <1>5, <1>6, CommitDriven, TornDriven, ResumedDriven
  DEF Proceeds, CommitEnds

LEMMA ExecutionDriven ==
    ASSUME DriverInv, TypeInv', NEW x \in Execs, Drives(x) \/ EndsUnsaid(x)
    PROVE  DriverInv'
<1>a. /\ TypeOK /\ log \in Seq(Events) /\ exec \in ExecType /\ exec[x].run \in Runs \cup {NoRun}
      /\ pc' = pc /\ claim' = claim /\ lock' = lock
  BY DEF DriverInv, TypeInv, TypeOK, LogTypeOK, ExecType, Drives, Begin, Ask, Pause, End, TaskDone,
         EndsUnsaid, Moves, requestVars
<1>b. \A r \in Resumers : Waits(r)
  BY <1>a DEF Waits
<1>c. ASSUME NEW e \in Events, e.type \notin {"run/resumed", "user/message"}, Says(<<e>>)
      PROVE  LogKept
  <2>1. IsQuiet(<<e>>)
    BY <1>c DEF IsQuiet
  <2> QED  BY <1>a, <1>c, <2>1, OneSaid, QuietKeeps
<1>d. ASSUME NEW from, NEW to, Moves(x, from, to) PROVE ExecsKept
  BY <1>a, <1>d DEF Moves, ExecsKept, ExecType
<1>1. CASE Begin(x) /\ exec[x].run = NoRun
  <2>1. PICK r \in UnusedRuns :
          exec' = [exec EXCEPT ![x].run = r, ![x].stage = "live"] /\ Says(<<Started(r)>>)
    BY <1>1 DEF Begin
  <2>2. r \in Runs /\ r # NoRun /\ ~Known(log, r)
    BY InTermsOfLog DEF UnusedRuns, Known, NoRun, Runs
  <2>3. /\ exec'[x].run = r /\ exec'[x].version = exec[x].version
        /\ \A y \in Execs \ {x} : exec'[y] = exec[y]
    BY <1>a, <2>1 DEF ExecType
  <2>4. Started(r) \in Events /\ Started(r).type = "run/started" /\ Started(r).run = r
    BY <2>2 DEF Started, Events, Lifecycle, Opening
  <2>5. LogKept
    BY <1>c, <2>1, <2>4
  <2>6. Known(log', r)
    <3>1. 1 \in Marks(<<Started(r)>>, r, Lifecycle)
      BY <2>4, OneSaid DEF Marks, Lifecycle, Opening
    <3>2. 1 + Len(log) \in Marks(log \o <<Started(r)>>, r, Lifecycle)
      BY <1>a, <2>4, <3>1, OneSaid, Said
    <3> QED  BY <2>1, <3>2 DEF Known, Says
  <2>7. VersionIn(log', r) \in Nat /\ VersionIn(log', r) >= 1
    BY VersionIsNumber DEF TypeInv, TypeOK, LogTypeOK
  <2>8. \A y \in Execs : exec[y].run # r
    BY <2>2 DEF DriverInv, Granted
  <2>9. \A s \in Resumers : pc[s] = "resumed" => claim[s].run # r
    BY <2>2 DEF DriverInv, Granted
  <2>10. Granted'
    <3>1. exec[x].version <= 1 /\ exec[x].version \in Nat
      BY <1>1, <1>a DEF DriverInv, Granted, ExecType
    <3>2. exec[x].version <= VersionIn(log', r)
      BY <2>7, <3>1
    <3>3. ASSUME NEW y \in Execs \ {x}
          PROVE  IF exec'[y].run = NoRun
                   THEN exec'[y].version <= 1
                   ELSE exec'[y].version <= VersionIn(log', exec'[y].run) /\ Known(log', exec'[y].run)
      BY <2>3, <2>5 DEF DriverInv, Granted, LogKept
    <3>4. ASSUME NEW s \in Resumers, pc'[s] = "resumed"
          PROVE  claim'[s].version + 1 <= VersionIn(log', claim'[s].run) /\ Known(log', claim'[s].run)
      BY <1>a, <2>5, <3>4 DEF DriverInv, Granted, LogKept
    <3> QED  BY <2>2, <2>3, <2>6, <3>2, <3>3, <3>4 DEF Granted
  <2>11. OneClaimant'
    BY <1>a, <2>3, <2>9 DEF DriverInv, OneClaimant
  <2>12. HolderIsCurrent' /\ AnswersAgree'
    BY <1>a, <2>5 DEF DriverInv, HolderIsCurrent, AnswersAgree, LogKept, Answering
  <2>13. OneDriverPerVersion'
    BY <2>3, <2>8 DEF DriverInv, OneDriverPerVersion
  <2> QED  BY <2>10, <2>11, <2>12, <2>13 DEF DriverInv
<1>2. CASE Begin(x) /\ exec[x].run # NoRun
  <2>1. ExecsKept
    BY <1>2, <1>a DEF Begin, ExecsKept, ExecType
  <2> QED  BY <1>2, <1>b, <2>1, UnsaidKeeps, Kept DEF Begin
<1>3. CASE Ask(x)
  <2>1. ASSUME NEW q \in Questions
        PROVE  Asked(exec[x].run, q) \in Events /\ Asked(exec[x].run, q).type = "user/input-requested"
    BY <1>a DEF Asked, Events
  <2>2. LogKept /\ ExecsKept
    BY <1>3, <1>c, <1>d, <2>1 DEF Ask, UnusedQuestions
  <2> QED  BY <1>b, <2>2, Kept
<1>4. CASE Pause(x)
  <2>1. ASSUME NEW q \in Questions \cup {NoQuestion}
        PROVE  Paused(exec[x].run, q) \in Events /\ Paused(exec[x].run, q).type = "run/paused"
    BY <1>a DEF Paused, Events, Lifecycle, Opening
  <2>2. LogKept /\ ExecsKept
    BY <1>4, <1>c, <1>d, <2>1 DEF Pause
  <2> QED  BY <1>b, <2>2, Kept
<1>5. CASE End(x)
  <2>1. Ended(exec[x].run) \in Events /\ Ended(exec[x].run).type = "run/ended"
    BY <1>a DEF Ended, Events, Lifecycle, Opening
  <2>2. LogKept /\ ExecsKept
    BY <1>5, <1>c, <1>d, <2>1 DEF End
  <2> QED  BY <1>b, <2>2, Kept
<1>6. CASE TaskDone(x) \/ EndsUnsaid(x)
  <2>1. LogKept /\ ExecsKept
    BY <1>6, <1>d, UnsaidKeeps DEF TaskDone, EndsUnsaid
  <2> QED  BY <1>b, <2>1, Kept
<1> QED  BY <1>1, <1>2, <1>3, <1>4, <1>5, <1>6 DEF Drives

LEMMA TimeoutDriven ==
    ASSUME DriverInv, TypeInv', Expire \/ Resolve
    PROVE  DriverInv'
<1>1. Ticker \in Requests /\ Ticker \in Resumers /\ Resumers \subseteq Requests /\ TypeOK
  BY DEF Requests, Resumers, DriverInv, TypeInv
<1>2. /\ pc'[Ticker] \in {"claimed", "resolved", "idle"}
      /\ \A s \in Resumers \ {Ticker} : pc'[s] = pc[s] /\ claim'[s] = claim[s]
  BY <1>1, Going DEF Expire, Resolve, Places, TypeOK
<1>3. LogKept /\ ExecsKept /\ lock' = lock
  BY DEF Expire, Resolve, LogKept, ExecsKept
<1>4. \A s \in Resumers : Waits(s)
  BY <1>2, <1>3 DEF Waits
<1> QED  BY <1>3, <1>4, Kept

LEMMA ProcessDriven ==
    ASSUME DriverInv, TypeInv', Crash \/ Start
    PROVE  DriverInv'
<1>a. TypeOK /\ log \in Seq(Events) /\ exec \in ExecType /\ Resumers \subseteq Requests
  BY DEF DriverInv, TypeInv, TypeOK, LogTypeOK, ExecType, Requests
<1>1. CASE Crash
  <2>1. LogKept /\ ExecsKept
    BY <1>1, <1>a DEF Crash, LogKept, ExecsKept, ExecType
  <2>2. ASSUME NEW s \in Resumers PROVE Waits(s)
    <3>1. ASSUME s = Ticker PROVE pc'[s] = "idle"
      <4>1. Ticker \in Requests
        BY DEF Requests, Resumers
      <4>2. pc'[Ticker] = "idle"
        BY <1>1, <4>1 DEF Crash
      <4> QED  BY <3>1, <4>2
    <3>2. s # Ticker => claim'[s] = claim[s] /\ pc'[s] \in {pc[s], "failed"}
                        /\ pc'[s] \in {"idle", "served", "failed"}
      BY <1>1, <1>a DEF Crash, TypeOK
    <3> QED  BY <3>1, <3>2 DEF Waits
  <2> QED  BY <2>1, <2>2, Kept
<1>2. CASE Start
  <2>1. LogKept
    <3>1. ASSUME NEW r \in Runs, NEW q \in Questions, Says(<<Paused(r, q)>>) PROVE LogKept
      <4>1. Paused(r, q) \in Events /\ IsQuiet(<<Paused(r, q)>>)
        BY DEF IsQuiet, Paused, Events, Lifecycle, Opening
      <4> QED  BY <1>a, <3>1, <4>1, OneSaid, QuietKeeps
    <3>2. ASSUME Says(SetToSeq({Ended(r) : r \in Unterminated})) PROVE LogKept
      BY <1>a, <3>2, EndsSaid, QuietKeeps DEF IsQuiet
    <3> QED  BY <1>2, <3>1, <3>2, UnsaidKeeps DEF Start, Scan, Unterminated
  <2>2. ExecsKept /\ \A s \in Resumers : Waits(s)
    BY <1>2 DEF Start, ExecsKept, Waits, requestVars
  <2> QED  BY <2>1, <2>2, Kept
<1> QED  BY <1>1, <1>2

LEMMA StepDriven ==
    ASSUME DriverInv, [Next]_vars
    PROVE  DriverInv'
<1>1. TypeInv'
  BY StepTyped DEF DriverInv
<1>2. CASE Next
  BY <1>1, <1>2, ResumeDriven, TaskDriven, ExecutionDriven, TimeoutDriven, ProcessDriven DEF Next
<1>3. CASE UNCHANGED vars
  <2>1. LogKept /\ ExecsKept /\ \A s \in Resumers : Waits(s)
    BY <1>3 DEF vars, requestVars, LogKept, ExecsKept, Waits
  <2> QED  BY <1>1, <2>1, Kept
<1> QED  BY <1>2, <1>3

LEMMA Driven == Spec => []DriverInv
  BY InitDriven, StepDriven, PTL DEF Spec

(* Of all who resume the same pause, before or after a restart, one launches.*)
THEOREM OneLaunchPerVersion == Spec => []OneDriverPerVersion
<1>1. DriverInv => OneDriverPerVersion
  BY DEF DriverInv
<1> QED  BY <1>1, Driven, PTL

(* A question has one answer, and whoever resumed with his finds it there.  *)
THEOREM FirstAnswerStands == Spec => []AnswerStands
<1>1. ASSUME DriverInv PROVE AnswerStands
  <2>1. \A q \in Questions : \A i, j \in AnswersTo(q) : i = j
    BY <1>1 DEF DriverInv, AnswersAgree, AnswersTo, AnswersIn
  <2>2. ASSUME NEW r \in Resumers, pc[r] \in {"resumed", "served"}, Answering(r)
        PROVE  AlreadyRecorded(claim[r].question, AnswerOf[r])
    BY <1>1, <2>2, InTermsOfLog DEF DriverInv, AnswersAgree
  <2> QED  BY <2>1, <2>2 DEF AnswerStands
<1> QED  BY <1>1, Driven, PTL

-----------------------------------------------------------------------------
(* An open run is driven *)

OpenIn(l, r) == \E i \in Marks(l, r, Opening) : \A j \in Marks(l, r, Lifecycle) : j <= i

(* Somebody will go on with the run: an execution that has not said its     *)
(* last word about it, or the resume that has just opened it.               *)
Carried(r) ==
    \/ \E x \in Execs : exec[x].stage \in {"launched", "live", "asking"} /\ exec[x].run = r
    \/ \E q \in Resumers : pc[q] = "resumed" /\ claim[q].run = r

OpenIsCarried == up => \A r \in Runs \ cut : OpenIn(log, r) => Carried(r)

(* What a longer log shows as open was opened by what was added, or was     *)
(* open before and nothing was added about it.                              *)
LEMMA OpenAfter ==
    ASSUME NEW l \in Seq(Events), NEW s \in Seq(Events), NEW r, OpenIn(l \o s, r)
    PROVE  \/ Marks(s, r, Opening) # {}
           \/ OpenIn(l, r) /\ Marks(s, r, Lifecycle) = {}
<1>1. PICK i \in Marks(l \o s, r, Opening) : \A j \in Marks(l \o s, r, Lifecycle) : j <= i
  BY DEF OpenIn
<1>2. CASE i \in Marks(l, r, Opening)
  <2>1. ASSUME NEW k \in Marks(s, r, Lifecycle) PROVE FALSE
    <3>1. k + Len(l) \in Marks(l \o s, r, Lifecycle)
      BY Said
    <3>2. k \in 1 .. Len(s) /\ i \in 1 .. Len(l) /\ Len(l) \in Nat /\ Len(s) \in Nat
      BY <1>2 DEF Marks
    <3> QED  BY <1>1, <3>1, <3>2
  <2>2. Marks(l, r, Lifecycle) \subseteq Marks(l \o s, r, Lifecycle)
    BY Said
  <2> QED  BY <1>1, <1>2, <2>1, <2>2 DEF OpenIn
<1>3. CASE i \notin Marks(l, r, Opening)
  BY <1>3, Said
<1> QED  BY <1>2, <1>3

(* A step that opens no run, and one that closes one.                       *)
NothingOpens == \A r : OpenIn(log', r) => OpenIn(log, r)

LEMMA NothingOpened ==
    ASSUME log \in Seq(Events), NEW e \in Events, e.type \notin Opening, Says(<<e>>)
    PROVE  /\ NothingOpens
           /\ e.type \in Lifecycle => ~OpenIn(log', e.run)
<1>1. /\ <<e>> \in Seq(Events) /\ \A r : Marks(<<e>>, r, Opening) = {}
      /\ e.type \in Lifecycle => 1 \in Marks(<<e>>, e.run, Lifecycle)
  BY OneSaid DEF Marks
<1> QED  BY <1>1, OpenAfter DEF NothingOpens, Says

Carries(x, r) == exec[x].stage \in {"launched", "live", "asking"} /\ exec[x].run = r
Opens(q, r)   == pc[q] = "resumed" /\ claim[q].run = r

(* Whoever carried a run on still does, unless the run is closed or cut off.*)
LEMMA CarriedOn ==
    ASSUME OpenIsCarried, up' = up, cut \subseteq cut', NothingOpens,
           \A r \in Runs \ cut' : OpenIn(log', r) =>
              /\ \A x \in Execs : Carries(x, r) => Carried(r)'
              /\ \A q \in Resumers : Opens(q, r) => Carried(r)'
    PROVE  OpenIsCarried'
<1> SUFFICES ASSUME up, NEW r \in Runs \ cut', OpenIn(log', r)
             PROVE  Carried(r)'
  BY DEF OpenIsCarried
<1>1. Carried(r)
  BY DEF OpenIsCarried, NothingOpens
<1> QED  BY <1>1 DEF Carried, Carries, Opens

(* ... which is so when the step leaves executions and grants alone.        *)
GrantsStay == \A q \in Resumers : pc[q] = "resumed" => pc'[q] = "resumed" /\ claim'[q] = claim[q]

LEMMA NobodyLeaves ==
    ASSUME OpenIsCarried, up' = up, cut \subseteq cut', NothingOpens, exec' = exec, GrantsStay
    PROVE  OpenIsCarried'
<1>1. \A r : (\A x \in Execs : Carries(x, r) => Carried(r)')
             /\ (\A q \in Resumers : Opens(q, r) => Carried(r)')
  BY DEF GrantsStay, Carries, Opens, Carried
<1> QED  BY <1>1, CarriedOn

LEMMA LaunchCarries ==
    ASSUME TypeInv, NEW run, NEW v, Launch(run, v)
    PROVE  /\ \E n \in Execs : exec'[n].run = run /\ exec'[n].stage = "launched"
           /\ \A x \in Execs : \A r : Carries(x, r) => Carries(x, r)'
<1>1. NextExec \in Execs /\ exec[NextExec].stage = "unlaunched"
  BY DEF Launch, NextExec, UnusedExecs
<1>2. exec' = [exec EXCEPT ![NextExec] = [run |-> run, version |-> v, stage |-> "launched"]]
  BY DEF Launch
<1>3. exec'[NextExec].run = run /\ exec'[NextExec].stage = "launched"
      /\ \A x \in Execs \ {NextExec} : exec'[x] = exec[x]
  BY <1>1, <1>2 DEF TypeInv, TypeOK
<1> QED  BY <1>1, <1>3 DEF Carries

LEMMA ResumeCarried ==
    ASSUME TypeInv, OpenIsCarried, NEW r \in Resumers, Claim(r) \/ Proceeds(r)
    PROVE  OpenIsCarried'
<1>a. r \in Requests /\ Resumers \subseteq Requests /\ TypeOK /\ log \in Seq(Events)
  BY DEF Requests, TypeInv, TypeOK, LogTypeOK
<1>b. Unsaid => NothingOpens
  BY DEF Unsaid, NothingOpens
<1>c. ASSUME Refuse(r) \/ Fail(r), pc[r] # "resumed" PROVE GrantsStay
  BY <1>a, <1>c, Refusing DEF GrantsStay
<1>d. ASSUME NEW place \in Places, Goes(r, place), claim' = claim, pc[r] # "resumed" PROVE GrantsStay
  BY <1>a, <1>d, Going DEF GrantsStay
<1>1. CASE Claim(r)
  <2>1. GrantsStay
    BY <1>a, <1>1, Going DEF Claim, GrantsStay, Places, TypeOK
  <2> QED  BY <1>b, <1>1, <2>1, NobodyLeaves DEF Claim, Unsaid, historyVars
<1>2. CASE Plan(r) \/ CommitRead(r)
  <2>1. GrantsStay
    BY <1>2, <1>c, <1>d DEF Plan, CommitRead, Places
  <2> QED  BY <1>b, <1>2, <2>1, NobodyLeaves DEF Plan, CommitRead, Unsaid, historyVars
<1>3. CASE LoadAggregate(r)
  <2>1. GrantsStay
    BY <1>3, <1>c, <1>d DEF LoadAggregate, Loaded, Places
  <2>2. NothingOpens
    <3>1. ASSUME Says(<<Paused(claim[r].run, claim[r].question)>>) PROVE NothingOpens
      <4>1. LET e == Paused(claim[r].run, claim[r].question) IN e \in Events /\ e.type \notin Opening
        BY <1>a DEF TypeOK, Paused, Events, Lifecycle, Opening
      <4> QED  BY <1>a, <3>1, <4>1, NothingOpened
    <3> QED  BY <1>b, <1>3, <3>1 DEF LoadAggregate
  <2> QED  BY <1>3, <2>1, <2>2, NobodyLeaves DEF LoadAggregate, historyVars
<1>4. CASE Commit(r)
  <2> DEFINE run == claim[r].run
             s == Unrecorded(r) \o <<Resumed(run)>>
  <2>1. /\ pc'[r] = "resumed" /\ claim' = claim /\ up' = up /\ cut' = cut /\ exec' = exec
        /\ log' = log \o s /\ GrantsStay
    BY <1>a, <1>4, Going DEF Commit, Places, Says, GrantsStay, historyVars
  <2>2. s \in Seq(Events) /\ \A R : R # run => Marks(s, R, Opening) = {}
    <3>1. Resumed(run) \in Events /\ Resumed(run).run = run
      BY <1>a DEF TypeOK, Resumed, Events, Lifecycle, Opening
    <3>2. CASE Unrecorded(r) = <<>>
      <4>1. s = <<Resumed(run)>>
        BY <3>1, <3>2
      <4> HIDE DEF s, run
      <4> QED  BY <3>1, <4>1, OneSaid DEF Marks
    <3>3. CASE Unrecorded(r) # <<>>
      <4> DEFINE a == Answer(claim[r].question, AnswerOf[r])
      <4>1. Unrecorded(r) = <<a>> /\ <<a>> \in Seq(Events)
        BY <1>a, <3>3, UnrecordedIsTyped
      <4>2. a.type = "user/message"
        BY DEF Answer
      <4>3. a \in Events
        BY <4>1
      <4>4. s \in Seq(Events) /\ DOMAIN s = {1, 2} /\ s[1] = a /\ s[2] = Resumed(run)
        BY <3>1, <4>1, <4>3, TwoSaid
      <4> HIDE DEF s, a, run
      <4> QED  BY <3>1, <4>2, <4>4 DEF Marks, Opening
    <3> QED  BY <3>2, <3>3
  <2> HIDE DEF s, run
  <2>3. ASSUME up, NEW R \in Runs \ cut, OpenIn(log', R) PROVE Carried(R)'
    <3>1. CASE R = run
      BY <2>1, <3>1 DEF Carried, run
    <3>2. CASE R # run
      <4>1. Carried(R)
        BY <1>a, <2>1, <2>2, <2>3, <3>2, OpenAfter DEF OpenIsCarried
      <4> QED  BY <2>1, <4>1 DEF Carried, GrantsStay
    <3> QED  BY <3>1, <3>2
  <2> QED  BY <2>1, <2>3 DEF OpenIsCarried
<1>5. CASE CommitTorn(r)
  <2>1. GrantsStay
    BY <1>5, <1>c DEF CommitTorn
  <2>2. NothingOpens
    <3>1. CASE Unrecorded(r) = <<>>
      <4>1. log' = log
        BY <1>a, <1>5, <3>1 DEF CommitTorn, Says
      <4> QED  BY <4>1 DEF NothingOpens
    <3>2. CASE Unrecorded(r) # <<>>
      <4> DEFINE a == Answer(claim[r].question, AnswerOf[r])
      <4>1. Unrecorded(r) = <<a>> /\ <<a>> \in Seq(Events)
        BY <1>a, <3>2, UnrecordedIsTyped
      <4>2. a \in Events /\ a.type \notin Opening
        BY <4>1 DEF Answer, Opening
      <4> QED  BY <1>a, <1>5, <4>1, <4>2, NothingOpened DEF CommitTorn
    <3> QED  BY <3>1, <3>2
  <2> QED  BY <1>5, <2>1, <2>2, NobodyLeaves DEF CommitTorn, historyVars
<1>6. CASE CommitConflict(r) \/ CommitFails(r)
  <2>1. GrantsStay
    BY <1>6, <1>c DEF CommitConflict, CommitFails
  <2> QED  BY <1>b, <1>6, <2>1, NobodyLeaves DEF CommitConflict, CommitFails, Unsaid, historyVars
<1>7. CASE LaunchResumed(r)
  <2>1. /\ pc[r] = "resumed" /\ Launch(claim[r].run, claim[r].version + 1)
        /\ up' = up /\ cut' = cut /\ log' = log
        /\ \A q \in Resumers \ {r} : pc'[q] = pc[q] /\ claim'[q] = claim[q]
    BY <1>a, <1>7, Going DEF LaunchResumed, Places, TypeOK
  <2>2. ASSUME NEW R PROVE /\ \A x \in Execs : Carries(x, R) => Carried(R)'
                           /\ \A q \in Resumers : Opens(q, R) => Carried(R)'
    BY <2>1, LaunchCarries DEF Carries, Opens, Carried
  <2> QED  BY <1>b, <2>1, <2>2, CarriedOn DEF Unsaid
<1>8. CASE LaunchFails(r)
  <2>1. /\ cut' = cut \cup {claim[r].run} /\ up' = up /\ exec' = exec /\ log' = log
        /\ \A q \in Resumers \ {r} : pc'[q] = pc[q] /\ claim'[q] = claim[q]
    BY <1>a, <1>8, Refusing DEF LaunchFails
  <2>2. ASSUME NEW R \in Runs \ cut'
        PROVE  /\ \A x \in Execs : Carries(x, R) => Carried(R)'
               /\ \A q \in Resumers : Opens(q, R) => Carried(R)'
    BY <2>1 DEF Carries, Opens, Carried
  <2> QED  BY <1>b, <2>1, <2>2, CarriedOn DEF Unsaid
<1> QED  BY <1>1, <1>2, <1>3, <1>4, <1>5, <1>6, <1>7, <1>8 DEF Proceeds, CommitEnds

LEMMA TaskCarried ==
    ASSUME TypeInv, OpenIsCarried, NEW k \in Tasks, Look(k) \/ TaskLaunch(k)
    PROVE  OpenIsCarried'
<1>1. /\ \A s \in Resumers : pc'[s] = pc[s]
      /\ claim' = claim /\ log' = log /\ up' = up /\ cut' = cut
  BY PausedRunAssumption DEF Look, TaskLaunch, Goes, Requests, Resumers, TypeInv, TypeOK, historyVars
<1>2. NothingOpens
  BY <1>1 DEF NothingOpens
<1>3. exec' = exec \/ Launch(NoRun, 1)
  BY DEF Look, TaskLaunch
<1>4. ASSUME NEW R PROVE /\ \A x \in Execs : Carries(x, R) => Carried(R)'
                         /\ \A q \in Resumers : Opens(q, R) => Carried(R)'
  BY <1>1, <1>3, LaunchCarries DEF Carries, Opens, Carried
<1> QED  BY <1>1, <1>2, <1>4, CarriedOn

LEMMA ExecutionCarried ==
    ASSUME TypeInv, OpenIsCarried, NEW x \in Execs, Drives(x) \/ EndsUnsaid(x)
    PROVE  OpenIsCarried'
<1>a. /\ TypeOK /\ log \in Seq(Events) /\ exec \in ExecType /\ exec[x].run \in Runs \cup {NoRun}
      /\ pc' = pc /\ claim' = claim /\ up' = up /\ cut \subseteq cut'
  BY DEF TypeInv, TypeOK, LogTypeOK, ExecType, Drives, Begin, Ask, Pause, End, TaskDone, EndsUnsaid,
         Moves, requestVars, historyVars
<1>b. Unsaid => NothingOpens
  BY DEF Unsaid, NothingOpens
<1>c. \A R : \A q \in Resumers : Opens(q, R) => Carried(R)'
  BY <1>a DEF Opens, Carried
<1>d. ASSUME \A y \in Execs \ {x} : exec'[y] = exec[y], NEW R, exec[x].run # R
      PROVE  \A y \in Execs : Carries(y, R) => Carried(R)'
  BY <1>d DEF Carries, Carried
<1>e. ASSUME NEW from, NEW to, Moves(x, from, to)
      PROVE  /\ exec'[x].run = exec[x].run /\ exec'[x].stage = to /\ exec[x].stage \in from
             /\ \A y \in Execs \ {x} : exec'[y] = exec[y]
  BY <1>a, <1>e DEF Moves, ExecType
<1>f. ASSUME NEW stage \in {"live", "asking"}, exec'[x].run = exec[x].run, exec'[x].stage = stage,
             \A y \in Execs \ {x} : exec'[y] = exec[y], NothingOpens
      PROVE  OpenIsCarried'
  <2>1. \A R : \A y \in Execs : Carries(y, R) => Carried(R)'
    BY <1>f DEF Carries, Carried
  <2> QED  BY <1>a, <1>c, <1>f, <2>1, CarriedOn
<1>g. ASSUME \A y \in Execs \ {x} : exec'[y] = exec[y], NothingOpens,
             exec[x].run \in cut' \cup {NoRun} \/ ~OpenIn(log', exec[x].run) \/ ~Carries(x, exec[x].run)
      PROVE  OpenIsCarried'
  <2>1. ASSUME NEW R \in Runs \ cut', OpenIn(log', R), NEW y \in Execs, Carries(y, R)
        PROVE  Carried(R)'
    <3>1. y # x
      BY <1>g, <2>1 DEF Carries, NoRun, Runs
    <3> QED  BY <1>g, <2>1, <3>1 DEF Carries, Carried
  <2> QED  BY <1>a, <1>c, <1>g, <2>1, CarriedOn
<1>1. CASE Begin(x) /\ exec[x].run = NoRun
  <2>1. PICK r \in UnusedRuns :
          exec' = [exec EXCEPT ![x].run = r, ![x].stage = "live"] /\ Says(<<Started(r)>>)
    BY <1>1 DEF Begin
  <2>2. /\ exec'[x].run = r /\ exec'[x].stage = "live" /\ r \in Runs
        /\ \A y \in Execs \ {x} : exec'[y] = exec[y]
    BY <1>a, <2>1 DEF ExecType, UnusedRuns
  <2>3. Started(r) \in Events /\ Started(r).run = r
    BY <2>2 DEF Started, Events, Lifecycle, Opening
  <2>4. \A R : R # r => Marks(<<Started(r)>>, R, Opening) = {}
    BY <2>3, OneSaid DEF Marks
  <2>5. ASSUME up, NEW R \in Runs \ cut', OpenIn(log', R) PROVE Carried(R)'
    <3>1. CASE R = r
      BY <2>2, <3>1 DEF Carried
    <3>2. CASE R # r
      <4>1. OpenIn(log, R)
        BY <1>a, <2>1, <2>3, <2>4, <2>5, <3>2, OneSaid, OpenAfter DEF Says
      <4>2. Carried(R)
        BY <1>a, <2>5, <4>1 DEF OpenIsCarried
      <4> QED  BY <1>1, <1>c, <1>d, <2>2, <4>2 DEF Carried, Carries, Opens, NoRun, Runs
    <3> QED  BY <3>1, <3>2
  <2> QED  BY <1>a, <2>5 DEF OpenIsCarried
<1>2. CASE Begin(x) /\ exec[x].run # NoRun
  <2>1. /\ exec'[x].run = exec[x].run /\ exec'[x].stage = "live" /\ Unsaid
        /\ \A y \in Execs \ {x} : exec'[y] = exec[y]
    BY <1>2, <1>a DEF Begin, ExecType
  <2> QED  BY <1>b, <1>f, <2>1
<1>3. CASE Ask(x)
  <2>1. PICK q \in Questions : Says(<<Asked(exec[x].run, q)>>)
    BY <1>3 DEF Ask, UnusedQuestions
  <2>2. Asked(exec[x].run, q) \in Events /\ Asked(exec[x].run, q).type \notin Opening
    BY <1>a DEF Asked, Events, Opening
  <2>3. NothingOpens
    BY <1>a, <2>1, <2>2, NothingOpened
  <2> QED  BY <1>3, <1>e, <1>f, <2>3 DEF Ask
<1>4. CASE Pause(x)
  <2>1. PICK q \in Questions \cup {NoQuestion} : Says(<<Paused(exec[x].run, q)>>)
    BY <1>4 DEF Pause
  <2>2. LET e == Paused(exec[x].run, q)
        IN  e \in Events /\ e.type \notin Opening /\ e.type \in Lifecycle /\ e.run = exec[x].run
    BY <1>a DEF Paused, Events, Opening, Lifecycle
  <2>3. NothingOpens /\ ~OpenIn(log', exec[x].run)
    BY <1>a, <2>1, <2>2, NothingOpened
  <2> QED  BY <1>4, <1>e, <1>g, <2>3 DEF Pause
<1>5. CASE End(x)
  <2>1. LET e == Ended(exec[x].run)
        IN  e \in Events /\ e.type \notin Opening /\ e.type \in Lifecycle /\ e.run = exec[x].run
    BY <1>a DEF Ended, Events, Opening, Lifecycle
  <2>2. NothingOpens /\ ~OpenIn(log', exec[x].run)
    BY <1>a, <1>5, <2>1, NothingOpened DEF End
  <2> QED  BY <1>5, <1>e, <1>g, <2>2 DEF End
<1>6. CASE TaskDone(x)
  <2>1. ~Carries(x, exec[x].run)
    BY <1>6, <1>e DEF TaskDone, Carries
  <2> QED  BY <1>6, <1>b, <1>e, <1>g, <2>1 DEF TaskDone
<1>7. CASE EndsUnsaid(x)
  <2>1. exec[x].run \in cut' \cup {NoRun}
    BY <1>7 DEF EndsUnsaid
  <2> QED  BY <1>7, <1>b, <1>e, <1>g, <2>1 DEF EndsUnsaid
<1> QED  BY <1>1, <1>2, <1>3, <1>4, <1>5, <1>6, <1>7 DEF Drives

LEMMA TimeoutCarried ==
    ASSUME TypeInv, OpenIsCarried, Expire \/ Resolve
    PROVE  OpenIsCarried'
<1>1. Ticker \in Requests /\ Resumers \subseteq Requests /\ TypeOK
  BY DEF Requests, Resumers, TypeInv
<1>2. pc[Ticker] # "resumed" /\ \A s \in Resumers \ {Ticker} : pc'[s] = pc[s] /\ claim'[s] = claim[s]
  BY <1>1, Going DEF Expire, Resolve, Places, TypeOK
<1>3. GrantsStay
  BY <1>2 DEF GrantsStay
<1>4. NothingOpens /\ exec' = exec /\ up' = up /\ cut' = cut
  BY DEF Expire, Resolve, NothingOpens, historyVars
<1> QED  BY <1>3, <1>4, NobodyLeaves

(* After the start every open run is one that the scan has left behind.     *)
LEMMA ProcessCarried ==
    ASSUME TypeInv, OpenIsCarried, Crash \/ Start
    PROVE  OpenIsCarried'
<1>1. CASE Crash
  BY <1>1 DEF Crash, OpenIsCarried
<1>2. CASE Start
  <2>1. Unterminated = {r \in Runs : OpenIn(log, r)} /\ Unterminated' = {r \in Runs : OpenIn(log', r)}
    <3>1. \A r : IsOpen(r) <=> OpenIn(log, r)
      BY DEF IsOpen, IsLast, Of, OpenIn, Marks, Lifecycle
    <3>2. \A r : IsOpen(r)' <=> OpenIn(log', r)
      BY DEF IsOpen, IsLast, Of, OpenIn, Marks, Lifecycle
    <3> QED  BY <3>1, <3>2 DEF Unterminated
  <2>2. CASE cut' = Unterminated'
    BY <2>1, <2>2 DEF OpenIsCarried
  <2>3. CASE cut' = Unterminated /\ Unsaid
    BY <2>1, <2>3 DEF OpenIsCarried, Unsaid
  <2>4. CASE Says(SetToSeq({Ended(r) : r \in Unterminated}))
    <3> DEFINE s == SetToSeq({Ended(r) : r \in Unterminated})
    <3>1. /\ s \in Seq(Events) /\ \A i \in DOMAIN s : s[i].type = "run/ended"
          /\ \A r \in Unterminated : \E i \in DOMAIN s : s[i] = Ended(r)
      BY EndsSaid
    <3>2. log' = log \o s /\ log \in Seq(Events)
      BY <2>4 DEF Says, TypeInv, TypeOK, LogTypeOK
    <3> HIDE DEF s
    <3>3. ASSUME NEW r \in Runs, OpenIn(log', r) PROVE FALSE
      <4>1. Marks(s, r, Opening) = {}
        BY <3>1 DEF Marks, Opening
      <4>2. OpenIn(log, r) /\ Marks(s, r, Lifecycle) = {}
        BY <3>1, <3>2, <3>3, <4>1, OpenAfter
      <4>3. PICK i \in DOMAIN s : s[i] = Ended(r)
        BY <2>1, <3>1, <4>2
      <4>4. i \in Marks(s, r, Lifecycle)
        BY <4>3 DEF Marks, Ended, Lifecycle
      <4> QED  BY <4>2, <4>4
    <3> QED  BY <3>3 DEF OpenIsCarried
  <2> QED  BY <1>2, <2>2, <2>3, <2>4 DEF Start, Scan
<1> QED  BY <1>1, <1>2

LEMMA StepCarried ==
    ASSUME TypeInv, OpenIsCarried, [Next]_vars
    PROVE  OpenIsCarried'
<1>1. CASE Next
  BY <1>1, ResumeCarried, TaskCarried, ExecutionCarried, TimeoutCarried, ProcessCarried DEF Next
<1>2. CASE UNCHANGED vars
  BY <1>2 DEF vars, requestVars, historyVars, OpenIsCarried, Carried
<1> QED  BY <1>1, <1>2

(* No refused, failed or superseded resume leaves a run open that nobody    *)
(* goes on with: what is open is driven, or a named failure left it behind. *)
THEOREM OpenRunHasItsDriver == Spec => []OpenRunIsDriven
<1>1. Init => TypeInv /\ OpenIsCarried
  <2>1. Init => OpenIsCarried
    BY DEF Init, OpenIsCarried, OpenIn, Marks
  <2> QED  BY <2>1, InitTyped
<1>2. TypeInv /\ OpenIsCarried /\ [Next]_vars => TypeInv' /\ OpenIsCarried'
  BY StepTyped, StepCarried
<1>3. TypeInv /\ OpenIsCarried => OpenRunIsDriven
  <2>1. \A r : r \in Unterminated => r \in Runs /\ OpenIn(log, r)
    BY DEF Unterminated, IsOpen, IsLast, Of, OpenIn, Marks
  <2> QED  BY <2>1 DEF OpenIsCarried, OpenRunIsDriven, Carried, InFlight
<1> QED  BY <1>1, <1>2, <1>3, PTL DEF Spec
=============================================================================
