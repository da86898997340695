------------------------------- MODULE RunLog -------------------------------
(***************************************************************************)
(* What the log of ONE session says about its logical runs, and the pure   *)
(* functions that read it (agent/run_budget.py, session/interrupt.py,      *)
(* session/ask_user_timeout.py, pending_user_input_pause of                *)
(* session/service.py).  A run and a question are numbers that no earlier  *)
(* event has used.  Only the events that start, pause, resume and end a    *)
(* run, ask the user and record his answer are kept.                       *)
(***************************************************************************)
EXTENDS Naturals, FiniteSets, SequencesExt

CONSTANTS MaxRuns,       \* bound: logical runs of the session
          MaxQuestions,  \* bound: questions to the user
          Answers,
          NoAnswer

ASSUME RunLogAssumption ==
    /\ MaxRuns \in Nat /\ MaxQuestions \in Nat
    /\ NoAnswer \notin Answers

Runs      == 1..MaxRuns
NoRun     == 0
Questions == 1..MaxQuestions
NoQuestion == 0  \* of a pause for any other reason

VARIABLE log

Started(r)    == [type |-> "run/started", run |-> r, question |-> NoQuestion, answer |-> NoAnswer]
Asked(r, q)   == [type |-> "user/input-requested", run |-> r, question |-> q, answer |-> NoAnswer]
Paused(r, q)  == [type |-> "run/paused", run |-> r, question |-> q, answer |-> NoAnswer]
Resumed(r)    == [type |-> "run/resumed", run |-> r, question |-> NoQuestion, answer |-> NoAnswer]
Ended(r)      == [type |-> "run/ended", run |-> r, question |-> NoQuestion, answer |-> NoAnswer]
Answer(q, a)  == [type |-> "user/message", run |-> NoRun, question |-> q, answer |-> a]

Opening   == {"run/started", "run/resumed"}
Lifecycle == Opening \cup {"run/paused", "run/ended"}

Events == [type : Lifecycle \cup {"user/input-requested", "user/message"},
           run : Runs \cup {NoRun}, question : Questions \cup {NoQuestion},
           answer : Answers \cup {NoAnswer}]

LogTypeOK == log \in Seq(Events)
-----------------------------------------------------------------------------
Of(r, types) == {i \in DOMAIN log : log[i].run = r /\ log[i].type \in types}

(* The latest event of these types about the run.                           *)
IsLast(i, r, types) == i \in Of(r, types) /\ \A j \in Of(r, types) : j <= i

(* derive_run_budget: the budget version of a run, compared by every resume *)
Version(r) == 1 + Cardinality(Of(r, {"run/resumed"}))

(* ... and the pause that nothing has followed: a resume or an end does.    *)
PausedOn(r, q) ==
    \E i \in Of(r, {"run/paused"}) : IsLast(i, r, Lifecycle) /\ log[i].question = q
IsPaused(r) == \E q \in Questions \cup {NoQuestion} : PausedOn(r, q)

(* terminal_type: the end that no resume has followed.                      *)
IsOver(r) == \E i \in Of(r, {"run/ended"}) : IsLast(i, r, Lifecycle)

(* detect_unterminated_runs: opened by a start or a resume, and not closed  *)
(* by a pause or an end.                                                    *)
IsOpen(r) == \E i \in Of(r, Opening) : IsLast(i, r, Lifecycle)
Unterminated == {r \in Runs : IsOpen(r)}

HasStarted(r) == Of(r, {"run/started"}) # {}

(* latest_run_id                                                            *)
IsLatest(r) ==
    /\ HasStarted(r)
    /\ \A s \in Runs \ {r} : \A j \in Of(s, {"run/started"}) :
         \E i \in Of(r, {"run/started"}) : j < i

(* latest_paused_run                                                        *)
LatestIsPaused == \E r \in Runs : IsLatest(r) /\ IsPaused(r)
-----------------------------------------------------------------------------
AnswersTo(q) == {i \in DOMAIN log : log[i].type = "user/message" /\ log[i].question = q}

(* _user_input_answer_already_recorded: the same answer was written before, *)
(* by an attempt that came no further; a different one is a conflict.       *)
AlreadyRecorded(q, a) == AnswersTo(q) # {} /\ \A i \in AnswersTo(q) : log[i].answer = a
\* MUTANT: what was written before is not looked at.
Conflicts_Never(q, a) == FALSE
Conflicts(q, a)       == \E i \in AnswersTo(q) : log[i].answer # a

(* pending_input_request: the latest question of the run that nobody has    *)
(* answered.                                                                *)
Unanswered(r) == {i \in Of(r, {"user/input-requested"}) : AnswersTo(log[i].question) = {}}
PendingOf(r, q) == \E i \in Unanswered(r) : log[i].question = q /\ \A j \in Unanswered(r) : j <= i

(* latest_pending_input_request: no event of the latest run has ended it.   *)
Pending(q) ==
    \E r \in Runs : IsLatest(r) /\ Of(r, {"run/ended"}) = {} /\ PendingOf(r, q)

(* pending_user_input_pause: the process has died, or its store failed,     *)
(* between the question and the pause; the pause is then taken as given.    *)
AsIfPausedOn(r, q) ==
    /\ IsLatest(r)
    /\ ~IsPaused(r) /\ ~IsOver(r)
    /\ PendingOf(r, q)

(* What a resume of the run may claim: the latest run is paused on q, or as *)
(* good as paused.                                                          *)
Resumable(r, q) == IsLatest(r) /\ (PausedOn(r, q) \/ (q # NoQuestion /\ AsIfPausedOn(r, q)))
-----------------------------------------------------------------------------
Says(events) == log' = log \o events
Unsaid == UNCHANGED log

UnusedRuns      == {r \in Runs : Of(r, Lifecycle) = {}}
UnusedQuestions == {q \in Questions : \A i \in DOMAIN log : log[i].question # q}
=============================================================================
