----------------------------- MODULE CallPromise -----------------------------
(***************************************************************************)
(* What the agent loop and the user may rely on about a tool call, with no *)
(* word about rows, locks, recoveries or crashes: a call is requested,     *)
(* its tool may be entered until the call is settled or answered, it is    *)
(* settled once and for all, and it is answered at most once, with success *)
(* only when it is settled so or has put its question to the user, and     *)
(* with "not executed" only when its tool has never been entered.          *)
(***************************************************************************)
EXTENDS Naturals

CONSTANT Calls

VARIABLES
  requested,   \* calls the session knows of
  asked,       \* calls that have put a question to the user
  outcome,     \* outcome[c]: "open", or how c ended: "success", "other"
  told,        \* told[c]: what the session was told about c, or "none"
  effects      \* effects[c]: how often the tool of c was entered

vars == <<requested, asked, outcome, told, effects>>

Refusals == {"skipped", "notexec", "rejected"}
Answers == Refusals \cup {"ok", "fail", "timeout", "cancelled"}

Init ==
  /\ requested = {} /\ asked = {}
  /\ outcome = [c \in Calls |-> "open"]
  /\ told = [c \in Calls |-> "none"]
  /\ effects = [c \in Calls |-> 0]

Request(c) ==
  /\ requested' = requested \cup {c}
  /\ UNCHANGED <<asked, outcome, told, effects>>

Enter(c) ==
  /\ c \in requested /\ outcome[c] = "open" /\ told[c] = "none"
  /\ effects' = [effects EXCEPT ![c] = @ + 1]
  /\ UNCHANGED <<requested, asked, outcome, told>>

Ask(c) ==
  /\ c \in requested /\ outcome[c] = "open" /\ told[c] = "none"
  /\ asked' = asked \cup {c}
  /\ UNCHANGED <<requested, outcome, told, effects>>

Settle(c, how) ==
  /\ c \in requested /\ outcome[c] = "open"
  /\ outcome' = [outcome EXCEPT ![c] = how]
  /\ UNCHANGED <<requested, asked, told, effects>>

Tell(c, answer) ==
  /\ c \in requested /\ told[c] = "none"
  /\ answer = "ok" => outcome[c] = "success" \/ c \in asked
  /\ answer \in Refusals => effects[c] = 0
  /\ told' = [told EXCEPT ![c] = answer]
  /\ UNCHANGED <<requested, asked, outcome, effects>>

Next == \E c \in Calls :
  \/ Request(c) \/ Enter(c) \/ Ask(c)
  \/ \E how \in {"success", "other"} : Settle(c, how)
  \/ \E a \in Answers : Tell(c, a)

Spec == Init /\ [][Next]_vars
=============================================================================
