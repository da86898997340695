----------------------------- MODULE InputPromise -----------------------------
(***************************************************************************)
(* What a session promises about an input it has accepted: it waits until  *)
(* a run takes it up as a user/message or the user withdraws it; it does   *)
(* not vanish, and an answer that has begun is not taken back.  The way    *)
(* out that is modelled is a run that is cut short before it has written   *)
(* the message it was launched with.  The code leaves open a second one    *)
(* that is not: the relay waits 5 s for the run to begin, records the      *)
(* input as consumed all the same, and the process dies before the slow    *)
(* run has written it.                                                     *)
(***************************************************************************)
CONSTANT Inputs
VARIABLE state     \* input -> none, waiting, said, withdrawn or cutShort

States == {"none", "waiting", "said", "withdrawn", "cutShort"}

Init == state = [i \in Inputs |-> "none"]

Step(i, from, to) == state[i] \in from /\ state' = [state EXCEPT ![i] = to]

Accept(i)   == Step(i, {"none"}, "waiting")
Withdraw(i) == Step(i, {"waiting"}, "withdrawn")
(* A message to an idle session is never waiting; one that a drive has      *)
(* already picked is said although it was withdrawn or its run cut short.   *)
Say(i)      == Step(i, {"none", "waiting", "withdrawn", "cutShort"}, "said")
CutShort(i) == Step(i, {"waiting"}, "cutShort")

Next == \E i \in Inputs : Accept(i) \/ Withdraw(i) \/ Say(i) \/ CutShort(i)

Spec == Init /\ [][Next]_state
=============================================================================
