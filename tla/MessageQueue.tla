----------------------------- MODULE MessageQueue -----------------------------
(***************************************************************************)
(* The inputs of one session that are not a run yet: the events of the     *)
(* session that speak of them, and the mirror of those events in memory    *)
(* (session/queue.py, derive.undelivered_inputs).  An input is a message   *)
(* by its name; its text, attachments and annotations are left out.        *)
(***************************************************************************)
EXTENDS Naturals, Sequences, Functions

CONSTANTS Messages,   \* sent with mode "queue"
          Steers      \* sent with mode "steer"

Inputs == Messages \cup Steers

VARIABLES arrivals,    \* message/queued and steer/requested, in the order of the stream
          target,      \* steer/requested.run_id, 0 when it is not known
          withdrawn,   \* queue/cancelled
          settled,     \* queue/consumed and steer/applied
          said,        \* user/message: the input and the run that wrote it
          queueMirror, \* _queues: what is pending there
          steerMirror  \* _steers: the list is in the order of arrival

streamVars == <<arrivals, target, withdrawn, settled, said>>
mirrorVars == <<queueMirror, steerMirror>>
queueVars  == <<streamVars, mirrorVars>>

QueueTypeOK ==
    /\ arrivals \in Seq(Inputs)
    /\ target \in [Inputs -> Nat]
    /\ withdrawn \subseteq Messages
    /\ settled \subseteq Inputs
    /\ said \in Seq([input : Inputs, run : Nat])
    /\ queueMirror \subseteq Inputs
    /\ steerMirror \subseteq Inputs

QueueInit ==
    /\ arrivals = <<>>
    /\ target = [i \in Inputs |-> 0]
    /\ withdrawn = {} /\ settled = {}
    /\ said = <<>>
    /\ queueMirror = {} /\ steerMirror = {}
-----------------------------------------------------------------------------
Open(i) == i \notin withdrawn \cup settled

Arrived == Range(arrivals)
Said    == {said[k].input : k \in DOMAIN said}

(* undelivered_inputs: what has arrived and is neither cancelled nor        *)
(* consumed nor applied.  An input arrives once, so that its place among    *)
(* the arrivals gives the order of this list and of that of the steers.     *)
Undelivered == {i \in Arrived : Open(i)}
Place(i)    == CHOOSE k \in DOMAIN arrivals : arrivals[k] = i
Oldest(S)   == CHOOSE i \in S : \A j \in S : Place(i) <= Place(j)
-----------------------------------------------------------------------------
(* enqueue, then message/queued.                                            *)
Enqueue(i) ==
    /\ queueMirror' = queueMirror \cup {i}
    /\ arrivals' = Append(arrivals, i)
    /\ UNCHANGED <<target, withdrawn, settled, said, steerMirror>>

(* register_steer, then steer/requested.                                    *)
RegisterSteer(i, r) ==
    /\ steerMirror' = steerMirror \cup {i}
    /\ arrivals' = Append(arrivals, i)
    /\ target' = [target EXCEPT ![i] = r]
    /\ UNCHANGED <<withdrawn, settled, said, queueMirror>>

(* cancel_queue: what the mirror or else the stream still knows as pending. *)
CancelQueued(i) ==
    /\ i \in Messages
    /\ i \in queueMirror \/ i \in Undelivered
    /\ queueMirror' = queueMirror \ {i}
    /\ withdrawn' = withdrawn \cup {i}
    /\ UNCHANGED <<arrivals, target, settled, said, steerMirror>>

\* MUTANT: the mirror keeps what has been delivered.
Consume_Kept(i) ==
    /\ settled' = settled \cup {i}
    /\ UNCHANGED <<arrivals, target, withdrawn, said, mirrorVars>>

(* take_queue_item or take_steer, then queue/consumed or steer/applied.     *)
Consume(i) ==
    /\ queueMirror' = queueMirror \ {i}
    /\ steerMirror' = steerMirror \ {i}
    /\ settled' = settled \cup {i}
    /\ UNCHANGED <<arrivals, target, withdrawn, said>>

(* user/message of an input in a run.                                       *)
SayInput(i, r) ==
    /\ said' = Append(said, [input |-> i, run |-> r])
    /\ UNCHANGED <<arrivals, target, withdrawn, settled>>

(* rebuild_message_queues at the start of a process: the mirror is replaced *)
(* by what the stream says, and nothing is launched.                        *)
RebuildMirror ==
    /\ queueMirror' = Undelivered \ Steers
    /\ steerMirror' = Undelivered \cap Steers
    /\ UNCHANGED streamVars
=============================================================================
