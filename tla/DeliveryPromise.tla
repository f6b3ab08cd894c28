--------------------------- MODULE DeliveryPromise ---------------------------
(***************************************************************************)
(* What the durable outbox promises its callers, with no files, crashes or *)
(* loops in sight: an intent once accepted is owed until it is closed, it  *)
(* is tried at most Budget times, it is closed as delivered only after an  *)
(* attempt, a closed intent stays closed, and every owed intent is closed  *)
(* in the end (module docstring of delivery/outbox/sink.py).               *)
(***************************************************************************)
EXTENDS Naturals

CONSTANTS Intents, Budget

VARIABLES status, tries

promise == <<status, tries>>

Closed == {"delivered", "failed", "unresolved"}
Status == {"none", "owed"} \cup Closed

Init ==
    /\ status = [i \in Intents |-> "none"]
    /\ tries = [i \in Intents |-> 0]

\* An intent becomes durable.
Owe(i) ==
    /\ status[i] = "none"
    /\ status' = [status EXCEPT ![i] = "owed"]
    /\ UNCHANGED tries

\* One attempt is spent on it.
Try(i) ==
    /\ status[i] = "owed" /\ tries[i] < Budget
    /\ tries' = [tries EXCEPT ![i] = @ + 1]
    /\ UNCHANGED status

\* It is closed, after at least one attempt.
Close(i, outcome) ==
    /\ status[i] = "owed" /\ tries[i] > 0
    /\ outcome = "unresolved" => tries[i] = Budget
    /\ status' = [status EXCEPT ![i] = outcome]
    /\ UNCHANGED tries

Progress(i) == Try(i) \/ \E outcome \in Closed : Close(i, outcome)

Next == \E i \in Intents : Owe(i) \/ Progress(i)

SafeSpec == Init /\ [][Next]_promise

Spec == SafeSpec /\ \A i \in Intents : WF_promise(Progress(i))

=============================================================================
