-------------------------- MODULE RequestDelivery --------------------------
(***************************************************************************)
(* What the relay and the desktop's connector promise about a phone's      *)
(* request, and all that the offline queue may rely on: it is executed at  *)
(* most once, perhaps only after the phone gave it up or was told of a     *)
(* failure; an answer comes after the execution; a request that was turned *)
(* away is never executed.                                                 *)
(***************************************************************************)
EXTENDS Naturals

CONSTANT Requests

VARIABLES
    phase,  \* what the phone knows of each request
    count   \* how often each was executed

deliveryVars == <<phase, count>>

Init ==
    /\ phase = [r \in Requests |-> "idle"]
    /\ count = [r \in Requests |-> 0]

Becomes(r, from, to) ==
    /\ phase[r] = from
    /\ phase' = [phase EXCEPT ![r] = to]

Ask(r)      == Becomes(r, "idle", "open") /\ UNCHANGED count
TurnAway(r) == Becomes(r, "idle", "turnedAway") /\ UNCHANGED count

Execute(r) ==
    /\ phase[r] \in {"open", "unanswered", "failed"}
    /\ count[r] = 0
    /\ count' = [count EXCEPT ![r] = 1]
    /\ UNCHANGED phase

Answer(r) == count[r] = 1 /\ Becomes(r, "open", "answered") /\ UNCHANGED count

\* The desktop could not tell what became of it.
Fail(r)   == Becomes(r, "open", "failed") /\ UNCHANGED count

\* Several requests are given up together when the relay restarts.
GiveUp(S) ==
    /\ \A r \in S : phase[r] = "open"
    /\ phase' = [r \in Requests |-> IF r \in S THEN "unanswered" ELSE phase[r]]
    /\ UNCHANGED count

Next ==
    \/ \E r \in Requests : Ask(r) \/ TurnAway(r) \/ Execute(r) \/ Answer(r) \/ Fail(r)
    \/ \E S \in SUBSET Requests : GiveUp(S)

Spec == Init /\ [][Next]_deliveryVars
=============================================================================
