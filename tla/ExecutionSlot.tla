--------------------------- MODULE ExecutionSlot ----------------------------
(***************************************************************************)
(* What the scheduling core promises about execution, whatever it plans:   *)
(* there is one execution slot.  An Event takes it, yields it to another   *)
(* or is put aside, and may take it again; once an Event is closed         *)
(* (completed, or given up) it never holds the slot again.                 *)
(***************************************************************************)
CONSTANTS
    Events,  \* everything that may ever be executed
    Idle     \* the slot is empty

VARIABLES
    slot,       \* the Event being executed, or Idle
    suspended,  \* begun, put aside, to be continued
    closed      \* never to be executed (again)

slotVars == <<slot, suspended, closed>>

Init == slot = Idle /\ suspended = {} /\ closed = {}

\* An Event that is not closed takes the slot; the occupant is put aside.
Occupy(e) ==
    /\ e \notin closed
    /\ slot' = e
    /\ suspended' = (suspended \cup ({slot} \ {Idle})) \ {e}
    /\ UNCHANGED closed

\* The occupant is put aside while some Events are given up, possibly itself.
Vacate(given_up) ==
    /\ slot # Idle
    /\ slot' = Idle
    /\ closed' = closed \cup given_up
    /\ suspended' = (suspended \cup {slot}) \ given_up

Finish ==
    /\ slot # Idle
    /\ slot' = Idle
    /\ closed' = closed \cup {slot}
    /\ UNCHANGED suspended

\* Events that are not being executed are given up.
GiveUp(given_up) ==
    /\ slot \notin given_up
    /\ closed' = closed \cup given_up
    /\ suspended' = suspended \ given_up
    /\ UNCHANGED slot

Next ==
    \/ \E e \in Events : Occupy(e)
    \/ \E given_up \in SUBSET (Events \ closed) : Vacate(given_up)
    \/ Finish
    \/ \E given_up \in SUBSET (Events \ closed) : GiveUp(given_up)

Spec == Init /\ [][Next]_slotVars
=============================================================================
