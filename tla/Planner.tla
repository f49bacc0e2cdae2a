------------------------------ MODULE Planner -------------------------------
(***************************************************************************)
(* The deterministic planner, over distances from now.                     *)
(*                                                                         *)
(* A candidate is [event, priority, wait]: wait is how far ahead of now    *)
(* its earliest start lies, 0 once that moment has passed.  The queue      *)
(* keeps candidates by earliest start, so that an order between moments    *)
(* already past is not lost; it also keeps how a tie was broken (the code  *)
(* compares the random identifiers of the Events).                         *)
(***************************************************************************)
EXTENDS Integers, SequencesExt, FiniteSetsExt

CONSTANT Slot   \* the length of a planned slot

ASSUME SlotAssumption == Slot \in Nat \ {0}

\* No two of the candidates of queue changed places on the way to later.
KeepsOrder(queue, later) ==
    \A x, y \in DOMAIN queue, i, j \in DOMAIN later :
        x < y /\ later[i] = queue[x] /\ later[j] = queue[y] => i < j

\* (mutant: a newcomer may overtake a candidate whose moment has passed)
EnqueuedAnywhere(queue, staying, newcomers) ==
    {q \in SetToSeqs(staying \cup newcomers) :
        /\ KeepsOrder(queue, q)
        /\ \A i, j \in DOMAIN q : i < j => q[i].wait <= q[j].wait}

\* The queues that result when, of those in queue, the candidates in staying
\* stay, and newcomers are added at one moment.  Newcomers come after every
\* candidate whose moment has passed; ties are broken either way.
Enqueued(queue, staying, newcomers) ==
    {q \in SetToSeqs(staying \cup newcomers) :
        /\ KeepsOrder(queue, q)
        /\ \A i, j \in DOMAIN q : i < j =>
              /\ q[i].wait <= q[j].wait
              /\ q[i] \in newcomers => q[j] \in newcomers \/ q[j].wait > 0}

\* Priority descending, then earliest start, then identifier.
Before(queue, i, j) ==
    \/ queue[i].priority > queue[j].priority
    \/ queue[i].priority = queue[j].priority /\ i < j

Ordered(queue) ==
    LET order == CHOOSE o \in SetToSeqs(DOMAIN queue) :
                    \A k, l \in DOMAIN o : k < l => Before(queue, o[k], o[l])
    IN  [k \in DOMAIN queue |-> queue[order[k]]]

\* (mutant: the end of the slot before is not looked at)
SlottedSideBySide(ordered) ==
    [k \in DOMAIN ordered |->
        [event |-> ordered[k].event, priority |-> ordered[k].priority,
         start |-> ordered[k].wait]]

\* Slots follow one another from now on, none before its earliest start.
Slotted(ordered) ==
    LET start[k \in DOMAIN ordered] ==
            IF k = 1 THEN ordered[1].wait
            ELSE Max({start[k - 1] + Slot, ordered[k].wait})
    IN  [k \in DOMAIN ordered |->
            [event |-> ordered[k].event, priority |-> ordered[k].priority,
             start |-> start[k]]]

PlanFor(queue) == Slotted(Ordered(queue))

\* The opportunity of an entry lies in the past.
Ended(entry) == entry.start + Slot <= 0
Due(entry)   == entry.start <= 0

\* One unit of time passes under a plan and under a queue.
Elapsed(p) ==
    [k \in DOMAIN p |-> [p[k] EXCEPT !.start = Max({@ - 1, -Slot})]]
Waited(queue) ==
    [k \in DOMAIN queue |-> [queue[k] EXCEPT !.wait = Max({@ - 1, 0})]]
=============================================================================
