----------------------------- MODULE MCPlanner ------------------------------
(***************************************************************************)
(* The planner against absolute time.  The module keeps the candidates     *)
(* twice: as the source does, with the moment of their earliest start, and *)
(* as the queue of the model, which forgets how long ago a moment passed.  *)
(* Candidates come and go while a clock advances.                          *)
(***************************************************************************)
EXTENDS Planner

CONSTANTS
    Names,     \* the Events that may become candidates
    Horizon,   \* the last moment of the clock
    Furthest   \* how far ahead an earliest start may lie

ASSUME NamesAssumption == IsFiniteSet(Names)

ASSUME ClockAssumption == Furthest \in Nat

Priorities == {0, 1}

VARIABLES
    now,       \* Current Time
    exact,     \* candidates with their absolute earliest start
    queue      \* the queue of the model

mcVars == <<now, exact, queue>>

MCInit == now = 0 /\ exact = {} /\ queue = <<>>

Known == {c.event : c \in exact}

\* One or more candidates are added at the same moment.
Arrive ==
    \E priority \in [Names -> Priorities], ahead \in [Names -> 0..Furthest],
       arriving \in SUBSET (Names \ Known) :
        /\ arriving # {}
        /\ exact' = exact \cup {[event |-> n, priority |-> priority[n],
                                 earliest |-> now + ahead[n]] : n \in arriving}
        /\ queue' \in Enqueued(queue, ToSet(queue),
                               {[event |-> n, priority |-> priority[n],
                                 wait |-> ahead[n]] : n \in arriving})
        /\ UNCHANGED now

Leave(n) ==
    /\ n \in Known
    /\ exact' = {c \in exact : c.event # n}
    /\ queue' \in Enqueued(queue, {c \in ToSet(queue) : c.event # n}, {})
    /\ UNCHANGED now

Passes ==
    /\ now < Horizon
    /\ now' = now + 1
    /\ queue' = Waited(queue)
    /\ UNCHANGED exact

MCNext == Arrive \/ (\E n \in Names : Leave(n)) \/ Passes

MCSpec == MCInit /\ [][MCNext]_mcVars

-----------------------------------------------------------------------------
Planned == PlanFor(queue)

FactsOf(entry) == CHOOSE c \in exact : c.event = entry.event

\* The plan of the queue is the plan of the source: every candidate once, by
\* priority, then by the absolute moment of its earliest start, although the
\* queue no longer knows how long ago that moment was.
SortedAsInTheSource ==
    /\ Len(Planned) = Cardinality(exact)
    /\ \A c \in exact : \E k \in DOMAIN Planned :
          Planned[k].event = c.event /\ Planned[k].priority = c.priority
    /\ \A i, j \in DOMAIN Planned : i < j =>
          \/ Planned[i].priority > Planned[j].priority
          \/ /\ Planned[i].priority = Planned[j].priority
             /\ FactsOf(Planned[i]).earliest <= FactsOf(Planned[j]).earliest

\* The plan is feasible and leaves no time unused: slots do not overlap (the
\* check SchedulingPlan makes never fails), none is in the past or before its
\* earliest start, and each begins as soon as these three allow.
FeasibleAndTight ==
    \A k \in DOMAIN Planned :
        LET allowed == {0, FactsOf(Planned[k]).earliest - now} \cup
                       {Planned[j].start + Slot : j \in 1..(k - 1)}
        IN  /\ \A a \in allowed : Planned[k].start >= a
            /\ Planned[k].start \in allowed
=============================================================================
