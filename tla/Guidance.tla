------------------------------ MODULE Guidance ------------------------------
(***************************************************************************)
(* What PAIOS proposes: the tick, which reasons over what the process      *)
(* knows and admits the best candidates one by one, the user's answers,    *)
(* the lapse of what nobody answers, and the Reflections, which are kept   *)
(* beside what the process knows.                                          *)
(*                                                                         *)
(* Facts other than Events are read when the process starts, and change    *)
(* for it only then; so do the links from Events to their Reflections.     *)
(***************************************************************************)
EXTENDS Naturals, Sequences, FiniteSets, Functions

CONSTANTS
    Events,         \* Events, by their ids
    Description,    \* what each is called
    Facts,          \* what a start of the process may read
    Principles,     \* how many Principles each rule is aligned with
    Cap,            \* recommendations per tick
    Validity,       \* intervals of the daemon until a recommendation lapses
    MaxReflections, \* bound: Reflections in all
    MaxStrays       \* bound: those that are stored without their Event

Rules == {"continue", "resume", "rest", "reflect", "study", "focus", "habit"}

ASSUME EventsAssumption == Events \subseteq Nat /\ Description \in [Events -> Nat]
ASSUME BoundsAssumption == Cap \in Nat \ {0} /\ Validity \in Nat \ {0}
ASSUME PrinciplesAssumption == Principles \in [Rules -> Nat]
ASSUME FactsAssumption ==
    \A f \in Facts :
        /\ \A part \in {f.energy, f.knowledge, f.projects, f.habits} :
              \A k \in DOMAIN part : k \in Nat /\ part[k] \in 0 .. 100
        /\ f.aimed \subseteq DOMAIN f.projects

VARIABLES
    facts,        \* energy by resource, confidence by knowledge item, completion by active
                  \* project, those a goal aims at, strength by habit
    events,       \* the state of each Event
    offers,       \* Recommendations that are pending and have not lapsed
    known,        \* Events the process knows to be reflected on
    linked,       \* Events that are stored with a link to their Reflection
    reflections,  \* how many Reflections of each Event are stored
    strays        \* history: how many of them were stored without their Event

learning == <<known, linked, reflections, strays>>
vars == <<facts, events, offers, learning>>

In(status) == {e \in Events : events[e] = status}

Init ==
    /\ facts \in Facts
    /\ events = [e \in Events |-> "waiting"]
    /\ offers = {}
    /\ known = {} /\ linked = {}
    /\ reflections = [e \in Events |-> 0]
    /\ strays = [e \in Events |-> 0]

-----------------------------------------------------------------------------
\* The rules.

Candidate(rule, key, about) == [rule |-> rule, key |-> key, reason |-> <<rule>> \o about]

\* The least of S, the lower id first.
Least(S, value(_)) ==
    {k \in S : \A j \in S \ {k} : value(k) < value(j) \/ (value(k) = value(j) /\ k < j)}

Continue == {Candidate("continue", e, <<Description[e]>>) : e \in In("running")}

Resume == {Candidate("resume", e, <<Description[e]>>) : e \in In("suspended")}

Rest ==
    {Candidate("rest", r, <<facts.energy[r]>>) :
        r \in {s \in DOMAIN facts.energy : facts.energy[s] < 30}}

Reflect ==
    LET unreflected == In("completed") \ known
        Id(e) == e
    IN  {Candidate("reflect", e, <<Description[e], Cardinality(unreflected)>>) :
            e \in Least(unreflected, Id)}

Study ==
    LET Confidence(k) == facts.knowledge[k]
        gaps == {k \in DOMAIN facts.knowledge : Confidence(k) < 50}
    IN  {Candidate("study", k, <<k, Confidence(k)>>) : k \in Least(gaps, Confidence)}

Focus ==
    LET Completion(p) == facts.projects[p]
        open == {p \in DOMAIN facts.projects : Completion(p) < 100}
    IN  {Candidate("focus", p, <<p>>) : p \in Least(open, Completion)}

Habit ==
    LET Weakness(h) == 100 - facts.habits[h]
        strong == {h \in DOMAIN facts.habits : facts.habits[h] >= 40}
    IN  {Candidate("habit", h, <<h>>) : h \in Least(strong, Weakness)}

Candidates == Continue \cup Resume \cup Rest \cup Reflect \cup Study \cup Focus \cup Habit

\* An energy that nobody tracks forbids nothing.
Cost(rule) == CASE rule = "study" -> 20 [] rule = "focus" -> 25 [] OTHER -> 0

Feasible(c) ==
    facts.energy = <<>> \/ Cost(c.rule) <= FoldFunction(+, 0, facts.energy)

\* (mutant: a candidate is known by its rule and key, not by what it says)
RedundantByKey(c, os) == \E o \in os : o.rule = c.rule /\ o.key = c.key

Redundant(c, os) == \E o \in os : o.reason = c.reason

\* In halves of a point: the priority of a rule and what it stands for.
Base == [continue |-> 15, resume |-> 17, rest |-> 16, reflect |-> 10, study |-> 12,
         focus |-> 12, habit |-> 8]

\* Then at most two Principles and a goal. Nothing ever says whether an Event was an
\* opportunity, so history does not count.
Score(c) ==
    Base[c.rule]
      + (IF Principles[c.rule] < 2 THEN Principles[c.rule] ELSE 2)
      + (IF c.rule = "focus" /\ c.key \in facts.aimed THEN 4 ELSE 0)

\* Equal scores go by the names of the rules, then by the ids.
Name == [study |-> 1, continue |-> 2, focus |-> 3, reflect |-> 4, habit |-> 5, rest |-> 6,
         resume |-> 7]

Before(c, d) ==
    \/ Score(c) > Score(d)
    \/ Score(c) = Score(d) /\ Name[c.rule] < Name[d.rule]
    \/ Score(c) = Score(d) /\ c.rule = d.rule /\ c.key < d.key

Best(cs, n) == {c \in cs : Cardinality({d \in cs : Before(d, c)}) < n}

\* (mutant: the best are taken before those that are already pending are left out)
ChosenUnfiltered(os, n) ==
    {c \in Best({d \in Candidates : Feasible(d)}, n) : ~ Redundant(c, os)}

\* The first n of what the engine chooses.
Chosen(os, n) == Best({c \in Candidates : Feasible(c) /\ ~ Redundant(c, os)}, n)

-----------------------------------------------------------------------------
\* The tick.

\* What lapsed is neither proposed nor acceptable, and the next cycle says so.
Later(os) == {[o EXCEPT !.age = @ + 1] : o \in {p \in os : p.age + 1 < Validity}}

Presented(c) == [rule |-> c.rule, key |-> c.key, reason |-> c.reason, age |-> 0]

\* They are admitted one by one.
Admits(os, n) == os \cup {Presented(c) : c \in Chosen(os, n)}

\* Time is counted in intervals of the daemon.
Tick ==
    /\ UNCHANGED <<facts, events, learning>>
    /\ offers' = Admits(Later(offers), Cap)

\* No daemon ticks.
Sleeps ==
    /\ offers' = Later(offers)
    /\ UNCHANGED <<facts, events, learning>>

-----------------------------------------------------------------------------
\* What the user does.

\* Accepts or rejects it; what becomes of what is accepted is the Scheduler's.
Decides(o) ==
    /\ offers' = offers \ {o}
    /\ UNCHANGED <<facts, events, learning>>

Moves(changed) ==
    /\ events' = changed
    /\ UNCHANGED <<facts, offers, learning>>

\* What runs is paused.
Begins(e) ==
    /\ events[e] \in {"waiting", "suspended"}
    /\ Moves([f \in Events |-> IF f = e THEN "running"
                               ELSE IF events[f] = "running" THEN "suspended"
                               ELSE events[f]])

Suspends(e) ==
    /\ events[e] = "running"
    /\ Moves([events EXCEPT ![e] = "suspended"])

Completes(e) ==
    /\ events[e] = "running"
    /\ Moves([events EXCEPT ![e] = "completed"])

\* Cancelled or overtaken: the next of its name may come.
Leaves(e) ==
    /\ events[e] = "suspended"
    /\ Moves([events EXCEPT ![e] = "waiting"])

\* The whole Event is written, as the process knows it.
Archives(e) ==
    /\ events[e] = "completed"
    /\ events' = [events EXCEPT ![e] = "archived"]
    /\ linked' = IF e \in known THEN linked ELSE linked \ {e}
    /\ UNCHANGED <<facts, offers, known, reflections, strays>>

Total(counts) == FoldFunction(+, 0, counts)

\* (mutant: an Event may be reflected on again)
ReflectableAgain(e) ==
    events[e] \in {"completed", "archived"} /\ Total(reflections) < MaxReflections

Reflectable(e) ==
    /\ events[e] \in {"completed", "archived"}
    /\ e \notin linked
    /\ Total(reflections) < MaxReflections

\* The Event is read from the store and linked; the Reflection is stored, listed from then
\* on, and then the Event.  What the process knows stays as it is.
Reflects(e) ==
    /\ Reflectable(e)
    /\ reflections' = [reflections EXCEPT ![e] = @ + 1]
    /\ linked' = linked \cup {e}
    /\ UNCHANGED <<facts, events, offers, known, strays>>

\* The second write fails, or the process ends before it: the Event has no link, and the
\* user who tries again stores a second Reflection.
ReflectsPartly(e) ==
    /\ Reflectable(e)
    /\ Total(strays) < MaxStrays
    /\ reflections' = [reflections EXCEPT ![e] = @ + 1]
    /\ strays' = [strays EXCEPT ![e] = @ + 1]
    /\ UNCHANGED <<facts, events, offers, known, linked>>

-----------------------------------------------------------------------------
\* The process ends and is started again, at any point; it reads what was recorded.

Boots ==
    /\ facts' \in Facts
    /\ known' = linked
    /\ UNCHANGED <<events, linked, reflections, strays>>

Restarts == Boots /\ UNCHANGED offers

TicksPartly ==
    /\ \E n \in 1 .. Cap - 1 : offers' = Admits(Later(offers), n)
    /\ Boots

User ==
    \/ \E o \in offers : Decides(o)
    \/ \E e \in Events : Begins(e) \/ Suspends(e) \/ Completes(e) \/ Leaves(e)
                           \/ Archives(e) \/ Reflects(e) \/ ReflectsPartly(e)

Next == Tick \/ Sleeps \/ User \/ Restarts \/ TicksPartly

Spec == Init /\ [][Next]_vars

\* The daemon's loop ticks, and the clock goes on.
FairSpec == Spec /\ WF_vars(Tick)

-----------------------------------------------------------------------------
\* "Already recommended and pending" (evaluator.py:99): whatever ticks, restarts and cut
\* ticks come together, a reason is pending once - but for what one tick says of two Events
\* of one description, or of two equal energies.
OncePending ==
    \A o, p \in offers :
        o.reason = p.reason /\ o # p =>
            o.rule \in {"resume", "rest"} /\ o.age = p.age /\ o.key # p.key

\* The Reflections of an Event are the one its link tells of ("once linked, cannot be
\* replaced", event.py:296) and those whose own link was never written, which a retry
\* leaves beside it (domain_operations.py:474-475); no other, though the process writes
\* whole Events of which it has not seen the link.  Such a write is the Event's archiving,
\* which may forget the link: from then on there may be one Reflection more.
LinkTells ==
    \A e \in Events :
        LET told == strays[e] + (IF e \in linked THEN 1 ELSE 0)
        IN  \/ reflections[e] = told
            \/ events[e] = "archived" /\ reflections[e] = told + 1

\* While facts and Events stay as they are and the user decides nothing, even the least of
\* what can be recommended is pending again and again: the cap starves nothing, as long as
\* Cap * Validity offers cover what there is to say.
LeastIsSaid ==
    LET feasible == {c \in Candidates : Feasible(c)}
    IN  \A c \in feasible \ Best(feasible, Cardinality(feasible) - 1) : Redundant(c, offers)

NothingStarves == (<>[][Tick]_vars) => []<>LeastIsSaid
=============================================================================
