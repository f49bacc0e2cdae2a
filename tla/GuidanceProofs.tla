--------------------------- MODULE GuidanceProofs ---------------------------
(***************************************************************************)
(* For any Events and facts, any cap and validity, and wherever ticks are  *)
(* cut by a restart: a reason is pending once.  Wherever the writes of a   *)
(* Reflection are cut: a link tells of all the Reflections of an Event but *)
(* those cut, and one that its archiving may have forgotten.               *)
(***************************************************************************)
EXTENDS Guidance, SequenceTheorems, TLAPS

States == {"waiting", "running", "suspended", "completed", "archived"}

Typed ==
    /\ facts \in Facts
    /\ events \in [Events -> States]
    /\ known \subseteq Events /\ linked \subseteq Events
    /\ reflections \in [Events -> Nat] /\ strays \in [Events -> Nat]
    /\ \A o \in offers :
          o = [rule |-> o.rule, key |-> o.key, reason |-> o.reason, age |-> o.age]

\* What makes "continue" speak of one Event: beginning an Event pauses what runs.
OneRuns == \A e, f \in In("running") : e = f

GuidanceInv == Typed /\ OneRuns /\ OncePending /\ LinkTells

-----------------------------------------------------------------------------
\* What a candidate says begins with its rule, then with what it is about.
LEMMA Says ==
    ASSUME NEW r, NEW k, NEW x, NEW y
    PROVE  /\ Candidate(r, k, <<x>>).reason[1] = r
           /\ Candidate(r, k, <<x>>).reason[2] = x
           /\ Candidate(r, k, <<x, y>>).reason[1] = r
           /\ Candidate(r, k, <<x, y>>).reason[2] = x
<1> DEFINE S == {r, x, y}
<1>1. <<r>> \in Seq(S) /\ <<x>> \in Seq(S) /\ <<x, y>> \in Seq(S)
  OBVIOUS
<1>2. \A about \in {<<x>>, <<x, y>>} :
          (<<r>> \o about)[1] = r /\ (<<r>> \o about)[2] = about[1]
  <2> SUFFICES ASSUME NEW about \in {<<x>>, <<x, y>>}
               PROVE  (<<r>> \o about)[1] = r /\ (<<r>> \o about)[2] = about[1]
    OBVIOUS
  <2>1. about \in Seq(S) /\ Len(about) \in {1, 2} /\ Len(<<r>>) = 1
    BY <1>1
  <2> HIDE DEF S
  <2> QED
    BY <1>1, <2>1, ConcatProperties
<1> QED
  BY <1>2 DEF Candidate

\* Every candidate is one, and says its rule first.
LEMMA CandidateSaysRule ==
    ASSUME NEW c \in Candidates
    PROVE  /\ c = [rule |-> c.rule, key |-> c.key, reason |-> c.reason]
           /\ c.reason[1] = c.rule
<1>1. \E r \in Rules : \E k, x, y :
          c = Candidate(r, k, <<x>>) \/ c = Candidate(r, k, <<x, y>>)
  BY DEF Candidates, Continue, Resume, Rest, Reflect, Study, Focus, Habit, Rules
<1>2. PICK r, k, x, y : c = Candidate(r, k, <<x>>) \/ c = Candidate(r, k, <<x, y>>)
  BY <1>1
<1> QED
  BY <1>2, Says DEF Candidate

\* The rule tells the set a candidate is of.
LEMMA RuleTells ==
    /\ \A c \in Continue : c.rule = "continue"
    /\ \A c \in Resume : c.rule = "resume"
    /\ \A c \in Rest : c.rule = "rest"
    /\ \A c \in Reflect : c.rule = "reflect"
    /\ \A c \in Study : c.rule = "study"
    /\ \A c \in Focus : c.rule = "focus"
    /\ \A c \in Habit : c.rule = "habit"
<1>0. \A r, k, about : Candidate(r, k, about).rule = r
  BY DEF Candidate
<1>1. \A c \in Continue : c.rule = "continue"
  BY <1>0 DEF Continue
<1>2. \A c \in Resume : c.rule = "resume"
  BY <1>0 DEF Resume
<1>3. \A c \in Rest : c.rule = "rest"
  BY <1>0 DEF Rest
<1>4. \A c \in Reflect : c.rule = "reflect"
  BY <1>0 DEF Reflect
<1>5. \A c \in Study : c.rule = "study"
  BY <1>0 DEF Study
<1>6. \A c \in Focus : c.rule = "focus"
  BY <1>0 DEF Focus
<1>7. \A c \in Habit : c.rule = "habit"
  BY <1>0 DEF Habit
<1> QED
  BY <1>1, <1>2, <1>3, <1>4, <1>5, <1>6, <1>7

\* Only what is paused, and low energies, are said of several keys in the same words.
LEMMA OneKey ==
    ASSUME OneRuns, NEW c \in Candidates, NEW d \in Candidates,
           c.reason = d.reason, c.rule \notin {"resume", "rest"}
    PROVE  c = d
<1>1. c.rule = d.rule
  BY CandidateSaysRule
<1>2. c.key = d.key
  <2>1. CASE c.rule = "continue"
    <3>1. c \in Continue /\ d \in Continue
      BY <1>1, <2>1, RuleTells DEF Candidates
    <3> QED
      BY <3>1 DEF Continue, Candidate, OneRuns
  <2>2. CASE c.rule = "reflect"
    <3>1. c \in Reflect /\ d \in Reflect
      BY <1>1, <2>2, RuleTells DEF Candidates
    <3>2. \A e, f \in In("completed") \ known :
              (\A j \in (In("completed") \ known) \ {e} : e < j \/ (e = j /\ e < j))
           /\ (\A j \in (In("completed") \ known) \ {f} : f < j \/ (f = j /\ f < j))
           => e = f
      BY EventsAssumption DEF In
    <3> QED
      BY <3>1, <3>2 DEF Reflect, Least, Candidate
  <2>3. CASE c.rule \in {"study", "focus", "habit"}
    <3>1. c \in Study \cup Focus \cup Habit /\ d \in Study \cup Focus \cup Habit
      BY <1>1, <2>3, RuleTells DEF Candidates
    <3>2. \A b \in Study \cup Focus \cup Habit : b.reason[2] = b.key
      <4> SUFFICES ASSUME NEW b \in Study \cup Focus \cup Habit
                   PROVE  b.reason[2] = b.key
        OBVIOUS
      <4>1. \E r, k, y : b = Candidate(r, k, <<k>>) \/ b = Candidate(r, k, <<k, y>>)
        BY DEF Study, Focus, Habit
      <4> QED
        BY <4>1, Says DEF Candidate
    <3> QED
      BY <3>1, <3>2
  <2> QED
    BY <2>1, <2>2, <2>3, RuleTells DEF Candidates
<1> QED
  BY <1>1, <1>2, CandidateSaysRule

\* What is chosen is a candidate of which nothing that stays pending says the same.
LEMMA ChosenIsNew ==
    ASSUME NEW os, NEW n, NEW c \in Chosen(os, n)
    PROVE  c \in Candidates /\ \A o \in os : o.reason # c.reason
BY DEF Chosen, Best, Redundant

\* A lapse keeps what is pending apart.
LEMMA Lapses ==
    ASSUME GuidanceInv, NEW o \in Later(offers), NEW p \in Later(offers)
    PROVE  /\ o = [rule |-> o.rule, key |-> o.key, reason |-> o.reason, age |-> o.age]
           /\ o.reason = p.reason /\ o # p =>
                 o.rule \in {"resume", "rest"} /\ o.age = p.age /\ o.key # p.key
<1>1. PICK a \in offers : o = [a EXCEPT !.age = @ + 1]
  BY DEF Later
<1>2. PICK b \in offers : p = [b EXCEPT !.age = @ + 1]
  BY DEF Later
<1>3. /\ o = [rule |-> a.rule, key |-> a.key, reason |-> a.reason, age |-> a.age + 1]
      /\ p = [rule |-> b.rule, key |-> b.key, reason |-> b.reason, age |-> b.age + 1]
  BY <1>1, <1>2 DEF GuidanceInv, Typed
<1> QED
  BY <1>3 DEF GuidanceInv, OncePending

\* Whatever the number that is admitted before the tick is cut.
LEMMA Admission ==
    ASSUME GuidanceInv, NEW n, offers' = Admits(Later(offers), n)
    PROVE  OncePending' /\ \A o \in offers' :
               o = [rule |-> o.rule, key |-> o.key, reason |-> o.reason, age |-> o.age]
<1>1. ASSUME NEW o \in offers'
      PROVE  o \in Later(offers) \/ \E c \in Chosen(Later(offers), n) : o = Presented(c)
  BY DEF Admits
<1>2. ASSUME NEW o \in offers'
      PROVE  o = [rule |-> o.rule, key |-> o.key, reason |-> o.reason, age |-> o.age]
  BY <1>1, <1>2, Lapses DEF Presented
<1>3. ASSUME NEW o \in offers', NEW p \in offers', o.reason = p.reason, o # p
      PROVE  o.rule \in {"resume", "rest"} /\ o.age = p.age /\ o.key # p.key
  <2>1. CASE o \in Later(offers) /\ p \in Later(offers)
    BY <1>3, <2>1, Lapses
  <2>2. ASSUME NEW c \in Chosen(Later(offers), n), NEW q \in Later(offers)
        PROVE  Presented(c).reason # q.reason
    BY ChosenIsNew DEF Presented
  <2>3. CASE \E c, d \in Chosen(Later(offers), n) : o = Presented(c) /\ p = Presented(d)
    <3>1. PICK c, d \in Chosen(Later(offers), n) : o = Presented(c) /\ p = Presented(d)
      BY <2>3
    <3>2. c \in Candidates /\ d \in Candidates /\ c.reason = d.reason /\ c # d
      BY <1>3, <3>1, ChosenIsNew DEF Presented
    <3>3. c.rule \in {"resume", "rest"} /\ c.rule = d.rule
      BY <3>2, OneKey, CandidateSaysRule DEF GuidanceInv
    <3>4. c.key # d.key
      BY <3>2, <3>3, CandidateSaysRule
    <3> QED
      BY <3>1, <3>3, <3>4 DEF Presented
  <2> QED
    BY <1>1, <1>3, <2>1, <2>2, <2>3
<1> QED
  BY <1>2, <1>3 DEF OncePending

-----------------------------------------------------------------------------
LEMMA Starting == Init => GuidanceInv
BY DEF Init, GuidanceInv, Typed, States, OneRuns, In, OncePending, LinkTells

\* A tick, whole or cut.
LEMMA TickKeeps ==
    ASSUME GuidanceInv, NEW n, offers' = Admits(Later(offers), n),
           UNCHANGED <<events, linked, reflections, strays>>,
           facts' \in Facts, known' \in {known, linked}
    PROVE  GuidanceInv'
<1>1. OncePending' /\ Typed'
  BY Admission DEF GuidanceInv, Typed
<1>2. OneRuns' /\ LinkTells'
  BY DEF GuidanceInv, OneRuns, In, LinkTells
<1> QED
  BY <1>1, <1>2 DEF GuidanceInv

\* Nothing is offered anew, and what begins, ends or is read again is no Reflection.
LEMMA OffersOnly ==
    ASSUME GuidanceInv, offers' \subseteq Later(offers) \/ offers' \subseteq offers,
           UNCHANGED <<events, linked, reflections, strays>>,
           facts' \in Facts, known' \in {known, linked}
    PROVE  GuidanceInv'
<1>1. OncePending' /\ Typed'
  BY Lapses DEF GuidanceInv, Typed, OncePending
<1>2. OneRuns' /\ LinkTells'
  BY DEF GuidanceInv, OneRuns, In, LinkTells
<1> QED
  BY <1>1, <1>2 DEF GuidanceInv

LEMMA MoveKeeps ==
    ASSUME GuidanceInv, NEW e \in Events,
           Begins(e) \/ Suspends(e) \/ Completes(e) \/ Leaves(e) \/ Archives(e)
    PROVE  GuidanceInv'
<1> USE DEF GuidanceInv, Moves, learning
<1>1. Typed'
  BY DEF Typed, States, Begins, Suspends, Completes, Leaves, Archives
<1>2. OneRuns'
  BY DEF Typed, States, OneRuns, In, Begins, Suspends, Completes, Leaves, Archives
<1>3. OncePending'
  BY DEF OncePending, Begins, Suspends, Completes, Leaves, Archives
<1>4. LinkTells'
  BY DEF Typed, States, LinkTells, Begins, Suspends, Completes, Leaves, Archives
<1> QED
  BY <1>1, <1>2, <1>3, <1>4

\* An Event with a link is not reflected on again; one whose link was not written, or was
\* forgotten when it was archived, may be.
LEMMA ReflectionKeeps ==
    ASSUME GuidanceInv, NEW e \in Events, Reflects(e) \/ ReflectsPartly(e)
    PROVE  GuidanceInv'
<1> USE DEF GuidanceInv, Reflects, ReflectsPartly, Reflectable
<1>1. Typed' /\ OneRuns' /\ OncePending'
  BY DEF Typed, OneRuns, In, OncePending
<1>2. LinkTells'
  BY DEF Typed, LinkTells
<1> QED
  BY <1>1, <1>2

LEMMA GuidanceKept == GuidanceInv /\ [Next]_vars => GuidanceInv'
<1> SUFFICES ASSUME GuidanceInv, [Next]_vars
             PROVE  GuidanceInv'
  OBVIOUS
<1>0. facts \in Facts
  BY DEF GuidanceInv, Typed
<1>1. CASE Tick
  BY <1>0, <1>1, TickKeeps DEF Tick, learning
<1>2. CASE Sleeps
  BY <1>0, <1>2, OffersOnly DEF Sleeps, learning
<1>3. CASE \E o \in offers : Decides(o)
  BY <1>0, <1>3, OffersOnly DEF Decides, learning
<1>4. CASE \E e \in Events : Begins(e) \/ Suspends(e) \/ Completes(e) \/ Leaves(e)
                               \/ Archives(e)
  BY <1>4, MoveKeeps
<1>5. CASE \E e \in Events : Reflects(e) \/ ReflectsPartly(e)
  BY <1>5, ReflectionKeeps
<1>6. CASE Restarts
  BY <1>6, OffersOnly DEF Restarts, Boots
<1>7. CASE TicksPartly
  BY <1>7, TickKeeps DEF TicksPartly, Boots
<1>8. CASE UNCHANGED vars
  BY <1>0, <1>8, OffersOnly DEF vars, learning
<1> QED
  BY <1>1, <1>2, <1>3, <1>4, <1>5, <1>6, <1>7, <1>8 DEF Next, User

\* Offers are offers, at most one Event runs, a reason is pending once, and a link tells of
\* the Reflections that were not cut: together they are kept by every step.
THEOREM Guided == Spec => []GuidanceInv
BY Starting, GuidanceKept, PTL DEF Spec

\* "Already recommended and pending" (evaluator.py:99): ticks that follow one another,
\* overlap with answers or are cut by a restart make no reason pending twice, but for what
\* one tick says of several Events of one description or several equal energies.
THEOREM PendingOnce == Spec => []OncePending
<1>1. GuidanceInv => OncePending
  BY DEF GuidanceInv
<1> QED
  BY <1>1, Guided, PTL

\* An Event has the Reflection its link tells of and those that add_reflection stored without
\* writing their Event, although the process writes Events whose links it has not seen; only
\* the archiving of an Event may forget its link, and lets one more be stored.
THEOREM LinkedOnce == Spec => []LinkTells
<1>1. GuidanceInv => LinkTells
  BY DEF GuidanceInv
<1> QED
  BY <1>1, Guided, PTL
=============================================================================
