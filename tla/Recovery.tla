------------------------------ MODULE Recovery ------------------------------
(***************************************************************************)
(* The scheduling core one write at a time.  An operation changes Runtime  *)
(* State and announces each entity it changed; the announcement stores     *)
(* that entity before the operation goes on.  Between two writes the       *)
(* process may be ended, and a write may fail: the error then leaves the   *)
(* operation where it is.  Boot makes Runtime State anew from what is      *)
(* stored, if the stored Events and windows satisfy its invariants.        *)
(*                                                                         *)
(* An operation is the sequence of its writes, each with Runtime State as  *)
(* it is when the write is made.  Times and priorities are left to         *)
(* Scheduler: here a cycle may find any offer expired and any slot due.    *)
(***************************************************************************)
EXTENDS EventLifecycle, Naturals, FiniteSets, SequencesExt, FiniteSetsExt

CONSTANTS Recommendations, Disturbers,
          Spontaneous,   \* Events the user reports
          MaxCopies,     \* bound: how often one Recommendation is materialised
          MaxMishaps,    \* bound: ends of the process and failed writes
          Idle           \* the Execution Context without an Event

\* The Events that are made from a Recommendation have it in their name.
Events == (Recommendations \X (1 .. MaxCopies)) \cup Spontaneous

ASSUME FinitelyMany ==
    /\ IsFiniteSet(Recommendations) /\ IsFiniteSet(Disturbers) /\ IsFiniteSet(Spontaneous)
    /\ MaxCopies \in Nat

\* No Event that is reported has the name of one that is materialised.
ASSUME NamesDiffer == Spontaneous \cap (Recommendations \X (1 .. MaxCopies)) = {}

\* An Execution Context without an Event names none.
ASSUME IdleIsNone == Idle \notin Events

Absent == "Absent"
Files == {"event", "window", "rec", "disturber"}

VARIABLES
    mem,     \* Runtime State, the Execution Context, and whether a cycle is underway
    disk,    \* the JSON files
    todo,    \* the writes the operation underway has yet to make
    next,    \* what follows it: nothing, a cycle, or the cycle of a disturbance
    up,      \* has the last boot succeeded?
    ahead,   \* history: did an error leave Runtime State ahead of the store?
    cut,     \* history: Recommendations whose consumption was cut short
    mishaps  \* how often the process has ended or a write has failed

vars == <<mem, disk, todo, next, up, ahead, cut, mishaps>>

Stored(m) == [event |-> m.event, window |-> m.window, rec |-> m.rec,
              disturber |-> m.disturber]

RunningIn(m) == {e \in Events : m.event[e] \in RunningStates}

OpenIn(m) == {e \in Events : m.window[e] = "Active"}

-----------------------------------------------------------------------------
(***************************************************************************)
(* Writes.                                                                 *)
(***************************************************************************)

New(m, file, of) == [mem |-> m, file |-> file, of |-> of, new |-> TRUE]

Update(m, file, of) == [mem |-> m, file |-> file, of |-> of, new |-> FALSE]

\* Runtime State changes and nothing is stored.
Unstored(m) == [mem |-> m, file |-> "none", of |-> Absent, new |-> FALSE]

\* The lifecycle or the Kernel raises.
Raises(m) == [mem |-> m, file |-> "error", of |-> Absent, new |-> FALSE]

Raising(ws) == ws # <<>> /\ Last(ws).file = "error"

\* Runtime State after the writes.
After(m, ws) == IF ws = <<>> THEN m ELSE Last(ws).mem

\* An error ends the operation.
Then(ws, more) == IF Raising(ws) THEN ws ELSE ws \o more

-----------------------------------------------------------------------------
(***************************************************************************)
(* The operations of the Scheduler and the Kernel, as sequences of writes. *)
(***************************************************************************)

\* The running Event is paused without its announcement.
PauseRunningSilently(m) ==
    IF RunningIn(m) = {} THEN <<>>
    ELSE LET e == CHOOSE e \in RunningIn(m) : TRUE
         IN  <<Unstored([m EXCEPT !.event[e] = "Paused", !.context = Idle])>>

PauseRunning(m) ==
    IF RunningIn(m) = {} THEN <<>>
    ELSE LET e == CHOOSE e \in RunningIn(m) : TRUE
         IN  <<Update([m EXCEPT !.event[e] = "Paused", !.context = Idle], "event", e)>>

Expire(m, e) == <<Update([m EXCEPT !.window[e] = "Expired"], "window", e)>>

\* The window is activated before the one it replaces is closed.
ActivateFirst(m, e) ==
    LET opened == [m EXCEPT !.window[e] = "Active"]
        others == OpenIn(m) \ {e}
    IN  IF m.window[e] # "Created" THEN <<Raises(m)>>
        ELSE <<Update(opened, "window", e)>>
             \o (IF others = {} THEN <<>>
                 ELSE Expire(opened, CHOOSE f \in others : TRUE))

\* A window that Runtime State does not know raises at once, one that is not new
\* raises after the other has been closed.
Activate(m, e) ==
    LET others == OpenIn(m) \ {e}
        closing == IF others = {} \/ m.window[e] = Absent THEN <<>>
                   ELSE Expire(m, CHOOSE f \in others : TRUE)
        closed == After(m, closing)
    IN  closing \o
        <<IF m.window[e] = "Created"
          THEN Update([closed EXCEPT !.window[e] = "Active"], "window", e)
          ELSE Raises(closed)>>

\* The window is opened and stored first, then the Event.
Begins(m, e) ==
    LET opening == Activate(m, e)
    IN  Then(opening, <<Update([After(m, opening) EXCEPT !.context = e], "event", e)>>)

Starts(m, e) ==
    LET pausing == PauseRunning(m)
    IN  pausing \o Begins([After(m, pausing) EXCEPT !.event[e] = "Started"], e)

\* Admission stores the Event and then its window.
Admits(m, e, status) ==
    LET admitted == [m EXCEPT !.event[e] = status, !.window[e] = "Created"]
    IN  <<New(admitted, "event", e), New(admitted, "window", e)>>

Reports(m, e) ==
    LET pausing == PauseRunning(m)
        admitting == Admits(After(m, pausing), e, "Started")
    IN  pausing \o admitting \o Begins(After(m, admitting), e)

WithoutContext(m, e) == IF m.context = e THEN [m EXCEPT !.context = Idle] ELSE m

Pauses(m, e) ==
    <<Update(WithoutContext([m EXCEPT !.event[e] = "Paused"], e), "event", e)>>

Resumes(m, e) ==
    LET pausing == PauseRunning(m)
    IN  pausing \o <<Update([After(m, pausing) EXCEPT !.event[e] = "Resumed",
                                                       !.context = e], "event", e)>>

Completes(m, e) ==
    LET done == [m EXCEPT !.event[e] = "Completed"]
        closing == IF m.window[e] = "Active" THEN Expire(done, e) ELSE <<>>
    IN  closing \o <<Update(WithoutContext(After(done, closing), e), "event", e)>>

Changes(m, e, status) == <<Update([m EXCEPT !.event[e] = status], "event", e)>>

-----------------------------------------------------------------------------
(***************************************************************************)
(* The cycle.                                                              *)
(***************************************************************************)

\* An Event that was resumed has no edge to Interrupted.
Disturbs(m) ==
    IF RunningIn(m) = {} THEN <<>>
    ELSE LET e == CHOOSE e \in RunningIn(m) : TRUE
             closing == IF m.window[e] = "Active" THEN Expire(m, e) ELSE <<>>
             closed == After(m, closing)
             interrupted == [closed EXCEPT !.event[e] = "Interrupted"]
         IN  IF m.event[e] = "Resumed" THEN closing \o <<Raises(closed)>>
             ELSE closing \o <<Update(interrupted, "event", e),
                               Unstored([interrupted EXCEPT !.context = Idle])>>

Disturbed(m, reason) == IF reason \in Disturbers THEN Disturbs(m) ELSE <<>>

Unused(m, r) == {k \in 1 .. MaxCopies : m.event[<<r, k>>] = Absent}

Accepted(m) == {r \in Recommendations : m.rec[r] = "Accepted" /\ Unused(m, r) # {}}

\* Consumed is stored before the Event it has become.
MaterialisesLast(m, r) ==
    LET consumed == [m EXCEPT !.rec[r] = "Consumed"]
    IN  <<Update(consumed, "rec", r)>>
        \o Admits(consumed, <<r, Min(Unused(m, r))>>, "Scheduled")

\* The Recommendation is consumed in Runtime State; that is stored later.
Materialises(m, r) ==
    LET admitting == Admits(m, <<r, Min(Unused(m, r))>>, "Scheduled")
    IN  admitting \o <<Unstored([After(m, admitting) EXCEPT !.rec[r] = "Consumed"])>>

\* Runtime State when these Recommendations have become Events.
Materialised(m, done) ==
    LET new == {<<r, Min(Unused(m, r))>> : r \in done}
    IN  [m EXCEPT !.event = [e \in Events |-> IF e \in new THEN "Scheduled" ELSE @[e]],
                  !.window = [e \in Events |-> IF e \in new THEN "Created" ELSE @[e]],
                  !.rec = [r \in Recommendations |->
                               IF r \in done THEN "Consumed" ELSE @[r]]]

\* One after the other, in three steps each.
Consumes(m) ==
    LET rs == SetToSeq(Accepted(m))
        steps(q) == Materialises(Materialised(m, {rs[j] : j \in 1 .. q - 1}), rs[q])
    IN  [i \in 1 .. 3 * Len(rs) |-> steps((i + 2) \div 3)[((i + 2) % 3) + 1]]

\* The entries of the old plan that are due, and what has been outranked.
Dues(m) ==
    {due \in [Events -> {"no", "Ready", "Skipped", "Overtaken"}] :
        \A e \in Events : due[e] # "no" =>
            /\ <<m.event[e], due[e]>> \in EventEdges
            /\ due[e] = "Overtaken" => m.event[e] = "Interrupted"}

\* Runtime State when these Events have advanced.
Advanced(m, due, done) ==
    [m EXCEPT !.event = [e \in Events |-> IF e \in done THEN due[e] ELSE @[e]]]

Advances(m, due) ==
    LET es == SetToSeq({e \in Events : due[e] \in {"Ready", "Skipped"}})
              \o SetToSeq({e \in Events : due[e] = "Overtaken"})
    IN  [i \in DOMAIN es |-> Update(Advanced(m, due, {es[j] : j \in 1 .. i}), "event", es[i])]

\* What was consumed or has expired is not stored.
PlanUpdatedPartly(m, recs, disturbers) ==
    [i \in 1 .. Cardinality(disturbers) |->
        Update(m, "disturber", SetToSeq(disturbers)[i])]

\* What the cycle has made of Recommendations and Disturbers is stored at its end.
PlanUpdated(m, recs, disturbers) ==
    [i \in 1 .. Cardinality(recs) |-> Update(m, "rec", SetToSeq(recs)[i])]
    \o [i \in 1 .. Cardinality(disturbers) |->
           Update(m, "disturber", SetToSeq(disturbers)[i])]

Cycle(m, reason, expired, due) ==
    LET entered == [m EXCEPT !.scheduling = TRUE]
        resolved == {d \in Disturbers : d = reason /\ m.disturber[d] = "Applied"}
        disturbing == Disturbed(entered, reason)
        settled == [After(entered, disturbing) EXCEPT
                       !.disturber = [d \in Disturbers |->
                            IF d \in resolved THEN "Resolved" ELSE @[d]],
                       !.rec = [r \in Recommendations |->
                            IF r \in expired THEN "Expired" ELSE @[r]]]
        consuming == Consumes(settled)
        consumed == After(settled, consuming)
        advancing == Advances(consumed, due)
        advanced == After(consumed, advancing)
    IN  Then(disturbing,
             consuming \o advancing
             \o PlanUpdated(advanced, expired \cup Accepted(m), resolved)
             \o <<Unstored([advanced EXCEPT !.scheduling = FALSE])>>)

\* A window's change is a signal of its own.
FollowedUp(ws) == IF \E i \in DOMAIN ws : ws[i].file = "window" THEN "cycle" ELSE "nothing"

-----------------------------------------------------------------------------
(***************************************************************************)
(* Boot.                                                                   *)
(***************************************************************************)

\* InvariantChecker.enforce: what a boot demands of the store.
Bootable(d) == Cardinality(RunningIn(d)) <= 1 /\ Cardinality(OpenIn(d)) <= 1

Loaded(d) ==
    [event |-> d.event, window |-> d.window, rec |-> d.rec, disturber |-> d.disturber,
     context |-> IF RunningIn(d) = {} THEN Idle ELSE CHOOSE e \in RunningIn(d) : TRUE,
     scheduling |-> FALSE]

Init ==
    /\ disk = [event |-> [e \in Events |-> Absent],
               window |-> [e \in Events |-> Absent],
               rec |-> [r \in Recommendations |-> Absent],
               disturber |-> [d \in Disturbers |-> Absent]]
    /\ mem = Loaded(disk)
    /\ todo = <<>>
    /\ next = "cycle"
    /\ up = TRUE
    /\ ahead = FALSE
    /\ cut = {}
    /\ mishaps = 0

\* The consumption of a Recommendation is underway and its Event is stored.
HalfConsumed ==
    {r \in Recommendations :
        /\ \E i \in DOMAIN todo :
              /\ todo[i].file = "rec" /\ todo[i].of = r
              /\ todo[i].mem.rec[r] = "Consumed"
        /\ \E k \in 1 .. MaxCopies : disk.event[<<r, k>>] # Absent}

\* The process is ended, by a crash or to be started again, and boots.
Restarts ==
    /\ up /\ mishaps < MaxMishaps
    /\ mishaps' = mishaps + 1
    /\ todo' = <<>>
    /\ next' = "cycle"
    /\ cut' = cut \cup HalfConsumed
    /\ up' = Bootable(disk)
    /\ mem' = Loaded(disk)
    /\ ahead' = (ahead /\ ~Bootable(disk))
    /\ UNCHANGED disk

-----------------------------------------------------------------------------
(***************************************************************************)
(* An operation begins, makes its writes, and ends.                        *)
(***************************************************************************)

Begin(ws, following) ==
    /\ todo' = ws
    /\ next' = following
    /\ UNCHANGED <<mem, disk, up, ahead, cut, mishaps>>

Free == up /\ todo = <<>> /\ next = "nothing"

\* save() refuses what is stored already, update() what is not.
Storable(w) ==
    \/ w.file = "none"
    \/ w.file \in Files /\ (w.new <=> disk[w.file][w.of] = Absent)

Writes ==
    /\ todo # <<>>
    /\ LET w == Head(todo) IN
       /\ Storable(w)
       /\ mem' = w.mem
       /\ disk' = IF w.file = "none" THEN disk
                  ELSE [disk EXCEPT ![w.file][w.of] = w.mem[w.file][w.of]]
    /\ todo' = Tail(todo)
    /\ UNCHANGED <<next, up, ahead, cut, mishaps>>

\* The file cannot be replaced, the repository refuses, or the lifecycle does:
\* the error reaches the caller, and no cycle follows.
Fails ==
    /\ todo # <<>>
    /\ \/ ~Storable(Head(todo)) /\ UNCHANGED mishaps
       \/ Head(todo).file \in Files /\ mishaps < MaxMishaps /\ mishaps' = mishaps + 1
    /\ mem' = Head(todo).mem
    /\ todo' = <<>>
    /\ next' = "nothing"
    /\ ahead' = (ahead \/ Stored(mem') # disk)
    /\ cut' = cut \cup HalfConsumed
    /\ UNCHANGED <<disk, up>>

\* A cycle that was left by an error lets none begin.
CycleRefused ==
    /\ up /\ todo = <<>> /\ next # "nothing"
    /\ mem.scheduling
    /\ Begin(<<>>, "nothing")

\* Of a signal, or of a tick.
RunsCycle ==
    /\ up /\ todo = <<>>
    /\ ~mem.scheduling
    /\ \E expired \in SUBSET {r \in Recommendations : mem.rec[r] = "Pending"},
          due \in Dues(After(mem, Disturbed(mem, next))) :
        LET ws == Cycle(mem, next, expired, due) IN Begin(ws, FollowedUp(ws))

Proposes(r) ==
    /\ Free
    /\ mem.rec[r] = Absent
    /\ Begin(<<New([mem EXCEPT !.rec[r] = "Pending"], "rec", r)>>, "cycle")

AcceptRecommendation(r) ==
    /\ Free
    /\ mem.rec[r] = "Pending"
    /\ Begin(<<Update([mem EXCEPT !.rec[r] = "Accepted"], "rec", r)>>, "cycle")

RejectRecommendation(r) ==
    /\ Free
    /\ mem.rec[r] = "Pending"
    /\ Begin(<<Update([mem EXCEPT !.rec[r] = "Rejected"], "rec", r)>>, "nothing")

UserStarted(e) ==
    /\ Free
    /\ mem.event[e] \in {"Scheduled", "Ready"}
    /\ Begin(Starts(mem, e), "cycle")

\* A start or a resumption that the lifecycle refuses has paused what ran.
StartRefused ==
    /\ Free
    /\ RunningIn(mem) # {}
    /\ Begin(PauseRunning(mem), "nothing")

UserPaused(e) ==
    /\ Free
    /\ mem.event[e] \in RunningStates
    /\ Begin(Pauses(mem, e), "cycle")

UserResumed(e) ==
    /\ Free
    /\ mem.event[e] \in {"Paused", "Interrupted"}
    /\ Begin(Resumes(mem, e), "cycle")

UserCompleted(e) ==
    /\ Free
    /\ mem.event[e] \in RunningStates
    /\ Begin(Completes(mem, e), "cycle")

UserCancelled(e) ==
    /\ Free
    /\ <<mem.event[e], "Cancelled">> \in EventEdges
    /\ Begin(Changes(mem, e, "Cancelled"), "cycle")

ReportSpontaneous(e) ==
    /\ Free
    /\ mem.event[e] = Absent
    /\ Begin(Reports(mem, e), "cycle")

ReportDisturber(d) ==
    /\ Free
    /\ mem.disturber[d] = Absent
    /\ LET state == IF mem.context = Idle THEN "Analyzed" ELSE "Applied" IN
       Begin(<<New([mem EXCEPT !.disturber[d] = state], "disturber", d)>>, d)

Next ==
    \/ Restarts \/ Writes \/ Fails \/ CycleRefused \/ RunsCycle \/ StartRefused
    \/ \E r \in Recommendations :
          Proposes(r) \/ AcceptRecommendation(r) \/ RejectRecommendation(r)
    \/ \E e \in Events :
          \/ UserStarted(e) \/ UserPaused(e) \/ UserResumed(e)
          \/ UserCompleted(e) \/ UserCancelled(e)
    \/ \E e \in Spontaneous : ReportSpontaneous(e)
    \/ \E d \in Disturbers : ReportDisturber(d)

Spec == Init /\ [][Next]_vars

-----------------------------------------------------------------------------
(***************************************************************************)
(* Properties.                                                             *)
(***************************************************************************)

(* Whatever the point between two writes at which the process ends, the store
   satisfies what the next boot demands, so long as no error has left Runtime
   State ahead of it since the last boot. *)
BootsUnlessAhead == ~ahead => Bootable(disk)

(* When an operation and its cycles are done, what they changed is stored:
   nothing is pending, unless an error came in between. *)
NothingIsPending == Free /\ ~ahead => Stored(mem) = disk

(* A Recommendation that is stored as Consumed has a stored Event with a window:
   no crash and no error loses what the user accepted. *)
ConsumedBecameEvent ==
    \A r \in Recommendations : disk.rec[r] = "Consumed" =>
        \E k \in 1 .. MaxCopies :
            disk.event[<<r, k>>] # Absent /\ disk.window[<<r, k>>] # Absent

(* A Recommendation becomes more than one Event only if the process ended, or a
   write failed, between the storing of the first and that of Consumed. *)
DoubledOnlyIfCut ==
    \A r \in Recommendations \ cut :
        Cardinality({k \in 1 .. MaxCopies : disk.event[<<r, k>>] # Absent}) <= 1

=============================================================================
