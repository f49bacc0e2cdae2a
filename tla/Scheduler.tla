----------------------------- MODULE Scheduler ------------------------------
(***************************************************************************)
(* The scheduling core of PAIOS: the Scheduler and the Runtime State it    *)
(* drives through the Kernel, as one Application runs them.                *)
(*                                                                         *)
(* One thread runs this at a time: a user action, a report or a tick runs  *)
(* to its end, and the recalculation signals it raises are coalesced into  *)
(* one cycle that runs as soon as it returns.  That cycle is the value of  *)
(* "pending": while one is owed nothing else happens, except that the      *)
(* process may stop and be started again.                                  *)
(*                                                                         *)
(* Time is kept relative to now.  One unit is what TimePasses takes from   *)
(* every remaining distance; a distance that no comparison of the code can *)
(* tell apart any more is not followed further.                            *)
(***************************************************************************)
EXTENDS Planner, EventLifecycle

CONSTANTS
    Recommendations,  \* the Recommendations that may be produced
    Spontaneous,      \* the Events the user may report as already begun
    Disturbers,       \* the Event Disturbers that may be reported
    Idle,             \* the Idle Execution Context
    Priority,         \* priority of a Recommendation (0.0 when it has none)
    Lead,             \* how far ahead a Recommendation suggests to begin
    Validity          \* how long a Recommendation stays valid

\* The Event materialised from a Recommendation is known by its name.
Events == Recommendations \cup Spontaneous

ASSUME IdentityAssumption ==
    /\ Recommendations \cap Spontaneous = {}
    /\ Idle \notin Events
    /\ Disturbers \cap {"None", "Recalculate"} = {}

ASSUME FiniteAssumption == IsFiniteSet(Recommendations) /\ IsFiniteSet(Spontaneous)

ASSUME OfferAssumption ==
    /\ Priority \in [Recommendations -> Nat]
    /\ Lead \in [Recommendations -> Nat]
    /\ Validity \in Nat \ {0}

VARIABLES
    status,         \* status of every Event ("Recommended": not admitted yet)
    window,         \* state of the Context Window each Event owns
    rec,            \* status of every Recommendation
    age,            \* time since a Recommendation was admitted, while it matters
    disturber,      \* state of every Event Disturber
    context,        \* the Execution Context: a running Event, or Idle
    contextsKnown,  \* the Runtime loaded at least one Context at boot
    candidates,     \* planning facts of the Events, by earliest start
    plan,           \* the current Scheduling Plan
    schedState,     \* state of the Scheduler between two cycles
    pending         \* the cycle owed: none, a plain one, or a disturbance's

runtimeVars == <<status, window, rec, disturber, context>>
vars == <<runtimeVars, age, contextsKnown, candidates, plan, schedState, pending>>

-----------------------------------------------------------------------------
\* Reading the Runtime State.

Running(s) == {e \in Events : s[e] \in RunningStates}

RunningEvent ==
    IF Running(status) = {} THEN Idle ELSE CHOOSE e \in Running(status) : TRUE

\* A new window can be bound to the Context of an Active window, or to any.
Bindable(w) == contextsKnown \/ \E e \in Events : w[e] = "Active"

Plannable == {"Scheduled", "Ready", "Paused", "Interrupted"}

AtRest == pending = "None"

\* A cycle was left halfway by an error: no later cycle can begin.
Wedged == schedState = "Scheduling"

-----------------------------------------------------------------------------
\* Effects the operations share.

PauseRunning ==
    [e \in Events |-> IF e = RunningEvent THEN "Paused" ELSE status[e]]

\* The Kernel closes the user's Active window before it activates another.
Activate(e) ==
    [f \in Events |-> IF f = e THEN "Active"
                      ELSE IF window[f] = "Active" THEN "Expired"
                      ELSE window[f]]

\* (mutant: the window outlives its Event)
CloseNothing(e) == window

Close(e) == [f \in Events |-> IF f = e /\ window[f] = "Active"
                              THEN "Expired" ELSE window[f]]

\* (mutant: the Execution Context keeps naming an Event that stopped)
ContextKept(e) == context

ContextWithout(e) == IF context = e THEN Idle ELSE context

-----------------------------------------------------------------------------
\* Recommendations.

Init ==
    /\ status = [e \in Events |-> "Recommended"]
    /\ window = [e \in Events |-> "Created"]
    /\ rec = [r \in Recommendations |-> "Generated"]
    /\ age = [r \in Recommendations |-> 0]
    /\ disturber = [d \in Disturbers |-> "Detected"]
    /\ context = Idle
    /\ contextsKnown \in BOOLEAN
    /\ candidates = <<>>
    /\ plan = <<>>
    /\ schedState = "Idle"
    /\ pending = "Recalculate"

\* A tick or a user proposal presents a Recommendation and admits it.
AdmitRecommendation(r) ==
    /\ AtRest
    /\ rec[r] = "Generated"
    /\ rec' = [rec EXCEPT ![r] = "Pending"]
    /\ pending' = "Recalculate"
    /\ UNCHANGED <<status, window, age, disturber, context, contextsKnown,
                   candidates, plan, schedState>>

Expired(r) == age[r] >= Validity

AcceptRecommendation(r) ==
    /\ AtRest
    /\ rec[r] = "Pending"
    /\ ~ Expired(r)
    /\ rec' = [rec EXCEPT ![r] = "Accepted"]
    /\ pending' = "Recalculate"
    /\ UNCHANGED <<status, window, age, disturber, context, contextsKnown,
                   candidates, plan, schedState>>

\* A rejection is applied outside the cycles: none follows it.
RejectRecommendation(r) ==
    /\ AtRest
    /\ rec[r] = "Pending"
    /\ rec' = [rec EXCEPT ![r] = "Rejected"]
    /\ UNCHANGED <<status, window, age, disturber, context, contextsKnown,
                   candidates, plan, schedState, pending>>

-----------------------------------------------------------------------------
\* User actions on Events.  Each one that succeeds is followed by a cycle.

UserStarted(e) ==
    /\ AtRest
    /\ PauseRunning[e] \in {"Scheduled", "Ready"}
    /\ status' = [PauseRunning EXCEPT ![e] = "Started"]
    /\ window' = Activate(e)
    /\ context' = e
    /\ pending' = "Recalculate"
    /\ UNCHANGED <<rec, age, disturber, contextsKnown, candidates, plan, schedState>>

UserPaused(e) ==
    /\ AtRest
    /\ status[e] \in RunningStates
    /\ status' = [status EXCEPT ![e] = "Paused"]
    /\ context' = ContextWithout(e)
    /\ pending' = "Recalculate"
    /\ UNCHANGED <<window, rec, age, disturber, contextsKnown, candidates, plan,
                   schedState>>

\* The window of a resumed Event is left as it is.
UserResumed(e) ==
    /\ AtRest
    /\ PauseRunning[e] \in {"Paused", "Interrupted"}
    /\ status' = [PauseRunning EXCEPT ![e] = "Resumed"]
    /\ context' = e
    /\ pending' = "Recalculate"
    /\ UNCHANGED <<window, rec, age, disturber, contextsKnown, candidates, plan,
                   schedState>>

\* A start or a resumption that the lifecycle refuses has already paused the
\* running Event: the error leaves that in place, and no cycle follows.
PauseStands ==
    /\ Running(status) # {}
    /\ status' = PauseRunning
    /\ context' = Idle
    /\ UNCHANGED <<window, rec, age, disturber, contextsKnown, candidates, plan,
                   schedState, pending>>

StartRefused(e) ==
    /\ AtRest
    /\ PauseRunning[e] \notin {"Recommended", "Scheduled", "Ready"}
    /\ PauseStands

ResumeRefused(e) ==
    /\ AtRest
    /\ PauseRunning[e] \notin {"Recommended", "Paused", "Interrupted"}
    /\ PauseStands

UserCompleted(e) ==
    /\ AtRest
    /\ status[e] \in RunningStates
    /\ status' = [status EXCEPT ![e] = "Completed"]
    /\ window' = Close(e)
    /\ context' = ContextWithout(e)
    /\ pending' = "Recalculate"
    /\ UNCHANGED <<rec, age, disturber, contextsKnown, candidates, plan, schedState>>

UserCancelled(e) ==
    /\ AtRest
    /\ status[e] \in {"Scheduled", "Ready", "Paused", "Interrupted"}
    /\ status' = [status EXCEPT ![e] = "Cancelled"]
    /\ pending' = "Recalculate"
    /\ UNCHANGED <<window, rec, age, disturber, context, contextsKnown,
                   candidates, plan, schedState>>

\* Archival, too, happens outside the cycles.
ArchiveEvent(e) ==
    /\ AtRest
    /\ status[e] \in {"Completed", "Skipped", "Cancelled"}
    /\ status' = [status EXCEPT ![e] = "Archived"]
    /\ UNCHANGED <<window, rec, age, disturber, context, contextsKnown,
                   candidates, plan, schedState, pending>>

\* An action already under way enters as a running Event, in the Context the
\* report names or in a bindable one.
ReportSpontaneous(e) ==
    /\ AtRest
    /\ status[e] = "Recommended"
    /\ status' = [PauseRunning EXCEPT ![e] = "Started"]
    /\ window' = Activate(e)
    /\ context' = e
    /\ pending' = "Recalculate"
    /\ UNCHANGED <<rec, age, disturber, contextsKnown, candidates, plan, schedState>>

-----------------------------------------------------------------------------
\* Disturbances, ticks and time.

\* Applied when a running Event owns the current window, else only Analyzed.
ReportDisturber(d) ==
    /\ AtRest
    /\ disturber[d] = "Detected"
    /\ disturber' = [disturber EXCEPT ![d] = IF context # Idle THEN "Applied"
                                             ELSE "Analyzed"]
    /\ pending' = d
    /\ UNCHANGED <<status, window, rec, age, context, contextsKnown, candidates,
                   plan, schedState>>

Tick ==
    /\ AtRest
    /\ pending' = "Recalculate"
    /\ UNCHANGED <<runtimeVars, age, contextsKnown, candidates, plan, schedState>>

\* A Recommendation's dates matter until it is decided and its Event has left
\* Scheduled; beyond the greater of its two dates no comparison changes.
Dated == {r \in Recommendations : \/ rec[r] \in {"Pending", "Accepted"}
                                  \/ status[r] = "Scheduled"}

AgeBound(r) == Max({Validity, Lead[r]})

TimePasses ==
    /\ AtRest
    /\ age' = [r \in Recommendations |->
                 IF r \in Dated THEN Min({age[r] + 1, AgeBound(r)}) ELSE 0]
    /\ candidates' = Waited(candidates)
    /\ plan' = Elapsed(plan)
    /\ UNCHANGED <<runtimeVars, contextsKnown, schedState, pending>>

-----------------------------------------------------------------------------
\* The stages of a cycle, in the order they run.

\* Disturbance: the running Event is interrupted and its window closed.
Disturbs == pending \in Disturbers /\ RunningEvent # Idle

WindowsAfterDisturbance == IF Disturbs THEN Close(RunningEvent) ELSE window

Interrupted(e) == IF Disturbs /\ e = RunningEvent THEN "Interrupted" ELSE status[e]

Resolved ==
    [d \in Disturbers |-> IF d = pending /\ disturber[d] = "Applied"
                          THEN "Resolved" ELSE disturber[d]]

\* Accepted Recommendations become Scheduled Events once a Context exists.
Consumed ==
    IF Bindable(WindowsAfterDisturbance)
    THEN {r \in Recommendations : rec[r] = "Accepted"} ELSE {}

\* (mutants: consumption is not recorded; validity is not looked at)
DecidedWithoutConsuming ==
    [r \in Recommendations |->
        IF rec[r] = "Pending" /\ Expired(r) THEN "Expired" ELSE rec[r]]
DecidedWithoutExpiry ==
    [r \in Recommendations |-> IF r \in Consumed THEN "Consumed" ELSE rec[r]]

Decided ==
    [r \in Recommendations |->
        IF r \in Consumed THEN "Consumed"
        ELSE IF rec[r] = "Pending" /\ Expired(r) THEN "Expired" ELSE rec[r]]

Materialised(e, st) == IF e \in Consumed THEN "Scheduled" ELSE st

NewCandidate(r) ==
    [event |-> r, priority |-> Priority[r], wait |-> Max({Lead[r] - age[r], 0})]

Entries(e) == {p \in ToSet(plan) : p.event = e}

\* (mutants: the status is not looked at before skipping; nothing becomes Ready)
AdvancedBlindly(e, st) ==
    IF \E p \in Entries(e) : Ended(p) THEN "Skipped"
    ELSE IF st = "Scheduled" /\ \E p \in Entries(e) : Due(p) THEN "Ready"
    ELSE st
AdvancedOnlySkipping(e, st) ==
    IF st \in {"Scheduled", "Ready"} /\ \E p \in Entries(e) : Ended(p) THEN "Skipped"
    ELSE st

\* The old plan moves unstarted Events on.
Advanced(e, st) ==
    IF st \in {"Scheduled", "Ready"} /\ \E p \in Entries(e) : Ended(p) THEN "Skipped"
    ELSE IF st = "Scheduled" /\ \E p \in Entries(e) : Due(p) THEN "Ready"
    ELSE st

\* An entry of the old plan that is due outranks an Event's own; an Event
\* without an entry of its own counts as priority 0.
Outranked(e) ==
    \E p \in ToSet(plan) :
        /\ p.event # e
        /\ Due(p)
        /\ \A q \in Entries(e) : p.priority > q.priority
        /\ Entries(e) = {} => p.priority > 0

Overtaken(e, st) ==
    IF st = "Interrupted" /\ Outranked(e) THEN "Overtaken" ELSE st

StatusAfterCycle ==
    [e \in Events |-> Overtaken(e, Advanced(e, Materialised(e, Interrupted(e))))]

\* (mutant: an Event whose planning facts are lost stays unplanned)
ReplannedFromFacts(s) ==
    LET wanted == {e \in Events : s[e] \in Plannable}
    IN  Enqueued(candidates, {c \in ToSet(candidates) : c.event \in wanted},
                 {NewCandidate(r) : r \in Consumed \cap wanted})

\* The candidates of the Events still to plan, given their new statuses; one
\* whose planning facts are lost is planned anew, with priority 0 and from now.
Replanned(s) ==
    LET wanted == {e \in Events : s[e] \in Plannable}
        kept   == {c \in ToSet(candidates) : c.event \in wanted}
        lost   == wanted \ (Consumed \cup {c.event : c \in kept})
    IN  Enqueued(candidates, kept,
                 {NewCandidate(r) : r \in Consumed \cap wanted} \cup
                 {[event |-> e, priority |-> 0, wait |-> 0] : e \in lost})

\* A resumed Event cannot be interrupted: the stage raises after it closed
\* the window.
CycleRaises == Disturbs /\ status[RunningEvent] = "Resumed"

RunCycle ==
    /\ ~ AtRest
    /\ ~ Wedged
    /\ ~ CycleRaises
    /\ status' = StatusAfterCycle
    /\ window' = WindowsAfterDisturbance
    /\ rec' = Decided
    /\ disturber' = Resolved
    /\ context' = IF Disturbs THEN Idle ELSE context
    /\ candidates' \in Replanned(status')
    /\ plan' = PlanFor(candidates')
    /\ schedState' = IF plan' = <<>> /\ Running(status') = {}
                     THEN "Idle" ELSE "Monitoring"
    /\ pending' = IF Consumed # {} \/ window' # window THEN "Recalculate"
                  ELSE "None"
    /\ UNCHANGED <<age, contextsKnown>>

CycleAborts ==
    /\ ~ AtRest
    /\ ~ Wedged
    /\ CycleRaises
    /\ window' = WindowsAfterDisturbance
    /\ schedState' = "Scheduling"
    /\ pending' = "None"
    /\ UNCHANGED <<status, rec, age, disturber, context, contextsKnown,
                   candidates, plan>>

CycleRefused ==
    /\ ~ AtRest
    /\ Wedged
    /\ pending' = "None"
    /\ UNCHANGED <<runtimeVars, age, contextsKnown, candidates, plan, schedState>>

\* The process ends and another one boots from the store, which held every
\* change as soon as it was announced.  The plan and its facts are gone, and
\* Contexts added to the store meanwhile are known from now on.
Restart ==
    /\ context' = RunningEvent
    /\ contextsKnown' \in {contextsKnown, TRUE}
    /\ candidates' = <<>>
    /\ plan' = <<>>
    /\ schedState' = "Idle"
    /\ pending' = "Recalculate"
    /\ UNCHANGED <<status, window, rec, age, disturber>>

-----------------------------------------------------------------------------
OfferAction(r) ==
    \/ AdmitRecommendation(r)
    \/ AcceptRecommendation(r)
    \/ RejectRecommendation(r)

UserAction(e) ==
    \/ UserStarted(e)
    \/ UserPaused(e)
    \/ UserResumed(e)
    \/ StartRefused(e)
    \/ ResumeRefused(e)
    \/ UserCompleted(e)
    \/ UserCancelled(e)
    \/ ArchiveEvent(e)

Next ==
    \/ \E r \in Recommendations : OfferAction(r)
    \/ \E e \in Events : UserAction(e)
    \/ \E e \in Spontaneous : ReportSpontaneous(e)
    \/ \E d \in Disturbers : ReportDisturber(d)
    \/ Tick
    \/ TimePasses
    \/ RunCycle
    \/ CycleAborts
    \/ CycleRefused
    \/ Restart

Spec == Init /\ [][Next]_vars

-----------------------------------------------------------------------------
\* Types.

CoreTypeOK ==
    /\ status \in [Events -> EventStatus]
    /\ window \in [Events -> WindowStatus]
    /\ rec \in [Recommendations -> RecommendationStatus]
    /\ disturber \in [Disturbers -> DisturberStatus]
    /\ context \in Events \cup {Idle}
    /\ contextsKnown \in BOOLEAN
    /\ schedState \in {"Idle", "Monitoring", "Scheduling"}
    /\ pending \in {"None", "Recalculate"} \cup Disturbers

PlanTypeOK ==
    /\ age \in [Recommendations -> Nat]
    /\ candidates \in Seq([event : Events, priority : Nat, wait : Nat])
    /\ plan \in Seq([event : Events, priority : Nat, start : Int])

\* Every variable keeps its type.
TypeOK == CoreTypeOK /\ PlanTypeOK

-----------------------------------------------------------------------------
\* Invariants.

\* However starts, resumptions, spontaneous reports, disturbances and restarts
\* interleave, at most one Event is Started or Resumed (what the Kernel
\* refuses to boot without).
AtMostOneRunning == \A e, f \in Running(status) : e = f

\* The Execution Context names the running Event, and is Idle when none runs:
\* pausing, completing, interrupting and restarting keep the two together.
ContextNamesRunning ==
    \A e \in Events : context = e <=> status[e] \in RunningStates

\* At most one Context Window is Active, though a paused or cancelled Event
\* leaves its own open behind it.
OneActiveWindow ==
    \A e, f \in Events : window[e] = "Active" /\ window[f] = "Active" => e = f

\* The window tells how far execution went: unused before the Event begins,
\* Active while it is Started, closed once it is Completed, Interrupted or
\* Overtaken.
WindowFollowsEvent ==
    \A e \in Events :
        /\ status[e] \in {"Recommended", "Scheduled", "Ready", "Skipped"}
             => window[e] = "Created"
        /\ status[e] = "Started" => window[e] = "Active"
        /\ status[e] \in {"Completed", "Interrupted", "Overtaken"}
             => window[e] = "Expired"
        /\ status[e] \in {"Paused", "Resumed"} => window[e] \in {"Active", "Expired"}
        /\ window[e] \in {"Created", "Active", "Expired"}

\* A Recommendation is Consumed exactly when its Event has been admitted: no
\* acceptance is lost by a cycle, none is materialised twice.
MaterialisedOnce ==
    \A r \in Recommendations : rec[r] = "Consumed" <=> status[r] # "Recommended"

\* At rest the plan holds every Event that waits to begin or to continue after
\* a disturbance, and no Event that can no longer run.
PlanServesWork ==
    LET planned == {p.event : p \in ToSet(plan)}
    IN  AtRest /\ ~ Wedged =>
          \A e \in Events :
            /\ e \in planned => status[e] \in Plannable
            /\ status[e] \in {"Scheduled", "Ready", "Interrupted"} => e \in planned

-----------------------------------------------------------------------------
\* Action properties.

\* Whatever one operation does to several entities, each history follows its
\* state machine: no Event is unfinished, un-begun or skipped after it began.
HistoriesFollowMachines ==
    [][ /\ \A e \in Events : /\ Follows(EventEdges, status[e], status'[e])
                             /\ window'[e] # window[e]
                                  => <<window[e], window'[e]>> \in WindowEdges
        /\ \A r \in Recommendations :
              rec'[r] # rec[r] => <<rec[r], rec'[r]>> \in RecommendationEdges
        /\ \A d \in Disturbers : Follows(DisturberEdges, disturber[d], disturber'[d])
      ]_vars

\* The mandatory chain: when the cycle of a disturbance has run, nothing runs,
\* no window of an interrupted Event is open, and an Applied Disturber is
\* Resolved.
DisturbanceChain ==
    [][ RunCycle /\ pending \in Disturbers =>
          /\ context' = Idle
          /\ Running(status') = {}
          /\ \A e \in Running(status) :
                status'[e] \in {"Interrupted", "Overtaken"} /\ window'[e] = "Expired"
          /\ disturber'[pending] # "Applied" ]_vars

-----------------------------------------------------------------------------
\* The core implements one execution slot.

ClosedStates == {"Completed", "Skipped", "Cancelled", "Overtaken", "Archived"}

Execution == INSTANCE ExecutionSlot WITH
    slot      <- context,
    suspended <- {e \in Events : status[e] \in {"Paused", "Interrupted"}},
    closed    <- {e \in Events : status[e] \in ClosedStates}

\* Starts, pauses, resumptions, disturbances, overtakings, completions and
\* restarts amount to handing one slot on: a closed Event is never executed
\* again, and a restart leaves the slot to its occupant.
ImplementsExecutionSlot == Execution!Spec

-----------------------------------------------------------------------------
\* Liveness.  The daemon ticks at every interval and the clock advances
\* whatever the user does; a cycle that is owed runs.  Nothing is assumed of
\* the user, of disturbances, or of restarts.
Fairness ==
    /\ WF_vars(RunCycle)
    /\ WF_vars(CycleAborts)
    /\ WF_vars(CycleRefused)
    /\ SF_vars(Tick)
    /\ SF_vars(TimePasses)

FairSpec == Spec /\ Fairness

\* No Recommendation stays Pending for ever: it is decided or it expires, even
\* if the process is restarted again and again (unless the Scheduler wedges).
OffersAreSettled ==
    \A r \in Recommendations : rec[r] = "Pending" ~> rec[r] # "Pending" \/ Wedged

\* Another Event competes for the plan.
Contended(e) == \E f \in Events \ {e} : status[f] \in Plannable

RestartsCease == <>[][~ Restart]_vars

\* An Event alone in the plan does not stay Scheduled: it becomes Ready at its
\* time, or is started, cancelled or skipped.
UncontendedBecomesReady ==
    RestartsCease =>
        \A e \in Events :
            status[e] = "Scheduled" ~> status[e] # "Scheduled" \/ Contended(e) \/ Wedged

-----------------------------------------------------------------------------
\* What the documentation says and the code does not do.

\* "Every recalculation trigger causes a full deterministic cycle": the
\* Scheduler is always able to begin one.
EveryTriggerCausesACycle == ~ Wedged
=============================================================================
