-------------------------- MODULE SchedulerProofs ---------------------------
(***************************************************************************)
(* What the scheduling core guarantees for every set of Recommendations,   *)
(* Events and Disturbers, every priority, suggested timing, validity and   *)
(* slot length.                                                            *)
(*                                                                         *)
(* The safety invariants are not inductive one by one: a start pauses      *)
(* whatever runs, which is only harmless because at most one Event runs    *)
(* and the Execution Context names it; a consumed Recommendation only      *)
(* becomes a Scheduled Event with an unused window because its Event has   *)
(* not been admitted.  Their conjunction is inductive.                     *)
(*                                                                         *)
(* With them go the histories of what the core changes, the execution slot *)
(* it implements, the plan that follows the statuses, and the planner, for *)
(* every queue and against absolute time (MCPlanner).                      *)
(***************************************************************************)
EXTENDS Scheduler, MCPlanner, FiniteSetTheorems, FunctionTheorems, NaturalsInduction,
        WellFoundedInduction, TLAPS

IInv ==
    /\ CoreTypeOK
    /\ AtMostOneRunning
    /\ ContextNamesRunning
    /\ OneActiveWindow
    /\ WindowFollowsEvent
    /\ MaterialisedOnce

-----------------------------------------------------------------------------
\* The operators the actions share.

\* While the invariant holds, looking for the running Event (_running_event)
\* and reading the Execution Context come to the same.
LEMMA RunningEventIsContext ==
    ASSUME CoreTypeOK, AtMostOneRunning, ContextNamesRunning
    PROVE  /\ RunningEvent = context
           /\ context = Idle <=> Running(status) = {}
<1>1. Idle \notin Events
  BY IdentityAssumption
<1>2. context = Idle <=> Running(status) = {}
  BY <1>1 DEF CoreTypeOK, ContextNamesRunning, Running
<1>3. CASE Running(status) = {}
  BY <1>2, <1>3 DEF RunningEvent
<1>4. CASE Running(status) # {}
  <2>1. RunningEvent \in Running(status)
    BY <1>4 DEF RunningEvent
  <2>2. context \in Running(status)
    BY <1>2, <1>4 DEF CoreTypeOK, ContextNamesRunning, Running
  <2> QED
    BY <1>2, <2>1, <2>2 DEF AtMostOneRunning
<1> QED
  BY <1>3, <1>4

\* Pausing the running Event changes that Event only, and leaves none running.
LEMMA PauseRunningFacts ==
    ASSUME CoreTypeOK, AtMostOneRunning, ContextNamesRunning
    PROVE  /\ PauseRunning \in [Events -> EventStatus]
           /\ \A e \in Events :
                /\ PauseRunning[e] = IF e = context THEN "Paused" ELSE status[e]
                /\ PauseRunning[e] \notin RunningStates
<1>1. RunningEvent = context
  BY RunningEventIsContext
<1>2. \A e \in Events : PauseRunning[e] = IF e = context THEN "Paused" ELSE status[e]
  BY <1>1 DEF PauseRunning
<1>3. PauseRunning \in [Events -> EventStatus]
  BY DEF PauseRunning, CoreTypeOK, EventStatus
<1>4. \A e \in Events : PauseRunning[e] \notin RunningStates
  BY <1>2 DEF ContextNamesRunning, RunningStates
<1> QED
  BY <1>2, <1>3, <1>4

\* The Kernel's activation leaves exactly the window it activates open.
LEMMA ActivateFacts ==
    ASSUME CoreTypeOK, NEW e \in Events
    PROVE  /\ Activate(e) \in [Events -> WindowStatus]
           /\ \A f \in Events :
                /\ Activate(e)[f] = "Active" <=> f = e
                /\ f # e => Activate(e)[f] = IF window[f] = "Active" THEN "Expired"
                                             ELSE window[f]
BY DEF CoreTypeOK, Activate, WindowStatus

LEMMA CloseFacts ==
    ASSUME CoreTypeOK, NEW e \in Events
    PROVE  /\ Close(e) \in [Events -> WindowStatus]
           /\ \A f \in Events : f # e => Close(e)[f] = window[f]
           /\ Close(e)[e] = IF window[e] = "Active" THEN "Expired" ELSE window[e]
BY DEF CoreTypeOK, Close, WindowStatus

\* A disturbance interrupts the Event the Context names, and closes its window.
LEMMA DisturbsFacts ==
    ASSUME IInv
    PROVE  /\ Disturbs => context \in Events
           /\ \A e \in Events :
                Interrupted(e) = IF Disturbs /\ e = context THEN "Interrupted"
                                 ELSE status[e]
           /\ WindowsAfterDisturbance \in [Events -> WindowStatus]
           /\ \A e \in Events :
                WindowsAfterDisturbance[e] =
                    IF Disturbs /\ e = context /\ window[e] = "Active"
                    THEN "Expired" ELSE window[e]
<1>1. RunningEvent = context
  BY RunningEventIsContext DEF IInv
<1>2. Disturbs => context \in Events
  BY <1>1 DEF Disturbs, IInv, CoreTypeOK
<1>3. \A e \in Events :
        Interrupted(e) = IF Disturbs /\ e = context THEN "Interrupted" ELSE status[e]
  BY <1>1 DEF Interrupted
<1>4. WindowsAfterDisturbance \in [Events -> WindowStatus]
  BY <1>1, <1>2, CloseFacts DEF WindowsAfterDisturbance, IInv, CoreTypeOK
<1>5. \A e \in Events :
        WindowsAfterDisturbance[e] =
            IF Disturbs /\ e = context /\ window[e] = "Active"
            THEN "Expired" ELSE window[e]
  BY <1>1, <1>2, CloseFacts DEF WindowsAfterDisturbance, IInv
<1> QED
  BY <1>2, <1>3, <1>4, <1>5

\* What one cycle can make of an Event (_run_cycle, stage by stage).
CycleOutcome(e, st) ==
    \/ /\ e \in Consumed
       /\ status[e] = "Recommended"
       /\ st \in {"Scheduled", "Ready", "Skipped"}
    \/ /\ e \notin Consumed
       /\ Disturbs /\ e = context
       /\ st \in {"Interrupted", "Overtaken"}
    \/ /\ e \notin Consumed
       /\ ~ (Disturbs /\ e = context)
       /\ \/ st = status[e]
          \/ status[e] \in {"Scheduled", "Ready"} /\ st \in {"Ready", "Skipped"}
          \/ status[e] = "Interrupted" /\ st = "Overtaken"

LEMMA ConsumedIsNew ==
    ASSUME IInv
    PROVE  \A e \in Consumed : /\ e \in Recommendations
                               /\ rec[e] = "Accepted"
                               /\ status[e] = "Recommended"
BY DEF IInv, MaterialisedOnce, Consumed

LEMMA CycleFacts ==
    ASSUME IInv
    PROVE  /\ StatusAfterCycle \in [Events -> EventStatus]
           /\ \A e \in Events : CycleOutcome(e, StatusAfterCycle[e])
<1>1. ASSUME NEW e \in Events
      PROVE  CycleOutcome(e, StatusAfterCycle[e])
  <2> DEFINE materialised == Materialised(e, Interrupted(e))
             advanced     == Advanced(e, materialised)
  <2>1. StatusAfterCycle[e] = Overtaken(e, advanced)
    BY DEF StatusAfterCycle
  <2>2. CASE e \in Consumed
    <3>1. materialised = "Scheduled"
      BY <2>2 DEF Materialised
    <3>2. advanced \in {"Scheduled", "Ready", "Skipped"}
      BY <3>1 DEF Advanced
    <3>3. Overtaken(e, advanced) = advanced
      BY <3>2 DEF Overtaken
    <3> QED
      BY <2>1, <2>2, <3>2, <3>3, ConsumedIsNew DEF CycleOutcome
  <2>3. CASE e \notin Consumed /\ Disturbs /\ e = context
    <3>1. materialised = "Interrupted"
      BY <2>3, DisturbsFacts DEF Materialised
    <3>2. advanced = "Interrupted"
      BY <3>1 DEF Advanced
    <3>3. Overtaken(e, advanced) \in {"Interrupted", "Overtaken"}
      BY <3>2 DEF Overtaken
    <3> QED
      BY <2>1, <2>3, <3>3 DEF CycleOutcome
  <2>4. CASE e \notin Consumed /\ ~ (Disturbs /\ e = context)
    <3>1. materialised = status[e]
      BY <2>4, DisturbsFacts DEF Materialised
    <3>2. \/ advanced = status[e]
          \/ status[e] \in {"Scheduled", "Ready"} /\ advanced \in {"Ready", "Skipped"}
      BY <3>1 DEF Advanced
    <3>3. \/ Overtaken(e, advanced) = advanced
          \/ advanced = "Interrupted" /\ Overtaken(e, advanced) = "Overtaken"
      BY DEF Overtaken
    <3> QED
      BY <2>1, <2>4, <3>2, <3>3 DEF CycleOutcome
  <2> QED
    BY <2>2, <2>3, <2>4
<1>2. ASSUME NEW e \in Events
      PROVE  StatusAfterCycle[e] \in EventStatus
  BY <1>1 DEF CycleOutcome, IInv, CoreTypeOK, EventStatus
<1>3. StatusAfterCycle \in [Events -> EventStatus]
  BY <1>2 DEF StatusAfterCycle
<1> QED
  BY <1>1, <1>3

-----------------------------------------------------------------------------
\* The invariant holds initially.
LEMMA InitIInv == Init => IInv
<1> SUFFICES ASSUME Init PROVE IInv
  OBVIOUS
<1>1. Recommendations \subseteq Events /\ Idle \notin Events
  BY IdentityAssumption DEF Events
<1>2. CoreTypeOK
  BY DEF Init, CoreTypeOK, EventStatus, WindowStatus, RecommendationStatus,
         DisturberStatus
<1>3. AtMostOneRunning /\ ContextNamesRunning
  BY <1>1 DEF Init, AtMostOneRunning, ContextNamesRunning, Running, RunningStates
<1>4. OneActiveWindow /\ WindowFollowsEvent
  BY DEF Init, OneActiveWindow, WindowFollowsEvent
<1>5. MaterialisedOnce
  BY <1>1 DEF Init, MaterialisedOnce
<1> QED
  BY <1>2, <1>3, <1>4, <1>5 DEF IInv

-----------------------------------------------------------------------------
\* Every operation preserves it.

LEMMA Distinct == Recommendations \subseteq Events /\ Idle \notin Events
BY IdentityAssumption DEF Events

\* Operations that change nothing the invariant speaks of but a Recommendation
\* that is and remains unconsumed.
LEMMA OfferStep ==
    ASSUME IInv, NEW r \in Recommendations, OfferAction(r)
    PROVE  IInv'
<1>1. /\ UNCHANGED <<status, window, disturber, context, contextsKnown, schedState>>
      /\ rec' \in [Recommendations -> RecommendationStatus]
      /\ pending' \in {"None", "Recalculate"} \cup Disturbers
  BY DEF OfferAction, AdmitRecommendation, AcceptRecommendation,
         RejectRecommendation, IInv, CoreTypeOK, RecommendationStatus
<1>2. \A q \in Recommendations : rec'[q] = "Consumed" <=> rec[q] = "Consumed"
  BY DEF OfferAction, AdmitRecommendation, AcceptRecommendation,
         RejectRecommendation, IInv, CoreTypeOK
<1>3. CoreTypeOK'
  BY <1>1 DEF IInv, CoreTypeOK
<1>4. AtMostOneRunning' /\ ContextNamesRunning' /\ OneActiveWindow'
  BY <1>1 DEF IInv, AtMostOneRunning, ContextNamesRunning, OneActiveWindow, Running
<1>5. WindowFollowsEvent' /\ MaterialisedOnce'
  BY <1>1, <1>2 DEF IInv, WindowFollowsEvent, MaterialisedOnce
<1> QED
  BY <1>3, <1>4, <1>5 DEF IInv

\* An Event enters execution in a window of its own: a start from Scheduled or
\* Ready, or a spontaneous report.
Begins(e) ==
    /\ \/ status[e] \in {"Scheduled", "Ready"}
       \/ e \in Spontaneous /\ status[e] = "Recommended"
    /\ status' = [PauseRunning EXCEPT ![e] = "Started"]
    /\ window' = Activate(e)
    /\ context' = e
    /\ pending' = "Recalculate"
    /\ UNCHANGED <<rec, disturber, contextsKnown, schedState>>

LEMMA BeginStep ==
    ASSUME IInv, NEW e \in Events, Begins(e)
    PROVE  IInv'
<1> USE DEF Begins
<1>1. \A f \in Events : /\ PauseRunning[f] = IF f = context THEN "Paused" ELSE status[f]
                        /\ PauseRunning[f] \notin RunningStates
  BY PauseRunningFacts DEF IInv
<1>2. status' \in [Events -> EventStatus]
  BY PauseRunningFacts DEF IInv, EventStatus
<1>3. \A f \in Events : status'[f] = IF f = e THEN "Started"
                                     ELSE IF f = context THEN "Paused" ELSE status[f]
  BY <1>1, PauseRunningFacts DEF IInv
<1>4. \A f \in Events : /\ window'[f] = "Active" <=> f = e
                        /\ f # e => window'[f] = IF window[f] = "Active" THEN "Expired"
                                                 ELSE window[f]
  BY ActivateFacts DEF IInv
<1>5. CoreTypeOK'
  BY <1>2, ActivateFacts DEF IInv, CoreTypeOK
<1>6. AtMostOneRunning' /\ ContextNamesRunning'
  BY <1>1, <1>3, PauseRunningFacts, Distinct
     DEF IInv, AtMostOneRunning, ContextNamesRunning, Running, RunningStates
<1>7. OneActiveWindow'
  BY <1>4 DEF OneActiveWindow
<1>8. WindowFollowsEvent'
  BY <1>3, <1>4 DEF IInv, WindowFollowsEvent, ContextNamesRunning, RunningStates
<1>9. MaterialisedOnce'
  BY <1>3, Distinct, IdentityAssumption
     DEF IInv, MaterialisedOnce, ContextNamesRunning, RunningStates
<1> QED
  BY <1>5, <1>6, <1>7, <1>8, <1>9 DEF IInv

\* Putting the running Event aside, at the user's request or on the way to a
\* start or a resumption that is then refused.
LEMMA PauseStep ==
    ASSUME IInv, NEW e \in Events, status[e] \in RunningStates,
           status' = [f \in Events |-> IF f = e THEN "Paused" ELSE status[f]],
           context' = Idle, pending' \in {"None", "Recalculate"} \cup Disturbers,
           UNCHANGED <<window, rec, disturber, contextsKnown, schedState>>
    PROVE  IInv'
<1>1. e = context
  BY DEF IInv, ContextNamesRunning
<1>2. CoreTypeOK'
  BY DEF IInv, CoreTypeOK, EventStatus
<1>3. AtMostOneRunning' /\ ContextNamesRunning'
  BY <1>1, Distinct
     DEF IInv, AtMostOneRunning, ContextNamesRunning, Running, RunningStates
<1>4. OneActiveWindow'
  BY DEF IInv, OneActiveWindow
<1>5. WindowFollowsEvent'
  BY DEF IInv, WindowFollowsEvent, RunningStates
<1>6. MaterialisedOnce'
  BY Distinct DEF IInv, MaterialisedOnce, RunningStates
<1> QED
  BY <1>2, <1>3, <1>4, <1>5, <1>6 DEF IInv

LEMMA UserPausedStep ==
    ASSUME IInv, NEW e \in Events, UserPaused(e)
    PROVE  IInv'
<1>1. context' = Idle
  BY DEF UserPaused, ContextWithout, IInv, ContextNamesRunning
<1>2. status' = [f \in Events |-> IF f = e THEN "Paused" ELSE status[f]]
  BY DEF UserPaused, IInv, CoreTypeOK
<1> QED
  BY <1>1, <1>2, PauseStep DEF UserPaused

LEMMA PauseStandsStep ==
    ASSUME IInv, PauseStands
    PROVE  IInv'
<1>1. context \in Events /\ status[context] \in RunningStates
  BY RunningEventIsContext DEF PauseStands, IInv, CoreTypeOK, ContextNamesRunning
<1>2. status' = [f \in Events |-> IF f = context THEN "Paused" ELSE status[f]]
  BY RunningEventIsContext DEF PauseStands, PauseRunning, IInv
<1>3. pending' \in {"None", "Recalculate"} \cup Disturbers
  BY DEF PauseStands, IInv, CoreTypeOK
<1> QED
  BY <1>1, <1>2, <1>3, PauseStep DEF PauseStands

LEMMA UserResumedStep ==
    ASSUME IInv, NEW e \in Events, UserResumed(e)
    PROVE  IInv'
<1>1. \A f \in Events : /\ PauseRunning[f] = IF f = context THEN "Paused" ELSE status[f]
                        /\ PauseRunning[f] \notin RunningStates
  BY PauseRunningFacts DEF IInv
<1>2. status' \in [Events -> EventStatus]
  BY PauseRunningFacts DEF UserResumed, IInv, EventStatus
<1>3. \A f \in Events : status'[f] = IF f = e THEN "Resumed"
                                     ELSE IF f = context THEN "Paused" ELSE status[f]
  BY <1>1, PauseRunningFacts DEF UserResumed, IInv
<1>4. e = context \/ status[e] \in {"Paused", "Interrupted"}
  BY <1>1 DEF UserResumed
<1>5. CoreTypeOK'
  BY <1>2 DEF UserResumed, IInv, CoreTypeOK
<1>6. AtMostOneRunning' /\ ContextNamesRunning'
  BY <1>1, <1>3, Distinct
     DEF UserResumed, IInv, AtMostOneRunning, ContextNamesRunning, Running, RunningStates
<1>7. OneActiveWindow'
  BY DEF UserResumed, IInv, OneActiveWindow
<1>8. WindowFollowsEvent'
  BY <1>3, <1>4
     DEF UserResumed, IInv, WindowFollowsEvent, ContextNamesRunning, RunningStates
<1>9. MaterialisedOnce'
  BY <1>3, <1>4, Distinct
     DEF UserResumed, IInv, MaterialisedOnce, ContextNamesRunning, RunningStates
<1> QED
  BY <1>5, <1>6, <1>7, <1>8, <1>9 DEF IInv

LEMMA UserCompletedStep ==
    ASSUME IInv, NEW e \in Events, UserCompleted(e)
    PROVE  IInv'
<1>1. \A f \in Events : status'[f] = IF f = e THEN "Completed" ELSE status[f]
  BY DEF UserCompleted, IInv, CoreTypeOK
<1>2. context = e /\ context' = Idle
  BY DEF UserCompleted, ContextWithout, IInv, ContextNamesRunning
<1>3. \A f \in Events : window'[f] = IF f = e /\ window[f] = "Active" THEN "Expired"
                                     ELSE window[f]
  BY CloseFacts DEF UserCompleted, IInv
<1>4. CoreTypeOK'
  BY <1>2, CloseFacts DEF UserCompleted, IInv, CoreTypeOK, EventStatus
<1>5. AtMostOneRunning' /\ ContextNamesRunning'
  BY <1>1, <1>2, Distinct
     DEF UserCompleted, IInv, AtMostOneRunning, ContextNamesRunning, Running, RunningStates
<1>6. OneActiveWindow'
  BY <1>3 DEF IInv, OneActiveWindow
<1>7. WindowFollowsEvent'
  BY <1>1, <1>3 DEF UserCompleted, IInv, WindowFollowsEvent, RunningStates
<1>8. MaterialisedOnce'
  BY <1>1, Distinct DEF UserCompleted, IInv, MaterialisedOnce, RunningStates
<1> QED
  BY <1>4, <1>5, <1>6, <1>7, <1>8 DEF IInv

\* An Event that is not running ends: it is cancelled or archived.
LEMMA EndStep ==
    ASSUME IInv, NEW e \in Events, UserCancelled(e) \/ ArchiveEvent(e)
    PROVE  IInv'
<1>1. PICK st \in {"Cancelled", "Archived"} :
        \A f \in Events : status'[f] = IF f = e THEN st ELSE status[f]
  BY DEF UserCancelled, ArchiveEvent, IInv, CoreTypeOK
<1>2. /\ UNCHANGED <<window, rec, disturber, context, contextsKnown, schedState>>
      /\ pending' \in {"None", "Recalculate"} \cup Disturbers
      /\ status[e] \notin RunningStates \cup {"Recommended"}
  BY DEF UserCancelled, ArchiveEvent, IInv, CoreTypeOK, RunningStates
<1>3. CoreTypeOK'
  BY <1>2 DEF UserCancelled, ArchiveEvent, IInv, CoreTypeOK, EventStatus
<1>4. AtMostOneRunning' /\ ContextNamesRunning'
  BY <1>1, <1>2
     DEF IInv, AtMostOneRunning, ContextNamesRunning, Running, RunningStates
<1>5. OneActiveWindow' /\ WindowFollowsEvent'
  BY <1>1, <1>2 DEF IInv, OneActiveWindow, WindowFollowsEvent
<1>6. MaterialisedOnce'
  BY <1>1, <1>2, Distinct DEF IInv, MaterialisedOnce
<1> QED
  BY <1>3, <1>4, <1>5, <1>6 DEF IInv

\* Operations that leave Events, windows and Recommendations as they are and
\* only move the Disturber, the Scheduler or the cycle owed; a Restart, too,
\* since the Runtime derives its Execution Context from the running Event.
LEMMA BesideStep ==
    ASSUME IInv, UNCHANGED <<status, window, rec>>,
           context' \in {context, RunningEvent},
           disturber' \in [Disturbers -> DisturberStatus],
           contextsKnown' \in BOOLEAN,
           schedState' \in {"Idle", "Monitoring", "Scheduling"},
           pending' \in {"None", "Recalculate"} \cup Disturbers
    PROVE  IInv'
<1>1. context' = context
  BY RunningEventIsContext DEF IInv
<1>2. CoreTypeOK'
  BY <1>1 DEF IInv, CoreTypeOK
<1>3. AtMostOneRunning' /\ ContextNamesRunning'
  BY <1>1 DEF IInv, AtMostOneRunning, ContextNamesRunning, Running
<1>4. OneActiveWindow' /\ WindowFollowsEvent' /\ MaterialisedOnce'
  BY DEF IInv, OneActiveWindow, WindowFollowsEvent, MaterialisedOnce
<1> QED
  BY <1>2, <1>3, <1>4 DEF IInv

LEMMA ReportDisturberStep ==
    ASSUME IInv, NEW d \in Disturbers, ReportDisturber(d)
    PROVE  IInv'
<1>1. disturber' \in [Disturbers -> DisturberStatus]
  BY DEF ReportDisturber, IInv, CoreTypeOK, DisturberStatus
<1> QED
  BY <1>1, BesideStep DEF ReportDisturber, IInv, CoreTypeOK

\* A cycle that runs to its end.
LEMMA RunCycleStep ==
    ASSUME IInv, RunCycle
    PROVE  IInv'
<1>1. \A e \in Events : CycleOutcome(e, status'[e])
  BY CycleFacts DEF RunCycle
<1>2. \A e \in Events : window'[e] = IF Disturbs /\ e = context /\ window[e] = "Active"
                                     THEN "Expired" ELSE window[e]
  BY DisturbsFacts DEF RunCycle
<1>3. context' = IF Disturbs THEN Idle ELSE context
  BY DEF RunCycle
<1>4. Disturbs => context \in Events /\ status[context] = "Started"
  BY DisturbsFacts, RunningEventIsContext
     DEF RunCycle, CycleRaises, IInv, ContextNamesRunning, RunningStates
<1>5. CoreTypeOK'
  <2>1. status' \in [Events -> EventStatus] /\ window' \in [Events -> WindowStatus]
    BY CycleFacts, DisturbsFacts DEF RunCycle
  <2>2. rec' \in [Recommendations -> RecommendationStatus]
    BY DEF RunCycle, Decided, IInv, CoreTypeOK, RecommendationStatus
  <2>3. disturber' \in [Disturbers -> DisturberStatus]
    BY DEF RunCycle, Resolved, IInv, CoreTypeOK, DisturberStatus
  <2>4. context' \in Events \cup {Idle} /\ contextsKnown' \in BOOLEAN
    BY <1>3 DEF RunCycle, IInv, CoreTypeOK
  <2>5. /\ schedState' \in {"Idle", "Monitoring", "Scheduling"}
        /\ pending' \in {"None", "Recalculate"} \cup Disturbers
    BY DEF RunCycle
  <2> QED
    BY <2>1, <2>2, <2>3, <2>4, <2>5 DEF CoreTypeOK
<1>6. ContextNamesRunning'
  BY <1>1, <1>3, Distinct DEF CycleOutcome, IInv, ContextNamesRunning, RunningStates
<1>7. AtMostOneRunning'
  BY <1>6 DEF ContextNamesRunning, AtMostOneRunning, Running
<1>8. OneActiveWindow'
  BY <1>2 DEF IInv, OneActiveWindow
<1>9. WindowFollowsEvent'
  BY <1>1, <1>2, <1>4 DEF CycleOutcome, IInv, WindowFollowsEvent
<1>10. MaterialisedOnce'
  <2> SUFFICES ASSUME NEW r \in Recommendations
               PROVE  rec'[r] = "Consumed" <=> status'[r] # "Recommended"
    BY DEF MaterialisedOnce
  <2>1. rec'[r] = "Consumed" <=> r \in Consumed \/ rec[r] = "Consumed"
    BY DEF RunCycle, Decided
  <2>2. CycleOutcome(r, status'[r])
    BY <1>1, Distinct
  <2>3. status'[r] # "Recommended" <=> r \in Consumed \/ status[r] # "Recommended"
    BY <2>2, <1>4 DEF CycleOutcome
  <2> QED
    BY <2>1, <2>3 DEF IInv, MaterialisedOnce
<1> QED
  BY <1>5, <1>6, <1>7, <1>8, <1>9, <1>10 DEF IInv

\* A cycle that raises has already closed the window of the resumed Event.
LEMMA CycleAbortsStep ==
    ASSUME IInv, CycleAborts
    PROVE  IInv'
<1>1. \A e \in Events : window'[e] = IF Disturbs /\ e = context /\ window[e] = "Active"
                                     THEN "Expired" ELSE window[e]
  BY DisturbsFacts DEF CycleAborts
<1>2. status[context] = "Resumed"
  BY RunningEventIsContext DEF CycleAborts, CycleRaises, IInv
<1>3. CoreTypeOK'
  BY DisturbsFacts DEF CycleAborts, IInv, CoreTypeOK
<1>4. AtMostOneRunning' /\ ContextNamesRunning' /\ MaterialisedOnce'
  BY DEF CycleAborts, IInv, AtMostOneRunning, ContextNamesRunning, Running,
         MaterialisedOnce
<1>5. OneActiveWindow'
  BY <1>1 DEF IInv, OneActiveWindow
<1>6. WindowFollowsEvent'
  BY <1>1, <1>2 DEF CycleAborts, IInv, WindowFollowsEvent
<1> QED
  BY <1>3, <1>4, <1>5, <1>6 DEF IInv

LEMMA UserActionStep ==
    ASSUME IInv, NEW e \in Events, UserAction(e)
    PROVE  IInv'
<1>1. CASE UserStarted(e)
  <2>1. status[e] \in {"Scheduled", "Ready"}
    BY <1>1, PauseRunningFacts DEF UserStarted, IInv
  <2>2. Begins(e)
    BY <1>1, <2>1 DEF UserStarted, Begins
  <2> QED
    BY <2>2, BeginStep
<1>2. CASE UserPaused(e)
  BY <1>2, UserPausedStep
<1>3. CASE UserResumed(e)
  BY <1>3, UserResumedStep
<1>4. CASE StartRefused(e) \/ ResumeRefused(e)
  BY <1>4, PauseStandsStep DEF StartRefused, ResumeRefused
<1>5. CASE UserCompleted(e)
  BY <1>5, UserCompletedStep
<1>6. CASE UserCancelled(e) \/ ArchiveEvent(e)
  BY <1>6, EndStep
<1> QED
  BY <1>1, <1>2, <1>3, <1>4, <1>5, <1>6 DEF UserAction

LEMMA NextIInv == IInv /\ [Next]_vars => IInv'
<1> SUFFICES ASSUME IInv, [Next]_vars PROVE IInv'
  OBVIOUS
<1>1. CASE \E r \in Recommendations : OfferAction(r)
  BY <1>1, OfferStep
<1>2. CASE \E e \in Events : UserAction(e)
  BY <1>2, UserActionStep
<1>3. CASE \E e \in Spontaneous : ReportSpontaneous(e)
  <2> PICK e \in Spontaneous : ReportSpontaneous(e)
    BY <1>3
  <2>1. e \in Events
    BY DEF Events
  <2>2. Begins(e)
    BY DEF ReportSpontaneous, Begins
  <2> QED
    BY <2>1, <2>2, BeginStep
<1>4. CASE \E d \in Disturbers : ReportDisturber(d)
  BY <1>4, ReportDisturberStep
<1>5. CASE Tick \/ TimePasses
  BY <1>5, BesideStep DEF Tick, TimePasses, runtimeVars, IInv, CoreTypeOK
<1>6. CASE RunCycle
  BY <1>6, RunCycleStep
<1>7. CASE CycleAborts
  BY <1>7, CycleAbortsStep
<1>8. CASE CycleRefused \/ UNCHANGED vars
  BY <1>8, BesideStep DEF CycleRefused, vars, runtimeVars, IInv, CoreTypeOK
<1>9. CASE Restart
  BY <1>9, BesideStep DEF Restart, IInv, CoreTypeOK
<1> QED
  BY <1>1, <1>2, <1>3, <1>4, <1>5, <1>6, <1>7, <1>8, <1>9 DEF Next

-----------------------------------------------------------------------------
\* The safety of the core.

\* The conjunction of the core's invariants holds in every reachable state.
THEOREM Invariance == Spec => []IInv
BY InitIInv, NextIInv, PTL DEF Spec

\* However user actions, reports, disturbances, cycles and restarts
\* interleave, two Events never run together.
THEOREM Exclusion == Spec => []AtMostOneRunning
<1>1. IInv => AtMostOneRunning
  BY DEF IInv
<1> QED
  BY <1>1, Invariance, PTL

\* The Execution Context is always that of the running Event.
THEOREM ContextAgrees == Spec => []ContextNamesRunning
<1>1. IInv => ContextNamesRunning
  BY DEF IInv
<1> QED
  BY <1>1, Invariance, PTL

\* Two Context Windows are never Active together, and each window tells how far
\* the execution of its Event went.
THEOREM Windows == Spec => [](OneActiveWindow /\ WindowFollowsEvent)
<1>1. IInv => OneActiveWindow /\ WindowFollowsEvent
  BY DEF IInv
<1> QED
  BY <1>1, Invariance, PTL

\* An accepted Recommendation becomes an Event once.
THEOREM Materialisation == Spec => []MaterialisedOnce
<1>1. IInv => MaterialisedOnce
  BY DEF IInv
<1> QED
  BY <1>1, Invariance, PTL

\* The mandatory chain of a disturbance (_apply_disturbance): after its cycle
\* nothing runs, the window of what ran is closed, the Disturber is settled.
THEOREM Chain == Spec => DisturbanceChain
<1> DEFINE Settled ==
        /\ context' = Idle
        /\ Running(status') = {}
        /\ \A e \in Running(status) :
              status'[e] \in {"Interrupted", "Overtaken"} /\ window'[e] = "Expired"
        /\ disturber'[pending] # "Applied"
<1>1. ASSUME IInv, RunCycle, pending \in Disturbers
      PROVE  Settled
  <2>1. Disturbs <=> context # Idle
    BY <1>1, RunningEventIsContext DEF Disturbs, IInv
  <2>2. context' = Idle
    BY <1>1, <2>1 DEF RunCycle
  <2>3. Running(status') = {}
    <3>1. IInv'
      BY <1>1, RunCycleStep
    <3> QED
      BY <2>2, <3>1, Distinct DEF IInv, ContextNamesRunning, Running
  <2>4. ASSUME NEW e \in Running(status)
        PROVE  status'[e] \in {"Interrupted", "Overtaken"} /\ window'[e] = "Expired"
    <3>1. e \in Events /\ e = context /\ status[e] \in RunningStates /\ Disturbs
      BY <1>1, <2>1, Distinct DEF Running, IInv, ContextNamesRunning
    <3>2. status'[e] \in {"Interrupted", "Overtaken"}
      BY <1>1, <3>1, CycleFacts, ConsumedIsNew
         DEF RunCycle, CycleOutcome, RunningStates
    <3>3. status[e] = "Started"
      BY <1>1, <3>1, RunningEventIsContext
         DEF RunCycle, CycleRaises, RunningStates, IInv
    <3>4. window'[e] = "Expired"
      BY <1>1, <3>1, <3>3, DisturbsFacts DEF RunCycle, IInv, WindowFollowsEvent
    <3> QED
      BY <3>2, <3>4
  <2>5. disturber'[pending] # "Applied"
    BY <1>1 DEF RunCycle, Resolved
  <2> QED
    BY <2>2, <2>3, <2>4, <2>5
<1>2. IInv => [RunCycle /\ pending \in Disturbers => Settled]_vars
  BY <1>1
<1> QED
  BY <1>2, Invariance, PTL DEF DisturbanceChain

-----------------------------------------------------------------------------
\* Histories: each handler moves an entity along the edges of its machine.

LEMMA OneHop ==
    ASSUME NEW edges, NEW a, NEW b, <<a, b>> \in edges
    PROVE  b \in Hops(edges, a)
BY DEF Hops

LEMMA TwoHops ==
    ASSUME NEW edges, NEW a, NEW b, NEW c, <<a, b>> \in edges, <<b, c>> \in edges
    PROVE  c \in Hops(edges, a)
<1> DEFINE Step(S) == {e[2] : e \in {f \in edges : f[1] \in S}}
<1>1. b \in Step({a})
  OBVIOUS
<1>2. c \in Step(Step({a}))
  BY <1>1
<1> QED
  BY <1>2 DEF Hops

LEMMA ThreeHops ==
    ASSUME NEW edges, NEW a, NEW b, NEW c, NEW d,
           <<a, b>> \in edges, <<b, c>> \in edges, <<c, d>> \in edges
    PROVE  d \in Hops(edges, a)
<1> DEFINE Step(S) == {e[2] : e \in {f \in edges : f[1] \in S}}
<1>1. b \in Step({a})
  OBVIOUS
<1>2. c \in Step(Step({a}))
  BY <1>1
<1>3. d \in Step(Step(Step({a})))
  BY <1>2
<1> QED
  BY <1>3 DEF Hops

\* The paths the handlers take through the lifecycle of an Event.
Paths ==
    ({"Recommended"} \X {"Scheduled", "Ready", "Skipped", "Started"})
      \cup ({"Scheduled"} \X {"Ready", "Skipped", "Started", "Cancelled"})
      \cup ({"Ready"} \X {"Skipped", "Started", "Cancelled"})
      \cup ({"Started"} \X {"Paused", "Resumed", "Interrupted", "Overtaken", "Completed"})
      \cup ({"Resumed"} \X {"Paused", "Completed"})
      \cup ({"Paused"} \X {"Resumed", "Cancelled"})
      \cup ({"Interrupted"} \X {"Resumed", "Cancelled", "Overtaken"})
      \cup ({"Completed", "Skipped", "Cancelled"} \X {"Archived"})

LEMMA PathsAreLegal ==
    ASSUME NEW from, NEW to, <<from, to>> \in Paths
    PROVE  Follows(EventEdges, from, to)
<1>1. CASE <<from, to>> \in EventEdges
  BY <1>1, OneHop DEF Follows
<1>2. CASE from = "Recommended" /\ to \in {"Ready", "Skipped"}
  <2>1. <<from, "Scheduled">> \in EventEdges /\ <<"Scheduled", to>> \in EventEdges
    BY <1>2 DEF EventEdges
  <2> QED
    BY <2>1, TwoHops DEF Follows
<1>3. CASE from = "Recommended" /\ to = "Started"
  <2>1. /\ <<from, "Scheduled">> \in EventEdges
        /\ <<"Scheduled", "Ready">> \in EventEdges
        /\ <<"Ready", to>> \in EventEdges
    BY <1>3 DEF EventEdges
  <2> QED
    BY <2>1, ThreeHops DEF Follows
<1>4. CASE from = "Scheduled" /\ to = "Started"
  <2>1. <<from, "Ready">> \in EventEdges /\ <<"Ready", to>> \in EventEdges
    BY <1>4 DEF EventEdges
  <2> QED
    BY <2>1, TwoHops DEF Follows
<1>5. CASE from = "Started" /\ to = "Resumed"
  <2>1. <<from, "Paused">> \in EventEdges /\ <<"Paused", to>> \in EventEdges
    BY <1>5 DEF EventEdges
  <2> QED
    BY <2>1, TwoHops DEF Follows
<1>6. CASE from = "Started" /\ to = "Overtaken"
  <2>1. <<from, "Interrupted">> \in EventEdges /\ <<"Interrupted", to>> \in EventEdges
    BY <1>6 DEF EventEdges
  <2> QED
    BY <2>1, TwoHops DEF Follows
<1>7. CASE from = "Resumed" /\ to = "Paused"
  <2>1. <<from, "Started">> \in EventEdges /\ <<"Started", to>> \in EventEdges
    BY <1>7 DEF EventEdges
  <2> QED
    BY <2>1, TwoHops DEF Follows
<1>8. \/ <<from, to>> \in EventEdges
      \/ from = "Recommended" /\ to \in {"Ready", "Skipped", "Started"}
      \/ from = "Scheduled" /\ to = "Started"
      \/ from = "Started" /\ to \in {"Resumed", "Overtaken"}
      \/ from = "Resumed" /\ to = "Paused"
  BY DEF Paths, EventEdges
<1> QED
  BY <1>1, <1>2, <1>3, <1>4, <1>5, <1>6, <1>7, <1>8

EventsFollow == \A e \in Events : status'[e] = status[e] \/ <<status[e], status'[e]>> \in Paths

WindowsFollow ==
    \A e \in Events : window'[e] # window[e] => <<window[e], window'[e]>> \in WindowEdges

OffersFollow ==
    \A r \in Recommendations : rec'[r] # rec[r] => <<rec[r], rec'[r]>> \in RecommendationEdges

DisturbersFollow ==
    \A d \in Disturbers : Follows(DisturberEdges, disturber[d], disturber'[d])

AllFollow == EventsFollow /\ WindowsFollow /\ OffersFollow /\ DisturbersFollow

LEMMA UnchangedFollow ==
    /\ UNCHANGED status => EventsFollow
    /\ UNCHANGED window => WindowsFollow
    /\ UNCHANGED rec => OffersFollow
    /\ UNCHANGED disturber => DisturbersFollow
BY DEF EventsFollow, WindowsFollow, OffersFollow, DisturbersFollow, Follows

LEMMA OfferFollows ==
    ASSUME IInv, NEW r \in Recommendations, OfferAction(r)
    PROVE  AllFollow
<1>1. UNCHANGED <<status, window, disturber>>
  BY DEF OfferAction, AdmitRecommendation, AcceptRecommendation, RejectRecommendation
<1>2. OffersFollow
  BY DEF OfferAction, AdmitRecommendation, AcceptRecommendation, RejectRecommendation,
         OffersFollow, RecommendationEdges, IInv, CoreTypeOK
<1> QED
  BY <1>1, <1>2, UnchangedFollow DEF AllFollow

\* What begins had an unused window; the one it replaces is closed.
LEMMA BeginFollows ==
    ASSUME IInv, NEW e \in Events, Begins(e)
    PROVE  AllFollow
<1> USE DEF Begins
<1>1. \A f \in Events : status'[f] = IF f = e THEN "Started"
                                     ELSE IF f = context THEN "Paused" ELSE status[f]
  BY PauseRunningFacts DEF IInv
<1>2. EventsFollow
  BY <1>1 DEF EventsFollow, Paths, IInv, ContextNamesRunning, RunningStates
<1>3. window[e] = "Created" /\ window'[e] = "Active"
  BY ActivateFacts DEF IInv, WindowFollowsEvent
<1>4. WindowsFollow
  BY <1>3, ActivateFacts DEF WindowsFollow, WindowEdges, IInv
<1> QED
  BY <1>2, <1>4, UnchangedFollow DEF AllFollow

LEMMA UserActionFollows ==
    ASSUME IInv, NEW e \in Events, UserAction(e)
    PROVE  AllFollow
<1>1. CASE UserStarted(e)
  <2>1. status[e] \in {"Scheduled", "Ready"}
    BY <1>1, PauseRunningFacts DEF UserStarted, IInv
  <2>2. Begins(e)
    BY <1>1, <2>1 DEF UserStarted, Begins
  <2> QED
    BY <2>2, BeginFollows
<1>2. CASE UserPaused(e)
  <2>1. EventsFollow
    BY <1>2 DEF UserPaused, EventsFollow, Paths, RunningStates, IInv, CoreTypeOK
  <2> QED
    BY <1>2, <2>1, UnchangedFollow DEF UserPaused, AllFollow
<1>3. CASE UserResumed(e)
  <2>1. \A f \in Events : status'[f] = IF f = e THEN "Resumed"
                                       ELSE IF f = context THEN "Paused" ELSE status[f]
    BY <1>3, PauseRunningFacts DEF UserResumed, IInv
  <2>2. e = context \/ status[e] \in {"Paused", "Interrupted"}
    BY <1>3, PauseRunningFacts DEF UserResumed, IInv
  <2>3. EventsFollow
    BY <2>1, <2>2 DEF EventsFollow, Paths, IInv, ContextNamesRunning, RunningStates
  <2> QED
    BY <1>3, <2>3, UnchangedFollow DEF UserResumed, AllFollow
<1>4. CASE StartRefused(e) \/ ResumeRefused(e)
  <2>1. PauseStands
    BY <1>4 DEF StartRefused, ResumeRefused
  <2>2. EventsFollow
    BY <2>1, PauseRunningFacts
       DEF PauseStands, EventsFollow, Paths, IInv, ContextNamesRunning, RunningStates
  <2> QED
    BY <2>1, <2>2, UnchangedFollow DEF PauseStands, AllFollow
<1>5. CASE UserCompleted(e)
  <2>1. EventsFollow
    BY <1>5 DEF UserCompleted, EventsFollow, Paths, RunningStates, IInv, CoreTypeOK
  <2>2. WindowsFollow
    BY <1>5, CloseFacts DEF UserCompleted, WindowsFollow, WindowEdges, IInv
  <2> QED
    BY <1>5, <2>1, <2>2, UnchangedFollow DEF UserCompleted, AllFollow
<1>6. CASE UserCancelled(e)
  <2>1. EventsFollow
    BY <1>6 DEF UserCancelled, EventsFollow, Paths, IInv, CoreTypeOK
  <2> QED
    BY <1>6, <2>1, UnchangedFollow DEF UserCancelled, AllFollow
<1>7. CASE ArchiveEvent(e)
  <2>1. EventsFollow
    BY <1>7 DEF ArchiveEvent, EventsFollow, Paths, IInv, CoreTypeOK
  <2> QED
    BY <1>7, <2>1, UnchangedFollow DEF ArchiveEvent, AllFollow
<1> QED
  BY <1>1, <1>2, <1>3, <1>4, <1>5, <1>6, <1>7 DEF UserAction

LEMMA ReportDisturberFollows ==
    ASSUME IInv, NEW d \in Disturbers, ReportDisturber(d)
    PROVE  AllFollow
<1>1. /\ <<"Detected", "Recorded">> \in DisturberEdges
      /\ <<"Recorded", "Analyzed">> \in DisturberEdges
      /\ <<"Analyzed", "Applied">> \in DisturberEdges
  BY DEF DisturberEdges
<1>2. Follows(DisturberEdges, "Detected", "Analyzed")
  BY <1>1, TwoHops DEF Follows
<1>3. Follows(DisturberEdges, "Detected", "Applied")
  BY <1>1, ThreeHops DEF Follows
<1>4. disturber[d] = "Detected" /\ disturber'[d] \in {"Analyzed", "Applied"}
  BY DEF ReportDisturber, IInv, CoreTypeOK
<1>5. \A c \in Disturbers \ {d} : disturber'[c] = disturber[c]
  BY DEF ReportDisturber, IInv, CoreTypeOK
<1>6. Follows(DisturberEdges, disturber[d], disturber'[d])
  BY <1>2, <1>3, <1>4
<1>7. \A c \in Disturbers \ {d} : Follows(DisturberEdges, disturber[c], disturber'[c])
  BY <1>5 DEF Follows
<1>8. DisturbersFollow
  BY <1>6, <1>7 DEF DisturbersFollow
<1> QED
  BY <1>8, UnchangedFollow DEF ReportDisturber, AllFollow

\* The stages of a cycle one after another move an Event along at most two edges.
LEMMA RunCycleFollows ==
    ASSUME IInv, RunCycle
    PROVE  AllFollow
<1>1. Disturbs => context \in Events /\ status[context] = "Started"
  BY DisturbsFacts, RunningEventIsContext
     DEF RunCycle, CycleRaises, IInv, ContextNamesRunning, RunningStates
<1>2. EventsFollow
  <2>1. \A e \in Events : CycleOutcome(e, status'[e])
    BY CycleFacts DEF RunCycle
  <2> QED
    BY <1>1, <2>1 DEF EventsFollow, CycleOutcome, Paths
<1>3. WindowsFollow
  BY DisturbsFacts DEF RunCycle, WindowsFollow, WindowEdges
<1>4. OffersFollow
  BY ConsumedIsNew DEF RunCycle, OffersFollow, Decided, RecommendationEdges
<1>5. DisturbersFollow
  <2> SUFFICES ASSUME NEW d \in Disturbers
               PROVE  Follows(DisturberEdges, disturber[d], disturber'[d])
    BY DEF DisturbersFollow
  <2>1. \/ disturber'[d] = disturber[d]
        \/ disturber[d] = "Applied" /\ disturber'[d] = "Resolved"
    BY DEF RunCycle, Resolved
  <2>2. <<"Applied", "Resolved">> \in DisturberEdges
    BY DEF DisturberEdges
  <2> QED
    BY <2>1, <2>2, OneHop DEF Follows
<1> QED
  BY <1>2, <1>3, <1>4, <1>5 DEF AllFollow

LEMMA StepsFollow == IInv /\ Next => AllFollow
<1> SUFFICES ASSUME IInv, Next PROVE AllFollow
  OBVIOUS
<1>1. CASE \E r \in Recommendations : OfferAction(r)
  BY <1>1, OfferFollows
<1>2. CASE \E e \in Events : UserAction(e)
  BY <1>2, UserActionFollows
<1>3. CASE \E e \in Spontaneous : ReportSpontaneous(e)
  <2> PICK e \in Spontaneous : ReportSpontaneous(e)
    BY <1>3
  <2>1. e \in Events
    BY DEF Events
  <2>2. Begins(e)
    BY DEF ReportSpontaneous, Begins
  <2> QED
    BY <2>1, <2>2, BeginFollows
<1>4. CASE \E d \in Disturbers : ReportDisturber(d)
  BY <1>4, ReportDisturberFollows
<1>5. CASE RunCycle
  BY <1>5, RunCycleFollows
<1>6. CASE CycleAborts
  <2>1. WindowsFollow
    BY <1>6, DisturbsFacts DEF CycleAborts, WindowsFollow, WindowEdges
  <2> QED
    BY <1>6, <2>1, UnchangedFollow DEF CycleAborts, AllFollow
<1>7. CASE Tick \/ TimePasses \/ CycleRefused \/ Restart
  BY <1>7, UnchangedFollow
     DEF Tick, TimePasses, CycleRefused, Restart, runtimeVars, AllFollow
<1> QED
  BY <1>1, <1>2, <1>3, <1>4, <1>5, <1>6, <1>7 DEF Next

\* However many transitions one operation makes, the history of each Event,
\* window, Recommendation and Disturber follows its state machine (each
\* transition in the program goes through state_machines/definitions.py).
THEOREM Histories == Spec => HistoriesFollowMachines
<1>1. AllFollow =>
        /\ \A e \in Events : /\ Follows(EventEdges, status[e], status'[e])
                             /\ window'[e] # window[e]
                                  => <<window[e], window'[e]>> \in WindowEdges
        /\ \A r \in Recommendations :
              rec'[r] # rec[r] => <<rec[r], rec'[r]>> \in RecommendationEdges
        /\ \A d \in Disturbers : Follows(DisturberEdges, disturber[d], disturber'[d])
  <2>1. EventsFollow => \A e \in Events : Follows(EventEdges, status[e], status'[e])
    BY PathsAreLegal DEF EventsFollow, Follows
  <2> QED
    BY <2>1 DEF AllFollow, WindowsFollow, OffersFollow, DisturbersFollow
<1>2. IInv /\ Next =>
        /\ \A e \in Events : /\ Follows(EventEdges, status[e], status'[e])
                             /\ window'[e] # window[e]
                                  => <<window[e], window'[e]>> \in WindowEdges
        /\ \A r \in Recommendations :
              rec'[r] # rec[r] => <<rec[r], rec'[r]>> \in RecommendationEdges
        /\ \A d \in Disturbers : Follows(DisturberEdges, disturber[d], disturber'[d])
  BY <1>1, StepsFollow
<1> QED
  BY <1>2, Invariance, PTL DEF Spec, HistoriesFollowMachines

-----------------------------------------------------------------------------
\* The core implements one execution slot: every operation hands the slot on in
\* one of the ways ExecutionSlot allows, or leaves slot, suspended and closed
\* Events as they are.


Suspended == {e \in Events : status[e] \in {"Paused", "Interrupted"}}
Closed    == {e \in Events : status[e] \in ClosedStates}

\* A step of the core, seen through the mapping.
SlotStep == [Execution!Next]_(Execution!slotVars)

LEMMA SlotUnchanged ==
    ASSUME UNCHANGED <<context, status>>
    PROVE  SlotStep
BY DEF SlotStep, Execution!slotVars

\* Beginning and resuming occupy the slot.
LEMMA Occupies ==
    ASSUME IInv, NEW e \in Events, NEW st \in RunningStates,
           PauseRunning[e] \in {"Scheduled", "Ready", "Paused", "Interrupted",
                                "Recommended"},
           status' = [PauseRunning EXCEPT ![e] = st],
           context' = e
    PROVE  SlotStep
<1>1. \A f \in Events : PauseRunning[f] = IF f = context THEN "Paused" ELSE status[f]
  BY PauseRunningFacts DEF IInv
<1>2. \A f \in Events : status'[f] = IF f = e THEN st
                                     ELSE IF f = context THEN "Paused" ELSE status[f]
  BY <1>1, PauseRunningFacts DEF IInv
<1>3. e \notin Closed
  BY <1>1 DEF Closed, ClosedStates, IInv, ContextNamesRunning, RunningStates
<1>4. Closed' = Closed
  BY <1>2, <1>3 DEF Closed, ClosedStates, IInv, ContextNamesRunning, RunningStates
<1>5. Suspended' = (Suspended \cup ({context} \ {Idle})) \ {e}
  BY <1>2, Distinct DEF Suspended, IInv, CoreTypeOK, RunningStates
<1>6. Execution!Occupy(e)
  BY <1>3, <1>4, <1>5 DEF Execution!Occupy, Closed, Suspended
<1> QED
  BY <1>6 DEF SlotStep, Execution!Next

\* Pausing vacates it.
LEMMA Vacates ==
    ASSUME IInv, NEW e \in Events, status[e] \in RunningStates,
           status' = [f \in Events |-> IF f = e THEN "Paused" ELSE status[f]],
           context' = Idle
    PROVE  SlotStep
<1>1. e = context
  BY DEF IInv, ContextNamesRunning
<1>2. Closed' = Closed \cup {}
  BY DEF Closed, ClosedStates, RunningStates
<1>3. Suspended' = (Suspended \cup {context}) \ {}
  BY <1>1 DEF Suspended
<1>4. Execution!Vacate({})
  BY <1>1, <1>2, <1>3, Distinct DEF Execution!Vacate, Closed, Suspended
<1> QED
  BY <1>4 DEF SlotStep, Execution!Next

LEMMA UserActionSlot ==
    ASSUME IInv, NEW e \in Events, UserAction(e)
    PROVE  SlotStep
<1>1. CASE UserStarted(e)
  BY <1>1, Occupies DEF UserStarted, RunningStates
<1>2. CASE UserPaused(e)
  <2>1. context' = Idle
    BY <1>2 DEF UserPaused, ContextWithout, IInv, ContextNamesRunning
  <2>2. status' = [f \in Events |-> IF f = e THEN "Paused" ELSE status[f]]
    BY <1>2 DEF UserPaused, IInv, CoreTypeOK
  <2>3. status[e] \in RunningStates
    BY <1>2 DEF UserPaused
  <2> QED
    BY <2>1, <2>2, <2>3, Vacates
<1>3. CASE UserResumed(e)
  BY <1>3, Occupies DEF UserResumed, RunningStates
<1>4. CASE StartRefused(e) \/ ResumeRefused(e)
  <2>1. PauseStands
    BY <1>4 DEF StartRefused, ResumeRefused
  <2>2. context \in Events /\ status[context] \in RunningStates
    BY <2>1, RunningEventIsContext
       DEF PauseStands, IInv, CoreTypeOK, ContextNamesRunning
  <2>3. status' = [f \in Events |-> IF f = context THEN "Paused" ELSE status[f]]
    BY <2>1, RunningEventIsContext DEF PauseStands, PauseRunning, IInv
  <2> QED
    BY <2>1, <2>2, <2>3, Vacates DEF PauseStands
<1>5. CASE UserCompleted(e)
  <2>1. \A f \in Events : status'[f] = IF f = e THEN "Completed" ELSE status[f]
    BY <1>5 DEF UserCompleted, IInv, CoreTypeOK
  <2>2. context = e /\ context' = Idle
    BY <1>5 DEF UserCompleted, ContextWithout, IInv, ContextNamesRunning
  <2>3. Closed' = Closed \cup {context}
    BY <2>1, <2>2 DEF Closed, ClosedStates
  <2>4. Suspended' = Suspended
    BY <1>5, <2>1 DEF UserCompleted, Suspended, RunningStates
  <2>5. Execution!Finish
    BY <2>2, <2>3, <2>4, Distinct DEF Execution!Finish, Closed, Suspended
  <2> QED
    BY <2>5 DEF SlotStep, Execution!Next
<1>6. CASE UserCancelled(e)
  <2>1. \A f \in Events : status'[f] = IF f = e THEN "Cancelled" ELSE status[f]
    BY <1>6 DEF UserCancelled, IInv, CoreTypeOK
  <2>2. context # e /\ context' = context /\ e \notin Closed
    BY <1>6 DEF UserCancelled, IInv, ContextNamesRunning, RunningStates, Closed,
                ClosedStates
  <2>3. Closed' = Closed \cup {e} /\ Suspended' = Suspended \ {e}
    BY <2>1 DEF Closed, ClosedStates, Suspended
  <2>4. Execution!GiveUp({e})
    BY <2>2, <2>3 DEF Execution!GiveUp, Closed, Suspended
  <2>5. {e} \in SUBSET (Events \ Closed)
    BY <2>2
  <2> QED
    BY <2>4, <2>5 DEF SlotStep, Execution!Next, Closed
<1>7. CASE ArchiveEvent(e)
  <2>1. \A f \in Events : status'[f] = IF f = e THEN "Archived" ELSE status[f]
    BY <1>7 DEF ArchiveEvent, IInv, CoreTypeOK
  <2>2. context' = context /\ Closed' = Closed /\ Suspended' = Suspended
    BY <1>7, <2>1 DEF ArchiveEvent, Closed, ClosedStates, Suspended
  <2> QED
    BY <2>2 DEF SlotStep, Execution!slotVars, Closed, Suspended
<1> QED
  BY <1>1, <1>2, <1>3, <1>4, <1>5, <1>6, <1>7 DEF UserAction

\* A cycle gives Events up (skipped or overtaken) and, for a disturbance,
\* vacates the slot.
LEMMA RunCycleSlot ==
    ASSUME IInv, RunCycle
    PROVE  SlotStep
<1>0. PICK given_up : given_up = Closed' \ Closed
  OBVIOUS
<1>1. \A e \in Events : CycleOutcome(e, status'[e])
  BY CycleFacts DEF RunCycle
<1>2. Closed' = Closed \cup given_up
  BY <1>0, <1>1, ConsumedIsNew
     DEF CycleOutcome, Closed, ClosedStates, IInv, ContextNamesRunning, RunningStates
<1>3. given_up \in SUBSET (Events \ Closed)
  BY <1>0 DEF Closed
<1>4. CASE Disturbs
  <2>1. context \in Events /\ context # Idle /\ context' = Idle
    BY <1>4, DisturbsFacts, Distinct DEF RunCycle
  <2>2. Suspended' = (Suspended \cup {context}) \ given_up
    BY <1>0, <1>1, <1>4, <2>1, ConsumedIsNew
       DEF CycleOutcome, Suspended, Closed, ClosedStates, IInv,
           ContextNamesRunning, RunningStates
  <2>3. Execution!Vacate(given_up)
    BY <1>2, <2>1, <2>2 DEF Execution!Vacate, Closed, Suspended
  <2> QED
    BY <1>3, <2>3 DEF SlotStep, Execution!Next, Closed
<1>5. CASE ~ Disturbs
  <2>1. context' = context
    BY <1>5 DEF RunCycle
  <2>2. context \notin given_up
    BY <1>0, <1>1, <1>5, ConsumedIsNew
       DEF CycleOutcome, Closed, ClosedStates, IInv, ContextNamesRunning,
           RunningStates
  <2>3. Suspended' = Suspended \ given_up
    BY <1>0, <1>1, <1>5, ConsumedIsNew
       DEF CycleOutcome, Suspended, Closed, ClosedStates
  <2>4. Execution!GiveUp(given_up)
    BY <1>2, <2>1, <2>2, <2>3 DEF Execution!GiveUp, Closed, Suspended
  <2> QED
    BY <1>3, <2>4 DEF SlotStep, Execution!Next, Closed
<1> QED
  BY <1>4, <1>5

LEMMA StepsOfTheSlot == IInv /\ [Next]_vars => SlotStep
<1> SUFFICES ASSUME IInv, [Next]_vars PROVE SlotStep
  OBVIOUS
<1>1. CASE \E r \in Recommendations : OfferAction(r)
  BY <1>1, SlotUnchanged
     DEF OfferAction, AdmitRecommendation, AcceptRecommendation, RejectRecommendation
<1>2. CASE \E e \in Events : UserAction(e)
  BY <1>2, UserActionSlot
<1>3. CASE \E e \in Spontaneous : ReportSpontaneous(e)
  <2> PICK e \in Spontaneous : ReportSpontaneous(e)
    BY <1>3
  <2>1. e \in Events /\ PauseRunning[e] \in {"Recommended", "Paused"}
    BY PauseRunningFacts DEF Events, ReportSpontaneous, IInv
  <2> QED
    BY <2>1, Occupies DEF ReportSpontaneous, RunningStates
<1>4. CASE \E d \in Disturbers : ReportDisturber(d)
  BY <1>4, SlotUnchanged DEF ReportDisturber
<1>5. CASE RunCycle
  BY <1>5, RunCycleSlot
<1>6. CASE Restart
  <2>1. context' = context
    BY <1>6, RunningEventIsContext DEF Restart, IInv
  <2> QED
    BY <1>6, <2>1, SlotUnchanged DEF Restart
<1>7. CASE Tick \/ TimePasses \/ CycleAborts \/ CycleRefused \/ UNCHANGED vars
  BY <1>7, SlotUnchanged
     DEF Tick, TimePasses, CycleAborts, CycleRefused, vars, runtimeVars
<1> QED
  BY <1>1, <1>2, <1>3, <1>4, <1>5, <1>6, <1>7 DEF Next

\* The core implements the execution slot: whatever is planned, disturbed or
\* restarted, a closed Event is never executed again and one Event at a time
\* is executed.
THEOREM Implementation == Spec => ImplementsExecutionSlot
<1>1. Init => Execution!Init
  BY DEF Init, Execution!Init, ClosedStates
<1>2. IInv /\ [Next]_vars => [Execution!Next]_(Execution!slotVars)
  BY StepsOfTheSlot DEF SlotStep
<1> QED
  BY <1>1, <1>2, Invariance, PTL DEF Spec, ImplementsExecutionSlot, Execution!Spec

-----------------------------------------------------------------------------
\* The planner (scheduler/planner.py) for every queue: what its sort and its cursor
\* return.  Each is shown to have an answer: the sort by counting what comes before
\* a candidate, the cursor by the least slot it could not place.

\* The greater of two numbers.
LEMMA Greater ==
    ASSUME NEW a \in Int, NEW b \in Int
    PROVE  Max({a, b}) = IF a >= b THEN a ELSE b
<1>1. \A x \in {a, b} : (\A y \in {a, b} : x >= y) => x = IF a >= b THEN a ELSE b
  OBVIOUS
<1>2. \E x \in {a, b} : \A y \in {a, b} : x >= y
  OBVIOUS
<1> QED
  BY <1>1, <1>2 DEF Max

\* The lesser of two numbers.
LEMMA Lesser ==
    ASSUME NEW a \in Int, NEW b \in Int
    PROVE  Min({a, b}) = IF a <= b THEN a ELSE b
<1>1. \A x \in {a, b} : (\A y \in {a, b} : x <= y) => x = IF a <= b THEN a ELSE b
  OBVIOUS
<1>2. \E x \in {a, b} : \A y \in {a, b} : x <= y
  OBVIOUS
<1> QED
  BY <1>1, <1>2 DEF Min

\* A set of numbers that is not empty has a least one.
LEMMA Least ==
    ASSUME NEW T \in SUBSET Nat, T # {}
    PROVE  \E n \in T : \A m \in T : n <= m
<1>1. IsWellFoundedOn(OpToRel(<, Nat), Nat)
  BY NatLessThanWellFounded
<1>2. PICK n \in T : \A m \in T : ~(<<m, n>> \in OpToRel(<, Nat))
  BY <1>1, WFMin
<1>3. \A m \in T : m \in Nat /\ n \in Nat /\ ~(m < n)
  BY <1>2 DEF OpToRel
<1> QED
  BY <1>3

\* A sequence of a finite set has each of its elements once.
LEMMA SequenceOfSet ==
    ASSUME NEW S, IsFiniteSet(S), NEW q \in SetToSeqs(S)
    PROVE  /\ q \in Seq(S) /\ Len(q) = Cardinality(S)
           /\ ToSet(q) = S
           /\ \A i, j \in DOMAIN q : q[i] = q[j] => i = j
<1> DEFINE n == Cardinality(S)
<1>1. n \in Nat
  BY FS_CardinalityType
<1>2. q \in [1 .. n -> S] /\ \A i, j \in 1 .. n : i # j => q[i] # q[j]
  BY DEF SetToSeqs
<1> HIDE DEF n
<1>3. q \in Seq(S) /\ Len(q) = n /\ DOMAIN q = 1 .. n
  BY <1>1, <1>2
<1>4. q \in Injection(1 .. n, S)
  BY <1>2, Fun_IsInj
<1>5. IsFiniteSet(1 .. n) /\ Cardinality(1 .. n) = n
  BY <1>1, FS_Interval
<1>6. q \in Surjection(1 .. n, S)
  BY <1>4, <1>5, FS_Injection DEF n
<1>7. \A t \in S : \E i \in 1 .. n : q[i] = t
  BY <1>6 DEF Surjection
<1>8. ToSet(q) = S
  BY <1>2, <1>3, <1>7 DEF ToSet
<1> QED
  BY <1>2, <1>3, <1>8 DEF n

\* Before is a strict and total order of the places of a queue.
Ahead(q, i) == {j \in DOMAIN q : Before(q, j, i)}

Rank(q, i) == Cardinality(Ahead(q, i)) + 1

\* A candidate ranks after those before it.
LEMMA RankTells ==
    ASSUME NEW n \in Nat, NEW q, DOMAIN q = 1 .. n, \A i \in 1 .. n : q[i].priority \in Nat,
           NEW i \in 1 .. n, NEW j \in 1 .. n, Before(q, i, j)
    PROVE  Rank(q, i) \in 1 .. n /\ Rank(q, j) \in 1 .. n /\ Rank(q, i) < Rank(q, j)
<1>1. IsFiniteSet(1 .. n) /\ Cardinality(1 .. n) = n
  BY FS_Interval
<1>2. \A k \in 1 .. n : Ahead(q, k) \subseteq 1 .. n /\ k \notin Ahead(q, k)
  BY DEF Ahead, Before
<1>3. ASSUME NEW k \in 1 .. n PROVE IsFiniteSet(Ahead(q, k)) /\ Rank(q, k) \in 1 .. n
  <2>1. IsFiniteSet(Ahead(q, k)) /\ Cardinality(Ahead(q, k)) <= n
        /\ (Cardinality(Ahead(q, k)) = n => Ahead(q, k) = 1 .. n)
    BY <1>1, <1>2, FS_Subset
  <2>2. Cardinality(Ahead(q, k)) \in Nat
    BY <2>1, FS_CardinalityType
  <2> QED
    BY <1>2, <2>1, <2>2 DEF Rank
<1>4. Ahead(q, i) \subseteq Ahead(q, j) /\ Ahead(q, i) # Ahead(q, j)
  <2>1. ASSUME NEW k \in Ahead(q, i) PROVE k \in Ahead(q, j)
    <3>1. k \in 1 .. n /\ Before(q, k, i) /\ q[k].priority \in Nat
      BY DEF Ahead
    <3>2. Before(q, k, j)
      BY <3>1 DEF Before
    <3> QED
      BY <3>1, <3>2 DEF Ahead
  <2>2. i \in Ahead(q, j)
    BY DEF Ahead
  <2> QED
    BY <1>2, <2>1, <2>2
<1>5. Cardinality(Ahead(q, i)) <= Cardinality(Ahead(q, j))
      /\ Cardinality(Ahead(q, i)) # Cardinality(Ahead(q, j))
  BY <1>3, <1>4, FS_Subset
<1>6. Cardinality(Ahead(q, i)) \in Nat /\ Cardinality(Ahead(q, j)) \in Nat
  BY <1>3, FS_CardinalityType
<1> QED
  BY <1>3, <1>5, <1>6 DEF Rank

\* Each place of the result is taken: the sort of the planner has an answer.
LEMMA Sortable ==
    ASSUME NEW n \in Nat, NEW q, DOMAIN q = 1 .. n, \A i \in 1 .. n : q[i].priority \in Nat
    PROVE  \E o \in SetToSeqs(1 .. n) : \A k, l \in DOMAIN o : k < l => Before(q, o[k], o[l])
<1> DEFINE rank == [i \in 1 .. n |-> Rank(q, i)]
           o    == [k \in 1 .. n |-> CHOOSE i \in 1 .. n : rank[i] = k]
<1>1. IsFiniteSet(1 .. n) /\ Cardinality(1 .. n) = n
  BY FS_Interval
<1>2. \A i, j \in 1 .. n : i # j => Before(q, i, j) \/ Before(q, j, i)
  BY DEF Before
<1>3. ASSUME NEW i \in 1 .. n PROVE Rank(q, i) \in 1 .. n
  <2>1. CASE \E j \in 1 .. n : j # i
    BY <1>2, <2>1, RankTells
  <2>2. CASE \A j \in 1 .. n : j = i
    <3>1. Ahead(q, i) = {}
      BY <2>2 DEF Ahead, Before
    <3> QED
      BY <3>1, FS_EmptySet DEF Rank
  <2> QED
    BY <2>1, <2>2
<1>4. ASSUME NEW i \in 1 .. n, NEW j \in 1 .. n, i # j
      PROVE  rank[i] # rank[j] /\ (rank[i] < rank[j] => Before(q, i, j))
  <2>1. Before(q, i, j) => Rank(q, i) < Rank(q, j)
    BY RankTells
  <2>2. Before(q, j, i) => Rank(q, j) < Rank(q, i)
    BY RankTells
  <2>3. Rank(q, i) \in Int /\ Rank(q, j) \in Int
    BY <1>3
  <2> QED
    BY <1>2, <1>4, <2>1, <2>2, <2>3
<1>5. rank \in [1 .. n -> 1 .. n]
  BY <1>3
<1> HIDE DEF rank
<1>6. rank \in Injection(1 .. n, 1 .. n)
  BY <1>4, <1>5, Fun_IsInj
<1>7. rank \in Surjection(1 .. n, 1 .. n)
  BY <1>1, <1>6, FS_Injection
<1>8. \A k \in 1 .. n : \E i \in 1 .. n : rank[i] = k
  BY <1>7 DEF Surjection
<1>9. o \in [1 .. n -> 1 .. n] /\ \A k \in 1 .. n : rank[o[k]] = k
  BY <1>5, <1>8
<1> HIDE DEF o
<1>10. o \in SetToSeqs(1 .. n)
  BY <1>1, <1>9 DEF SetToSeqs
<1>11. ASSUME NEW k \in 1 .. n, NEW l \in 1 .. n, k < l PROVE Before(q, o[k], o[l])
  <2>1. rank[o[k]] = k /\ rank[o[l]] = l /\ o[k] \in 1 .. n /\ o[l] \in 1 .. n
    BY <1>9
  <2>2. o[k] # o[l] /\ rank[o[k]] < rank[o[l]]
    BY <1>11, <2>1
  <2> QED
    BY <1>4, <2>1, <2>2
<1>12. DOMAIN o = 1 .. n
  BY <1>9
<1> QED
  BY <1>10, <1>11, <1>12

\* Ordered puts the places of a queue in order.
Sorts(q, order) ==
    /\ order \in [DOMAIN q -> DOMAIN q]
    /\ \A k, l \in DOMAIN q : order[k] = order[l] => k = l
    /\ \A i \in DOMAIN q : \E k \in DOMAIN q : order[k] = i
    /\ \A k, l \in DOMAIN q : k < l => Before(q, order[k], order[l])
    /\ Ordered(q) = [k \in DOMAIN q |-> q[order[k]]]

LEMMA OrderedSorts ==
    ASSUME NEW E, NEW q \in Seq([event : E, priority : Nat, wait : Nat])
    PROVE  \E order : Sorts(q, order)
<1> DEFINE n == Len(q)
           order == CHOOSE o \in SetToSeqs(DOMAIN q) :
                    \A k, l \in DOMAIN o : k < l => Before(q, o[k], o[l])
<1>0. n \in Nat /\ DOMAIN q = 1 .. n
  OBVIOUS
<1>1. \A i \in 1 .. n : q[i].priority \in Nat
  <2> DEFINE R == [event : E, priority : Nat, wait : Nat]
  <2>1. q \in Seq(R) /\ \A c \in R : c.priority \in Nat
    OBVIOUS
  <2> HIDE DEF R
  <2> QED
    BY <2>1
<1>2. Ordered(q) = [k \in DOMAIN q |-> q[order[k]]]
  BY DEF Ordered
<1> HIDE DEF n
<1>3. order \in SetToSeqs(1 .. n) /\ \A k, l \in DOMAIN order : k < l => Before(q, order[k], order[l])
  BY <1>0, <1>1, Sortable
<1> HIDE DEF order
<1>4. IsFiniteSet(1 .. n) /\ Cardinality(1 .. n) = n
  BY <1>0, FS_Interval
<1>5. /\ order \in Seq(1 .. n) /\ Len(order) = n /\ ToSet(order) = 1 .. n
      /\ \A i, j \in DOMAIN order : order[i] = order[j] => i = j
  BY <1>3, <1>4, SequenceOfSet
<1>6. DOMAIN order = 1 .. n /\ order \in [1 .. n -> 1 .. n]
  BY <1>0, <1>5
<1>7. \A i \in 1 .. n : \E k \in 1 .. n : order[k] = i
  BY <1>5, <1>6 DEF ToSet
<1>8. Sorts(q, order)
  BY <1>0, <1>2, <1>3, <1>5, <1>6, <1>7 DEF Sorts
<1> QED
  BY <1>8

\* The cursor of the planner: where it stands after each of the first n slots.
Cursor(ordered, n, start) ==
    /\ start \in [1 .. n -> Nat]
    /\ \A k \in 1 .. n :
          start[k] = IF k = 1 THEN ordered[1].wait
                     ELSE Max({start[k - 1] + Slot, ordered[k].wait})

\* Were there a slot the cursor could not reach, there would be a first one.
LEMMA CursorAdvances ==
    ASSUME NEW q, NEW len \in Nat, \A k \in 1 .. len : q[k].wait \in Nat
    PROVE  \E start : Cursor(q, len, start)
<1> DEFINE T == {n \in 0 .. len : ~ \E start : Cursor(q, n, start)}
<1>1. CASE T = {}
  BY <1>1
<1>2. CASE T # {}
  <2>0. T \in SUBSET Nat
    OBVIOUS
  <2> HIDE DEF T
  <2>1. PICK n \in T : \A m \in T : n <= m
    BY <1>2, <2>0, Least
  <2> USE DEF T
  <2>2. n \in 0 .. len /\ ~ \E start : Cursor(q, n, start)
    BY <2>1
  <2>3. n # 0
    <3>1. Cursor(q, 0, [k \in 1 .. 0 |-> 0])
      BY DEF Cursor
    <3> QED
      BY <2>2, <3>1
  <2>4. n - 1 \notin T /\ n - 1 \in 0 .. len
    BY <2>1, <2>2, <2>3
  <2>5. PICK start : Cursor(q, n - 1, start)
    BY <2>4
  <2> HIDE DEF T
  <2> DEFINE next == IF n = 1 THEN q[1].wait ELSE Max({start[n - 1] + Slot, q[n].wait})
             longer == [k \in 1 .. n |-> IF k = n THEN next ELSE start[k]]
  <2>6. next \in Nat
    <3>1. CASE n = 1
      BY <2>2, <3>1
    <3>2. CASE n # 1
      <4>1. start[n - 1] + Slot \in Nat /\ q[n].wait \in Nat
        BY <2>2, <2>3, <2>5, <3>2, SlotAssumption DEF Cursor
      <4> QED
        BY <3>2, <4>1, Greater
    <3> QED
      BY <3>1, <3>2
  <2>7. longer \in [1 .. n -> Nat]
    BY <2>2, <2>5, <2>6 DEF Cursor
  <2>8. \A k \in 1 .. n : longer[k] = IF k = 1 THEN q[1].wait
                                      ELSE Max({longer[k - 1] + Slot, q[k].wait})
    <3>1. ASSUME NEW k \in 1 .. n - 1
          PROVE  longer[k] = start[k] /\ (k # 1 => longer[k - 1] = start[k - 1])
      BY <2>2
    <3>2. longer[n] = next /\ (n # 1 => longer[n - 1] = start[n - 1])
      BY <2>2, <2>3
    <3> HIDE DEF longer
    <3>3. ASSUME NEW k \in 1 .. n - 1
          PROVE  longer[k] = IF k = 1 THEN q[1].wait
                             ELSE Max({longer[k - 1] + Slot, q[k].wait})
      BY <2>5, <3>1 DEF Cursor
    <3>4. longer[n] = IF n = 1 THEN q[1].wait ELSE Max({longer[n - 1] + Slot, q[n].wait})
      BY <3>2
    <3>5. \A k \in 1 .. n : k = n \/ k \in 1 .. n - 1
      BY <2>2
    <3> QED
      BY <3>3, <3>4, <3>5
  <2> QED
    BY <2>2, <2>7, <2>8 DEF Cursor
<1> QED
  BY <1>1, <1>2

\* What Slotted returns.
Slots(ordered, planned) ==
    /\ planned \in [DOMAIN ordered -> [event : {ordered[k].event : k \in DOMAIN ordered},
                                       priority : Nat, start : Nat]]
    /\ \A k \in DOMAIN ordered :
          /\ planned[k].event = ordered[k].event
          /\ planned[k].priority = ordered[k].priority
          /\ planned[k].start = IF k = 1 THEN ordered[1].wait
                                ELSE Max({planned[k - 1].start + Slot, ordered[k].wait})

\* So Slotted is defined, and its slots follow the cursor.
LEMMA SlottedSlots ==
    ASSUME NEW q, NEW len \in Nat, DOMAIN q = 1 .. len,
           \A k \in 1 .. len : q[k].wait \in Nat /\ q[k].priority \in Nat
    PROVE  Slots(q, Slotted(q))
<1> DEFINE start[k \in DOMAIN q] == IF k = 1 THEN q[1].wait
                                    ELSE Max({start[k - 1] + Slot, q[k].wait})
<1>1. Slotted(q) = [k \in DOMAIN q |->
                      [event |-> q[k].event, priority |-> q[k].priority, start |-> start[k]]]
  BY DEF Slotted
<1>2. PICK s : Cursor(q, len, s)
  BY CursorAdvances
<1>3. s = [k \in DOMAIN q |-> IF k = 1 THEN q[1].wait ELSE Max({s[k - 1] + Slot, q[k].wait})]
  BY <1>2 DEF Cursor
<1>4. start = [k \in DOMAIN q |-> IF k = 1 THEN q[1].wait
                                  ELSE Max({start[k - 1] + Slot, q[k].wait})]
  BY <1>3
<1> HIDE DEF start
<1>5. \A k \in 1 .. len : start[k] = IF k = 1 THEN q[1].wait
                                     ELSE Max({start[k - 1] + Slot, q[k].wait})
  BY <1>4
<1>6. \A k \in 1 .. len : start[k] \in Nat
  <2> DEFINE T == {k \in 1 .. len : start[k] \notin Nat}
  <2>1. T \in SUBSET Nat
    OBVIOUS
  <2>2. ASSUME NEW k \in 1 .. len, start[k] \notin Nat PROVE k - 1 \in T
    <3>1. k # 1
      BY <1>5, <2>2
    <3>2. CASE start[k - 1] \in Nat
      <4>1. start[k - 1] + Slot \in Nat /\ q[k].wait \in Nat
        BY <3>2, SlotAssumption
      <4>2. start[k] \in Nat
        <5>1. start[k] = Max({start[k - 1] + Slot, q[k].wait})
          BY <1>5, <3>1
        <5>2. Max({start[k - 1] + Slot, q[k].wait}) \in Nat
          BY <4>1, Greater
        <5> QED
          BY <5>1, <5>2
      <4> QED
        BY <2>2, <4>2
    <3> QED
      BY <3>1, <3>2
  <2>3. ASSUME T # {} PROVE FALSE
    <3> HIDE DEF T
    <3>1. PICK n \in T : \A m \in T : n <= m
      BY <2>1, <2>3, Least
    <3>2. n \in Nat
      BY <2>1
    <3>3. n - 1 \in T
      BY <2>2 DEF T
    <3> QED
      BY <3>1, <3>2, <3>3
  <2> QED
    BY <2>3
<1> DEFINE planned == [k \in DOMAIN q |-> [event |-> q[k].event,
                                           priority |-> q[k].priority, start |-> start[k]]]
<1>7. planned \in [DOMAIN q -> [event : {q[k].event : k \in DOMAIN q},
                                priority : Nat, start : Nat]]
  BY <1>6
<1>8. \A k \in 1 .. len :
        /\ planned[k].event = q[k].event
        /\ planned[k].priority = q[k].priority
        /\ planned[k].start = start[k]
        /\ k # 1 => planned[k - 1].start = start[k - 1]
  OBVIOUS
<1> HIDE DEF planned
<1>9. Slots(q, planned)
  BY <1>5, <1>7, <1>8 DEF Slots
<1> QED
  BY <1>1, <1>9 DEF planned

\* What follows of slots that are placed by a cursor.
LEMMA SlotsFollow ==
    ASSUME NEW n \in Nat, NEW w \in [1 .. n -> Nat], NEW s \in [1 .. n -> Nat],
           \A k \in 1 .. n : s[k] = IF k = 1 THEN w[1] ELSE Max({s[k - 1] + Slot, w[k]})
    PROVE  \A k \in 1 .. n :
              /\ s[k] >= w[k]
              /\ \A j \in 1 .. k - 1 : s[k] >= s[j] + Slot
              /\ s[k] # w[k] => \E j \in 1 .. k - 1 : s[k] = s[j] + Slot
<1>1. Slot \in Nat
  BY SlotAssumption
<1>2. ASSUME NEW k \in 1 .. n, k # 1
      PROVE  /\ k - 1 \in 1 .. n
             /\ s[k] >= w[k] /\ s[k] >= s[k - 1] + Slot
             /\ s[k] = w[k] \/ s[k] = s[k - 1] + Slot
  <2>1. k - 1 \in 1 .. n
    BY <1>2
  <2>2. s[k - 1] + Slot \in Int /\ w[k] \in Int
    BY <1>1, <2>1
  <2>3. s[k] = Max({s[k - 1] + Slot, w[k]})
    BY <1>2
  <2>4. Max({s[k - 1] + Slot, w[k]}) = IF s[k - 1] + Slot >= w[k] THEN s[k - 1] + Slot ELSE w[k]
    BY <2>2, Greater
  <2> QED
    BY <2>1, <2>2, <2>3, <2>4
<1>3. ASSUME NEW j \in 1 .. n
      PROVE  \A k \in j + 1 .. n : s[k] >= s[j] + Slot
  <2> DEFINE T == {k \in j + 1 .. n : ~ s[k] >= s[j] + Slot}
  <2>1. T \in SUBSET Nat
    OBVIOUS
  <2>2. ASSUME NEW k \in T PROVE k - 1 \in T
    <3>1. k \in 1 .. n /\ k # 1
      OBVIOUS
    <3>2. k # j + 1
      <4>1. ASSUME k = j + 1 PROVE FALSE
        <5>1. s[k] >= s[k - 1] + Slot /\ k - 1 = j
          BY <1>2, <3>1, <4>1
        <5> QED
          BY <5>1
      <4> QED
        BY <4>1
    <3>3. k - 1 \in j + 1 .. n /\ k - 1 \in 1 .. n
      BY <3>2
    <3>4. s[k] >= s[k - 1] + Slot
      BY <1>2, <3>1
    <3> QED
      BY <1>1, <3>1, <3>3, <3>4
  <2>3. ASSUME T # {} PROVE FALSE
    <3> HIDE DEF T
    <3>1. PICK m \in T : \A k \in T : m <= k
      BY <2>1, <2>3, Least
    <3>2. m \in Nat /\ m - 1 \in T
      BY <2>1, <2>2
    <3> QED
      BY <3>1, <3>2
  <2> QED
    BY <2>3
<1>4. ASSUME NEW k \in 1 .. n
      PROVE  /\ s[k] >= w[k]
             /\ s[k] # w[k] => \E j \in 1 .. k - 1 : s[k] = s[j] + Slot
  <2>1. CASE k = 1
    <3>1. s[k] = w[k] /\ w[k] \in Nat
      BY <2>1
    <3> QED
      BY <3>1
  <2>2. CASE k # 1
    <3>1. s[k] >= w[k] /\ (s[k] # w[k] => s[k] = s[k - 1] + Slot)
      BY <1>2, <2>2
    <3>2. k - 1 \in 1 .. k - 1
      BY <2>2
    <3> QED
      BY <3>1, <3>2
  <2> QED
    BY <2>1, <2>2
<1>5. ASSUME NEW k \in 1 .. n, NEW j \in 1 .. k - 1
      PROVE  s[k] >= s[j] + Slot
  BY <1>3
<1> QED
  BY <1>4, <1>5

\* A plan: the candidates of a queue by order, in slots that follow one another,
\* each as early as now, its candidate and the slots before it allow.
Schedules(q, order, planned) ==
    /\ planned \in [DOMAIN q -> [event : {q[k].event : k \in DOMAIN q},
                                     priority : Nat, start : Nat]]
    /\ \A k \in DOMAIN q :
          /\ planned[k].event = q[order[k]].event
          /\ planned[k].priority = q[order[k]].priority
          /\ planned[k].start >= q[order[k]].wait
          /\ \A j \in 1 .. k - 1 : planned[k].start >= planned[j].start + Slot
          /\ \/ planned[k].start = q[order[k]].wait
             \/ \E j \in 1 .. k - 1 : planned[k].start = planned[j].start + Slot

LEMMA PlanSchedules ==
    ASSUME NEW E, NEW q \in Seq([event : E, priority : Nat, wait : Nat]), NEW order,
           Sorts(q, order)
    PROVE  Schedules(q, order, PlanFor(q))
<1> DEFINE R       == [event : E, priority : Nat, wait : Nat]
           n       == Len(q)
           ordered == Ordered(q)
           planned == Slotted(ordered)
           waits   == [k \in 1 .. n |-> ordered[k].wait]
           start   == [k \in 1 .. n |-> planned[k].start]
<1>1. q \in Seq(R) /\ \A c \in R : c.wait \in Nat /\ c.priority \in Nat
  OBVIOUS
<1> HIDE DEF R
<1>2. n \in Nat /\ DOMAIN q = 1 .. n /\ \A k \in 1 .. n : q[k].wait \in Nat /\ q[k].priority \in Nat
  BY <1>1
<1> HIDE DEF n
<1>3. /\ DOMAIN ordered = 1 .. n
      /\ \A k \in 1 .. n : order[k] \in 1 .. n /\ ordered[k] = q[order[k]]
  BY <1>2 DEF Sorts
<1> HIDE DEF ordered
<1>4. \A k \in 1 .. n : ordered[k].wait \in Nat /\ ordered[k].priority \in Nat
  BY <1>2, <1>3
<1>5. Slots(ordered, planned)
  BY <1>2, <1>3, <1>4, SlottedSlots
<1> HIDE DEF planned
<1>6. /\ waits \in [1 .. n -> Nat] /\ start \in [1 .. n -> Nat]
      /\ \A k \in 1 .. n : start[k] = IF k = 1 THEN waits[1]
                                      ELSE Max({start[k - 1] + Slot, waits[k]})
  <2>1. \A k \in 1 .. n : /\ 1 \in 1 .. n
                          /\ k # 1 => k - 1 \in 1 .. n
    BY <1>2
  <2> QED
    BY <1>3, <1>4, <1>5, <2>1 DEF Slots
<1>7. \A k \in 1 .. n : /\ start[k] = planned[k].start
                        /\ waits[k] = ordered[k].wait
                        /\ \A j \in 1 .. k - 1 : start[j] = planned[j].start
  BY <1>2
<1> HIDE DEF start, waits
<1>8. \A k \in 1 .. n :
        /\ start[k] >= waits[k]
        /\ \A j \in 1 .. k - 1 : start[k] >= start[j] + Slot
        /\ start[k] # waits[k] => \E j \in 1 .. k - 1 : start[k] = start[j] + Slot
  BY <1>2, <1>6, SlotsFollow
<1>9. ASSUME NEW k \in 1 .. n
      PROVE  /\ planned[k].start >= q[order[k]].wait
             /\ \A j \in 1 .. k - 1 : planned[k].start >= planned[j].start + Slot
             /\ \/ planned[k].start = q[order[k]].wait
                \/ \E j \in 1 .. k - 1 : planned[k].start = planned[j].start + Slot
  BY <1>3, <1>7, <1>8
<1>10. {ordered[k].event : k \in 1 .. n} \subseteq {q[k].event : k \in 1 .. n}
  BY <1>3
<1>11. /\ planned \in [1 .. n -> [event : {q[k].event : k \in 1 .. n},
                                  priority : Nat, start : Nat]]
       /\ \A k \in 1 .. n : /\ planned[k].event = q[order[k]].event
                            /\ planned[k].priority = q[order[k]].priority
  BY <1>3, <1>5, <1>10 DEF Slots
<1>12. Schedules(q, order, planned)
  BY <1>2, <1>9, <1>11 DEF Schedules
<1> QED
  BY <1>12 DEF PlanFor, planned, ordered

-----------------------------------------------------------------------------
\* The plan follows the statuses.  What a cycle takes up is a set, of candidates
\* that stay, that are new, and whose facts are lost; a queue of it is one of its
\* sequences, and a plan one of the orders of that queue: none adds or loses an
\* Event.

\* A function on the first n numbers is a sequence of length n.
LEMMA FunctionIsSequence ==
    ASSUME NEW n \in Nat, NEW R, NEW f \in [1 .. n -> R]
    PROVE  f \in Seq(R) /\ Len(f) = n
OBVIOUS

\* The Events of a queue or of a plan.
Named(s) == {c.event : c \in ToSet(s)}

\* A plan has the Events of its queue.
LEMMA PlanKeeps ==
    ASSUME NEW E, NEW q \in Seq([event : E, priority : Nat, wait : Nat])
    PROVE  /\ PlanFor(q) \in Seq([event : E, priority : Nat, start : Nat])
           /\ Len(PlanFor(q)) = Len(q)
           /\ Named(PlanFor(q)) = Named(q)
<1> DEFINE R == [event : E, priority : Nat, wait : Nat]
           n == Len(q)
           p == PlanFor(q)
           names == {q[k].event : k \in 1 .. n}
<1>1. q \in Seq(R) /\ \A c \in R : c.event \in E
  OBVIOUS
<1> HIDE DEF R
<1>2. n \in Nat /\ DOMAIN q = 1 .. n /\ names \subseteq E
  BY <1>1
<1>3. PICK order : Sorts(q, order)
  BY OrderedSorts
<1>4. Schedules(q, order, p)
  BY <1>3, PlanSchedules
<1> HIDE DEF n, p
<1> DEFINE Entry == [event : E, priority : Nat, start : Nat]
<1>5. p \in [1 .. n -> [event : names, priority : Nat, start : Nat]]
  BY <1>2, <1>4 DEF Schedules
<1>6. [event : names, priority : Nat, start : Nat] \subseteq Entry
  BY <1>2
<1> HIDE DEF Entry
<1>7. p \in [1 .. n -> Entry]
  BY <1>5, <1>6
<1>8. n \in Nat /\ DOMAIN p = 1 .. n
  BY <1>2, <1>7
<1>9. p \in Seq(Entry) /\ Len(p) = n
  BY <1>7, <1>8, FunctionIsSequence
<1>10. /\ \A k \in 1 .. n : order[k] \in 1 .. n /\ p[k].event = q[order[k]].event
      /\ \A i \in 1 .. n : \E k \in 1 .. n : order[k] = i
  BY <1>2, <1>3, <1>4 DEF Schedules, Sorts
<1>11. Named(p) = {p[k].event : k \in 1 .. n} /\ Named(q) = {q[k].event : k \in 1 .. n}
  BY <1>2, <1>8, <1>9 DEF Named, ToSet
<1>12. ASSUME NEW k \in 1 .. n
       PROVE  p[k].event \in Named(q) /\ q[k].event \in Named(p)
  <2>1. p[k].event \in Named(q)
    BY <1>10, <1>11
  <2>2. PICK l \in 1 .. n : order[l] = k
    BY <1>10
  <2>3. q[k].event = p[l].event
    BY <1>10, <2>2
  <2> QED
    BY <1>11, <2>1, <2>3
<1>13. Named(p) = Named(q)
  BY <1>11, <1>12
<1> QED
  BY <1>8, <1>9, <1>13 DEF p, n, Entry

\* The image of a finite set is finite.
LEMMA ImageIsFinite ==
    ASSUME NEW S, IsFiniteSet(S), NEW f, DOMAIN f = S
    PROVE  IsFiniteSet({f[x] : x \in S})
<1> DEFINE T == {f[x] : x \in S}
           g == [x \in S |-> f[x]]
<1>1. g \in [S -> T] /\ \A t \in T : \E x \in S : g[x] = t
  OBVIOUS
<1>2. g \in Surjection(S, T)
  BY <1>1, Fun_IsSurj
<1> QED
  BY <1>2, FS_Surjection

\* A sequence has finitely many elements.
LEMMA SequenceIsFinite ==
    ASSUME NEW R, NEW q \in Seq(R)
    PROVE  IsFiniteSet(ToSet(q)) /\ ToSet(q) \subseteq R
<1>1. Len(q) \in Nat /\ DOMAIN q = 1 .. Len(q) /\ \A i \in DOMAIN q : q[i] \in R
  OBVIOUS
<1>2. IsFiniteSet(DOMAIN q)
  BY <1>1, FS_Interval
<1> QED
  BY <1>1, <1>2, ImageIsFinite DEF ToSet

LEMMA EventsAreFinite == IsFiniteSet(Events)
BY FiniteAssumption, FS_Union DEF Events

Candidate == [event : Events, priority : Nat, wait : Nat]

Wanted(s) == {e \in Events : s[e] \in Plannable}

\* What is planned again is what the statuses ask for.
LEMMA ReplannedIs ==
    ASSUME PlanTypeOK, NEW s, NEW q \in Replanned(s)
    PROVE  q \in Seq(Candidate) /\ Named(q) = Wanted(s)
<1> DEFINE kept  == {c \in ToSet(candidates) : c.event \in Wanted(s)}
           lost  == Wanted(s) \ (Consumed \cup {c.event : c \in kept})
           news  == {NewCandidate(r) : r \in Consumed \cap Wanted(s)}
           anew  == {[event |-> e, priority |-> 0, wait |-> 0] : e \in lost}
           all   == kept \cup (news \cup anew)
<1>1. q \in SetToSeqs(all)
  BY DEF Replanned, Enqueued, Wanted
<1>2. IsFiniteSet(kept) /\ kept \subseteq Candidate
  <2>1. IsFiniteSet(ToSet(candidates)) /\ ToSet(candidates) \subseteq Candidate
    BY SequenceIsFinite DEF PlanTypeOK, Candidate
  <2> QED
    BY <2>1, FS_Subset
<1>3. IsFiniteSet(news) /\ news \subseteq Candidate /\ {c.event : c \in news} = Consumed \cap Wanted(s)
  <2>1. Consumed \cap Wanted(s) \subseteq Recommendations
    BY DEF Consumed
  <2>2. IsFiniteSet(Consumed \cap Wanted(s))
    BY <2>1, FiniteAssumption, FS_Subset
  <2>3. ASSUME NEW r \in Recommendations
        PROVE  NewCandidate(r) \in Candidate /\ NewCandidate(r).event = r
    <3>1. Lead[r] - age[r] \in Int /\ Priority[r] \in Nat /\ r \in Events
      BY OfferAssumption DEF PlanTypeOK, Events
    <3>2. Max({Lead[r] - age[r], 0}) \in Nat
      BY <3>1, Greater
    <3> QED
      BY <3>1, <3>2 DEF NewCandidate, Candidate
  <2> DEFINE f == [r \in Consumed \cap Wanted(s) |-> NewCandidate(r)]
  <2>4. news = {f[r] : r \in Consumed \cap Wanted(s)} /\ DOMAIN f = Consumed \cap Wanted(s)
    OBVIOUS
  <2> HIDE DEF f, news
  <2>5. IsFiniteSet(news)
    BY <2>2, <2>4, ImageIsFinite
  <2> QED
    BY <2>1, <2>3, <2>5 DEF news
<1>4. IsFiniteSet(anew) /\ anew \subseteq Candidate /\ {c.event : c \in anew} = lost
  <2>1. lost \subseteq Events
    BY DEF Wanted
  <2>2. IsFiniteSet(lost)
    BY <2>1, EventsAreFinite, FS_Subset
  <2> HIDE DEF lost
  <2> DEFINE f == [e \in lost |-> [event |-> e, priority |-> 0, wait |-> 0]]
  <2>3. anew = {f[e] : e \in lost} /\ DOMAIN f = lost
    OBVIOUS
  <2> HIDE DEF f, anew
  <2>4. IsFiniteSet(anew)
    BY <2>2, <2>3, ImageIsFinite
  <2> QED
    <3>1. \A e \in lost : /\ [event |-> e, priority |-> 0, wait |-> 0] \in Candidate
                          /\ [event |-> e, priority |-> 0, wait |-> 0].event = e
      BY <2>1 DEF Candidate
    <3>2. anew \subseteq Candidate
      BY <3>1 DEF anew
    <3>3. {c.event : c \in anew} = lost
      BY <3>1 DEF anew
    <3> QED
      BY <2>4, <3>2, <3>3
<1>5. {c.event : c \in kept} \subseteq Wanted(s)
  OBVIOUS
<1>6. IsFiniteSet(all) /\ all \subseteq Candidate /\ {c.event : c \in all} = Wanted(s)
  <2>1. IsFiniteSet(all)
    BY <1>2, <1>3, <1>4, FS_Union
  <2>2. {c.event : c \in all} = {c.event : c \in kept} \cup (Consumed \cap Wanted(s)) \cup lost
    BY <1>3, <1>4
  <2> QED
    BY <1>2, <1>3, <1>4, <1>5, <2>1, <2>2
<1> HIDE DEF all
<1>7. q \in Seq(all) /\ ToSet(q) = all
  BY <1>1, <1>6, SequenceOfSet
<1> QED
  BY <1>6, <1>7 DEF Named

PlanInv == PlanTypeOK /\ PlanServesWork

LEMMA InitPlans == Init => PlanInv
<1> SUFFICES ASSUME Init PROVE PlanInv
  OBVIOUS
<1>1. <<>> \in Seq(Candidate) /\ <<>> \in Seq([event : Events, priority : Nat, start : Int])
  OBVIOUS
<1> QED
  BY <1>1 DEF Init, PlanInv, PlanTypeOK, PlanServesWork, AtRest, Candidate

\* What changes neither plan nor facts, and owes a cycle or leaves none possible.
LEMMA OwingPlans ==
    ASSUME PlanInv, UNCHANGED <<age, candidates, plan>>,
           pending' # "None" \/ schedState' = "Scheduling"
    PROVE  PlanInv'
BY DEF PlanInv, PlanTypeOK, PlanServesWork, AtRest, Wedged

\* Outside the cycles a status may only change beside what the plan is about.
LEMMA BesidePlans ==
    ASSUME PlanInv, UNCHANGED <<age, candidates, plan, pending, schedState>>,
           \A e \in Events : \/ status'[e] = status[e]
                             \/ /\ status[e] \notin Plannable
                                /\ status'[e] \notin {"Scheduled", "Ready", "Interrupted"}
    PROVE  PlanInv'
BY DEF PlanInv, PlanTypeOK, PlanServesWork, AtRest, Wedged, Plannable

\* A pause that stands leaves in the plan what it may hold, and asks for nothing.
LEMMA PauseStandsPlans ==
    ASSUME IInv, PlanInv, PauseStands
    PROVE  PlanInv'
<1>1. \A e \in Events : status'[e] = IF e = context THEN "Paused" ELSE status[e]
  BY PauseRunningFacts DEF PauseStands, IInv
<1>2. context \in Events => status[context] \in RunningStates
  BY DEF IInv, ContextNamesRunning
<1>3. \A e \in Events : \/ status'[e] = status[e]
                        \/ /\ status[e] \notin Plannable
                           /\ status'[e] \notin {"Scheduled", "Ready", "Interrupted"}
  BY <1>1, <1>2 DEF RunningStates, Plannable
<1> QED
  BY <1>3, BesidePlans DEF PauseStands

LEMMA UserActionPlans ==
    ASSUME IInv, PlanInv, NEW e \in Events, UserAction(e)
    PROVE  PlanInv'
<1>1. CASE UserStarted(e) \/ UserPaused(e) \/ UserResumed(e) \/ UserCompleted(e) \/ UserCancelled(e)
  BY <1>1, OwingPlans DEF UserStarted, UserPaused, UserResumed, UserCompleted, UserCancelled
<1>2. CASE StartRefused(e) \/ ResumeRefused(e)
  BY <1>2, PauseStandsPlans DEF StartRefused, ResumeRefused
<1>3. CASE ArchiveEvent(e)
  <2>1. \A f \in Events : \/ status'[f] = status[f]
                          \/ /\ status[f] \notin Plannable
                             /\ status'[f] \notin {"Scheduled", "Ready", "Interrupted"}
    BY <1>3 DEF ArchiveEvent, IInv, CoreTypeOK, Plannable
  <2> QED
    BY <1>3, <2>1, BesidePlans DEF ArchiveEvent
<1> QED
  BY <1>1, <1>2, <1>3 DEF UserAction

\* What is done to each element of a sequence makes a sequence.
LEMMA MapsToSequence ==
    ASSUME NEW R, NEW q \in Seq(R), NEW T, NEW later, DOMAIN later = DOMAIN q,
           later = [k \in DOMAIN q |-> later[k]], \A k \in DOMAIN q : later[k] \in T
    PROVE  later \in Seq(T)
<1>1. Len(q) \in Nat /\ DOMAIN q = 1 .. Len(q)
  OBVIOUS
<1>2. later \in [1 .. Len(q) -> T]
  BY <1>1
<1> QED
  BY <1>1, <1>2, FunctionIsSequence

\* Time takes nothing from a plan but distance.
LEMMA TimePlans ==
    ASSUME PlanInv, TimePasses
    PROVE  PlanInv'
<1> DEFINE Entry == [event : Events, priority : Nat, start : Int]
<1>1. age' \in [Recommendations -> Nat]
  <2>1. ASSUME NEW r \in Recommendations
        PROVE  Min({age[r] + 1, AgeBound(r)}) \in Nat
    <3>1. AgeBound(r) \in Nat
      BY OfferAssumption, Greater DEF AgeBound
    <3>2. age[r] + 1 \in Nat
      BY DEF PlanInv, PlanTypeOK
    <3> QED
      BY <3>1, <3>2, Lesser
  <2> QED
    BY <2>1 DEF TimePasses
<1>2. ASSUME NEW q \in Seq(Candidate) PROVE Waited(q) \in Seq(Candidate)
  <2>1. \A c \in Candidate : [c EXCEPT !.wait = Max({c.wait - 1, 0})] \in Candidate
    <3>1. ASSUME NEW c \in Candidate PROVE Max({c.wait - 1, 0}) \in Nat
      <4>1. c.wait - 1 \in Int
        BY DEF Candidate
      <4> QED
        BY <4>1, Greater
    <3> QED
      BY <3>1 DEF Candidate
  <2>2. Waited(q) = [k \in DOMAIN q |-> [q[k] EXCEPT !.wait = Max({q[k].wait - 1, 0})]]
    BY DEF Waited
  <2>3. \A k \in DOMAIN q : q[k] \in Candidate
    OBVIOUS
  <2>4. DOMAIN Waited(q) = DOMAIN q /\ \A k \in DOMAIN q : Waited(q)[k] \in Candidate
    BY <2>1, <2>2, <2>3
  <2>5. Waited(q) = [k \in DOMAIN q |-> Waited(q)[k]]
    BY <2>2
  <2> QED
    BY <2>4, <2>5, MapsToSequence
<1>3. ASSUME NEW p \in Seq(Entry) PROVE Elapsed(p) \in Seq(Entry) /\ Named(Elapsed(p)) = Named(p)
  <2>1. \A c \in Entry : /\ [c EXCEPT !.start = Max({c.start - 1, -Slot})] \in Entry
                         /\ [c EXCEPT !.start = Max({c.start - 1, -Slot})].event = c.event
    <3>1. ASSUME NEW c \in Entry PROVE Max({c.start - 1, -Slot}) \in Int
      <4>1. c.start - 1 \in Int /\ -Slot \in Int
        BY SlotAssumption
      <4> QED
        BY <4>1, Greater
    <3> QED
      BY <3>1
  <2>2. Elapsed(p) = [k \in DOMAIN p |-> [p[k] EXCEPT !.start = Max({p[k].start - 1, -Slot})]]
    BY DEF Elapsed
  <2> HIDE DEF Entry
  <2>3. \A k \in DOMAIN p : p[k] \in Entry
    OBVIOUS
  <2>4. /\ DOMAIN Elapsed(p) = DOMAIN p
        /\ \A k \in DOMAIN p : Elapsed(p)[k] \in Entry /\ Elapsed(p)[k].event = p[k].event
    BY <2>1, <2>2, <2>3
  <2>5. Elapsed(p) = [k \in DOMAIN p |-> Elapsed(p)[k]]
    BY <2>2
  <2>6. Elapsed(p) \in Seq(Entry)
    BY <2>4, <2>5, MapsToSequence
  <2> QED
    BY <2>4, <2>6 DEF Named, ToSet
<1>4. PlanTypeOK'
  BY <1>1, <1>2, <1>3 DEF TimePasses, PlanInv, PlanTypeOK, Candidate
<1>5. Named(plan') = Named(plan)
  BY <1>3 DEF TimePasses, PlanInv, PlanTypeOK
<1>6. PlanServesWork'
  BY <1>5 DEF TimePasses, PlanInv, PlanServesWork, AtRest, Wedged, runtimeVars, Named
<1> QED
  BY <1>4, <1>6 DEF PlanInv

\* A cycle plans what the statuses it leaves ask for.
LEMMA RunCyclePlans ==
    ASSUME PlanInv, RunCycle
    PROVE  PlanInv'
<1>1. /\ candidates' \in Seq(Candidate)
      /\ Named(candidates') = {e \in Events : status'[e] \in Plannable}
  BY ReplannedIs DEF RunCycle, PlanInv, Wanted
<1>2. /\ PlanFor(candidates') \in Seq([event : Events, priority : Nat, start : Nat])
      /\ Named(PlanFor(candidates')) = Named(candidates')
  BY <1>1, PlanKeeps DEF Candidate
<1>3. plan' = PlanFor(candidates') /\ age' = age
  BY DEF RunCycle
<1>4. plan' \in Seq([event : Events, priority : Nat, start : Int])
  <2> DEFINE Later == [event : Events, priority : Nat, start : Nat]
             Entry == [event : Events, priority : Nat, start : Int]
  <2>1. plan' \in Seq(Later) /\ Later \subseteq Entry
    BY <1>2, <1>3
  <2> HIDE DEF Later, Entry
  <2>2. plan' \in Seq(Entry)
    BY <2>1
  <2> QED
    BY <2>2 DEF Entry
<1>5. PlanTypeOK'
  BY <1>1, <1>3, <1>4 DEF PlanInv, PlanTypeOK, Candidate
<1>6. {p.event : p \in ToSet(plan')} = {e \in Events : status'[e] \in Plannable}
  BY <1>1, <1>2, <1>3 DEF Named
<1>7. PlanServesWork'
  BY <1>6 DEF PlanServesWork, Plannable
<1> QED
  BY <1>5, <1>7 DEF PlanInv

LEMMA StepPlans == IInv /\ PlanInv /\ [Next]_vars => PlanInv'
<1> SUFFICES ASSUME IInv, PlanInv, [Next]_vars PROVE PlanInv'
  OBVIOUS
<1>1. CASE \E r \in Recommendations : OfferAction(r)
  <2> PICK r \in Recommendations : OfferAction(r)
    BY <1>1
  <2>1. CASE RejectRecommendation(r)
    BY <2>1, BesidePlans DEF RejectRecommendation
  <2>2. CASE AdmitRecommendation(r) \/ AcceptRecommendation(r)
    BY <2>2, OwingPlans DEF AdmitRecommendation, AcceptRecommendation
  <2> QED
    BY <2>1, <2>2 DEF OfferAction
<1>2. CASE \E e \in Events : UserAction(e)
  BY <1>2, UserActionPlans
<1>3. CASE \/ \E e \in Spontaneous : ReportSpontaneous(e)
           \/ Tick \/ CycleAborts
  BY <1>3, OwingPlans DEF ReportSpontaneous, Tick, CycleAborts
<1>4. CASE \E d \in Disturbers : ReportDisturber(d)
  BY <1>4, OwingPlans, IdentityAssumption DEF ReportDisturber
<1>5. CASE TimePasses
  BY <1>5, TimePlans
<1>6. CASE RunCycle
  BY <1>6, RunCyclePlans
<1>7. CASE CycleRefused
  BY <1>7, OwingPlans DEF CycleRefused, Wedged
<1>8. CASE Restart
  <2>1. <<>> \in Seq(Candidate) /\ <<>> \in Seq([event : Events, priority : Nat, start : Int])
    OBVIOUS
  <2> QED
    BY <1>8, <2>1 DEF Restart, PlanInv, PlanTypeOK, PlanServesWork, AtRest, Candidate
<1>9. CASE UNCHANGED vars
  BY <1>9, BesidePlans DEF vars, runtimeVars
<1> QED
  BY <1>1, <1>2, <1>3, <1>4, <1>5, <1>6, <1>7, <1>8, <1>9 DEF Next

LEMMA Planning == Spec => []PlanInv
BY InitPlans, StepPlans, Invariance, PTL DEF Spec

\* The Runtime State keeps its types, every status one of its machine's, and so do
\* the plan, its candidates and the ages of the Recommendations.
THEOREM TypeCorrect == Spec => []TypeOK
<1>1. IInv /\ PlanInv => TypeOK
  BY DEF IInv, PlanInv, TypeOK
<1> QED
  BY <1>1, Invariance, Planning, PTL

\* At rest, unless an error wedged the Scheduler, the plan holds every Event that
\* waits to begin or to continue, and none that can no longer run (_rebuild_plan).
THEOREM Plans == Spec => []PlanServesWork
<1>1. PlanInv => PlanServesWork
  BY DEF PlanInv
<1> QED
  BY <1>1, Planning, PTL

-----------------------------------------------------------------------------
\* The planner against absolute time.  The queue of the model knows distances that
\* stop at 0; the invariant says that it still has the candidates in the order of
\* the moments, those that have passed included.

\* A candidate as the planner has it, with the moment of its earliest start.
Moments == [event : Names, priority : Nat, earliest : Nat]
Waiting == [event : Names, priority : Nat, wait : Nat]

\* What the queue has of such a candidate at moment t.
Seen(c, t) == [event |-> c.event, priority |-> c.priority,
               wait |-> Max({c.earliest - t, 0})]

\* At moment t the queue q has the candidates in E, each once, by the moments
\* of their earliest starts, those that have passed included.
Mirrors(q, E, t) ==
    /\ E \subseteq Moments
    /\ \A c, d \in E : c.event = d.event => c = d
    /\ q \in Seq(Waiting)
    /\ \A i, j \in DOMAIN q : q[i] = q[j] => i = j
    /\ ToSet(q) = {Seen(c, t) : c \in E}
    /\ \A i, j \in DOMAIN q, c, d \in E :
          i < j /\ q[i] = Seen(c, t) /\ q[j] = Seen(d, t) => c.earliest <= d.earliest

\* A moment ahead is at its distance, one that has passed at 0.
LEMMA SeenIs ==
    ASSUME NEW c \in Moments, NEW t \in Nat
    PROVE  /\ Seen(c, t) \in Waiting
           /\ Seen(c, t).event = c.event /\ Seen(c, t).priority = c.priority
           /\ Seen(c, t).wait = IF c.earliest >= t THEN c.earliest - t ELSE 0
<1>1. c.earliest - t \in Int /\ c.earliest \in Nat /\ c.event \in Names /\ c.priority \in Nat
  BY DEF Moments
<1>2. Max({c.earliest - t, 0}) = IF c.earliest - t >= 0 THEN c.earliest - t ELSE 0
  BY <1>1, Greater
<1>3. Max({c.earliest - t, 0}) = (IF c.earliest >= t THEN c.earliest - t ELSE 0)
      /\ Max({c.earliest - t, 0}) \in Nat
  BY <1>1, <1>2
<1> QED
  BY <1>1, <1>3 DEF Seen, Waiting

\* Candidates leave, and others are added at one moment.
LEMMA RequeuedMirrors ==
    ASSUME NEW q, NEW E, NEW t \in Nat, Mirrors(q, E, t),
           NEW E1 \in SUBSET E, NEW E2 \in SUBSET Moments, IsFiniteSet(E2),
           \A c \in E2 : c.earliest >= t,
           \A c, d \in E2 : c.event = d.event => c = d,
           \A c \in E1, d \in E2 : c.event # d.event,
           NEW r \in Enqueued(q, {Seen(c, t) : c \in E1}, {Seen(c, t) : c \in E2})
    PROVE  Mirrors(r, E1 \cup E2, t)
<1> DEFINE S1 == {Seen(c, t) : c \in E1}
           S2 == {Seen(c, t) : c \in E2}
<1>1. /\ E1 \subseteq Moments
      /\ \A c, d \in E1 \cup E2 : c.event = d.event => c = d
  BY DEF Mirrors
<1>2. \A c, d \in E1 \cup E2 : Seen(c, t) = Seen(d, t) => c = d
  BY <1>1, SeenIs
<1>3. IsFiniteSet(S1) /\ S1 \subseteq ToSet(q)
  <2>1. S1 \subseteq ToSet(q) /\ q \in Seq(Waiting)
    BY DEF Mirrors
  <2> QED
    BY <2>1, SequenceIsFinite, FS_Subset
<1>4. IsFiniteSet(S2)
  <2> DEFINE f == [c \in E2 |-> Seen(c, t)]
  <2>1. S2 = {f[c] : c \in E2} /\ DOMAIN f = E2
    OBVIOUS
  <2> HIDE DEF f, S2
  <2> QED
    BY <2>1, ImageIsFinite
<1>5. IsFiniteSet(S1 \cup S2) /\ S1 \cup S2 = {Seen(c, t) : c \in E1 \cup E2}
  BY <1>3, <1>4, FS_Union
<1>6. /\ r \in SetToSeqs(S1 \cup S2) /\ KeepsOrder(q, r)
      /\ \A i, j \in DOMAIN r : i < j =>
            /\ r[i].wait <= r[j].wait
            /\ r[i] \in S2 => r[j] \in S2 \/ r[j].wait > 0
  BY DEF Enqueued
<1>7. /\ r \in Seq(S1 \cup S2) /\ ToSet(r) = S1 \cup S2
      /\ \A i, j \in DOMAIN r : r[i] = r[j] => i = j
  BY <1>5, <1>6, SequenceOfSet
<1>8. r \in Seq(Waiting)
  <2>1. S1 \cup S2 \subseteq Waiting
    BY <1>1, SeenIs
  <2> HIDE DEF S1, S2
  <2> QED
    BY <1>7, <2>1
<1>9. DOMAIN q \subseteq Int /\ DOMAIN r \subseteq Int
  BY <1>8 DEF Mirrors
<1>10. ASSUME NEW i \in DOMAIN r, NEW j \in DOMAIN r, NEW c \in E1 \cup E2, NEW d \in E1 \cup E2,
              i < j, r[i] = Seen(c, t), r[j] = Seen(d, t)
       PROVE  c.earliest <= d.earliest
  <2>1. c # d
    BY <1>7, <1>9, <1>10
  <2>2. c \in Moments /\ d \in Moments /\ c.earliest \in Nat /\ d.earliest \in Nat
    BY <1>1 DEF Moments
  <2>3. r[i].wait = (IF c.earliest >= t THEN c.earliest - t ELSE 0)
        /\ r[j].wait = (IF d.earliest >= t THEN d.earliest - t ELSE 0)
    BY <1>10, <2>2, SeenIs
  <2>4. r[i].wait <= r[j].wait
    BY <1>6, <1>10
  <2>5. CASE c \in E1 /\ d \in E1
    <3>1. r[i] \in ToSet(q) /\ r[j] \in ToSet(q)
      BY <1>3, <1>10, <2>5
    <3>2. PICK x \in DOMAIN q, y \in DOMAIN q : q[x] = r[i] /\ q[y] = r[j]
      BY <3>1 DEF ToSet
    <3>3. x # y
      BY <1>2, <1>10, <2>1, <3>2
    <3>4. ~ y < x
      BY <1>6, <1>9, <1>10, <3>2 DEF KeepsOrder
    <3>5. x < y
      BY <1>9, <3>3, <3>4
    <3> QED
      BY <1>10, <2>5, <3>2, <3>5 DEF Mirrors
  <2>6. CASE d \in E2
    BY <2>2, <2>3, <2>4, <2>6
  <2>7. CASE c \in E2 /\ d \in E1
    <3>1. r[i] \in S2
      BY <1>10, <2>7
    <3>2. r[j] \notin S2
      BY <1>2, <1>10, <2>7
    <3>3. r[j].wait > 0
      BY <1>6, <1>10, <3>1, <3>2
    <3> QED
      BY <2>2, <2>3, <2>4, <2>7, <3>3
  <2> QED
    BY <2>5, <2>6, <2>7
<1>11. E1 \cup E2 \subseteq Moments
  BY <1>1
<1> QED
  BY <1>1, <1>5, <1>7, <1>8, <1>10, <1>11 DEF Mirrors

\* A moment later the queue still has them.
LEMMA WaitedMirrors ==
    ASSUME NEW q, NEW E, NEW t \in Nat, Mirrors(q, E, t)
    PROVE  Mirrors(Waited(q), E, t + 1)
<1>1. /\ E \subseteq Moments
      /\ \A c, d \in E : c.event = d.event => c = d
      /\ q \in Seq(Waiting)
      /\ ToSet(q) = {Seen(c, t) : c \in E}
  BY DEF Mirrors
<1>2. \A k \in DOMAIN q : \E c \in E : q[k] = Seen(c, t)
  BY <1>1 DEF ToSet
<1>3. ASSUME NEW k \in DOMAIN q, NEW c \in E, q[k] = Seen(c, t)
      PROVE  Waited(q)[k] = Seen(c, t + 1)
  <2> DEFINE w == Seen(c, t).wait
  <2>1. c \in Moments /\ c.earliest \in Nat /\ t + 1 \in Nat
    BY <1>1 DEF Moments
  <2>2. w = IF c.earliest >= t THEN c.earliest - t ELSE 0
    BY <2>1, SeenIs
  <2> HIDE DEF w
  <2>3. w - 1 \in Int
    BY <2>1, <2>2
  <2>4. Max({w - 1, 0}) = IF w - 1 >= 0 THEN w - 1 ELSE 0
    BY <2>3, Greater
  <2>5. c.earliest - (t + 1) \in Int
    BY <2>1
  <2>6. Max({c.earliest - (t + 1), 0}) =
          IF c.earliest - (t + 1) >= 0 THEN c.earliest - (t + 1) ELSE 0
    BY <2>5, Greater
  <2>7. Max({w - 1, 0}) = Max({c.earliest - (t + 1), 0})
    BY <2>1, <2>2, <2>4, <2>6
  <2>8. Waited(q)[k] = [Seen(c, t) EXCEPT !.wait = Max({w - 1, 0})]
    BY <1>3 DEF Waited, w
  <2> QED
    BY <2>7, <2>8 DEF Seen
<1>4. DOMAIN Waited(q) = DOMAIN q /\ Waited(q) = [k \in DOMAIN q |-> Waited(q)[k]]
  BY DEF Waited
<1>5. \A c \in E : Seen(c, t + 1) \in Waiting
  BY <1>1, SeenIs
<1>6. Waited(q) \in Seq(Waiting)
  BY <1>1, <1>2, <1>3, <1>4, <1>5, MapsToSequence
<1>7. \A c, d \in E : (Seen(c, t + 1) = Seen(d, t + 1) => c = d) /\ (Seen(c, t) = Seen(d, t) => c = d)
  BY <1>1, SeenIs
<1>8. ASSUME NEW k \in DOMAIN q, NEW c \in E, Waited(q)[k] = Seen(c, t + 1)
      PROVE  q[k] = Seen(c, t)
  BY <1>2, <1>3, <1>7, <1>8
<1>9. \A i, j \in DOMAIN q : Waited(q)[i] = Waited(q)[j] => i = j
  <2> SUFFICES ASSUME NEW i \in DOMAIN q, NEW j \in DOMAIN q, Waited(q)[i] = Waited(q)[j]
               PROVE  i = j
    OBVIOUS
  <2>1. PICK c \in E : q[i] = Seen(c, t)
    BY <1>2
  <2>2. q[j] = Seen(c, t)
    BY <1>3, <1>8, <2>1
  <2> QED
    BY <2>1, <2>2 DEF Mirrors
<1>10. ToSet(Waited(q)) = {Seen(c, t + 1) : c \in E}
  <2>1. \A c \in E : \E k \in DOMAIN q : q[k] = Seen(c, t)
    BY <1>1 DEF ToSet
  <2>2. \A c \in E : \E k \in DOMAIN q : Waited(q)[k] = Seen(c, t + 1)
    BY <1>3, <2>1
  <2>3. \A k \in DOMAIN q : \E c \in E : Waited(q)[k] = Seen(c, t + 1)
    BY <1>2, <1>3
  <2> QED
    BY <1>4, <2>2, <2>3 DEF ToSet
<1>11. ASSUME NEW i \in DOMAIN q, NEW j \in DOMAIN q, NEW c \in E, NEW d \in E,
              i < j, Waited(q)[i] = Seen(c, t + 1), Waited(q)[j] = Seen(d, t + 1)
       PROVE  c.earliest <= d.earliest
  <2>1. q[i] = Seen(c, t) /\ q[j] = Seen(d, t)
    BY <1>8, <1>11
  <2> QED
    BY <1>11, <2>1 DEF Mirrors
<1> QED
  BY <1>1, <1>4, <1>6, <1>9, <1>10, <1>11 DEF Mirrors

MirrorInv == now \in Nat /\ Mirrors(queue, exact, now)

LEMMA ArriveMirrors == MirrorInv /\ Arrive => MirrorInv'
<1> SUFFICES ASSUME MirrorInv, Arrive PROVE MirrorInv'
  OBVIOUS
<1>1. PICK priority \in [Names -> Priorities], ahead \in [Names -> 0 .. Furthest],
           arriving \in SUBSET (Names \ Known) :
        /\ exact' = exact \cup {[event |-> n, priority |-> priority[n],
                                 earliest |-> now + ahead[n]] : n \in arriving}
        /\ queue' \in Enqueued(queue, ToSet(queue),
                               {[event |-> n, priority |-> priority[n],
                                 wait |-> ahead[n]] : n \in arriving})
        /\ UNCHANGED now
  BY DEF Arrive
<1> DEFINE new(n) == [event |-> n, priority |-> priority[n], earliest |-> now + ahead[n]]
           E2     == {new(n) : n \in arriving}
<1>2. ASSUME NEW n \in arriving
      PROVE  /\ new(n) \in Moments /\ new(n).event = n /\ new(n).earliest >= now
             /\ Seen(new(n), now) = [event |-> n, priority |-> priority[n], wait |-> ahead[n]]
  <2>1. ahead[n] \in Nat /\ priority[n] \in Nat /\ n \in Names /\ now \in Nat
    BY ClockAssumption DEF Priorities, MirrorInv
  <2>2. new(n) \in Moments /\ new(n).event = n /\ new(n).priority = priority[n]
        /\ new(n).earliest = now + ahead[n]
    BY <2>1 DEF Moments
  <2> HIDE DEF new
  <2>3. new(n).earliest - now = ahead[n] /\ new(n).earliest >= now
    BY <2>1, <2>2
  <2>4. Max({ahead[n], 0}) = ahead[n]
    BY <2>1, Greater
  <2>5. Seen(new(n), now) = [event |-> n, priority |-> priority[n], wait |-> ahead[n]]
    BY <2>2, <2>3, <2>4 DEF Seen
  <2> QED
    BY <2>2, <2>3, <2>5
<1>3. IsFiniteSet(E2)
  <2> DEFINE f == [n \in arriving |-> new(n)]
  <2>1. E2 = {f[n] : n \in arriving} /\ DOMAIN f = arriving
    OBVIOUS
  <2>2. IsFiniteSet(arriving)
    BY NamesAssumption, FS_Subset
  <2> HIDE DEF f, E2
  <2> QED
    BY <2>1, <2>2, ImageIsFinite
<1>4. exact' = exact \cup E2
  BY <1>1
<1> HIDE DEF new
<1>5. {Seen(c, now) : c \in E2} = {[event |-> n, priority |-> priority[n], wait |-> ahead[n]] : n \in arriving}
  BY <1>2
<1>6. queue' \in Enqueued(queue, {Seen(c, now) : c \in exact}, {Seen(c, now) : c \in E2})
  BY <1>1, <1>5 DEF MirrorInv, Mirrors
<1>7. /\ E2 \subseteq Moments
      /\ \A c \in E2 : c.earliest >= now
      /\ \A c, d \in E2 : c.event = d.event => c = d
      /\ \A c \in exact, d \in E2 : c.event # d.event
  BY <1>2 DEF Known
<1> HIDE DEF E2
<1>8. Mirrors(queue', exact \cup E2, now)
  BY <1>3, <1>6, <1>7, RequeuedMirrors DEF MirrorInv
<1> QED
  BY <1>1, <1>4, <1>8 DEF MirrorInv

LEMMA LeaveMirrors ==
    ASSUME MirrorInv, NEW n \in Names, Leave(n)
    PROVE  MirrorInv'
<1> DEFINE E1 == {c \in exact : c.event # n}
<1>1. exact' = E1 /\ now' = now
  BY DEF Leave
<1>2. exact \subseteq Moments /\ ToSet(queue) = {Seen(c, now) : c \in exact} /\ now \in Nat
  BY DEF MirrorInv, Mirrors
<1>3. {c \in ToSet(queue) : c.event # n} = {Seen(c, now) : c \in E1}
  BY <1>2, SeenIs
<1>4. {} = {Seen(c, now) : c \in {}}
  OBVIOUS
<1>5. queue' \in Enqueued(queue, {Seen(c, now) : c \in E1}, {Seen(c, now) : c \in {}})
  BY <1>3, <1>4 DEF Leave
<1> HIDE DEF E1
<1>6. E1 \in SUBSET exact
  BY DEF E1
<1>7. Mirrors(queue', E1 \cup {}, now)
  BY <1>2, <1>5, <1>6, FS_EmptySet, RequeuedMirrors DEF MirrorInv
<1> QED
  BY <1>1, <1>2, <1>7 DEF MirrorInv

LEMMA PlannerMirrors == MCSpec => []MirrorInv
<1>1. MCInit => MirrorInv
  <2> SUFFICES ASSUME MCInit PROVE MirrorInv
    OBVIOUS
  <2>1. <<>> \in Seq(Waiting) /\ DOMAIN <<>> = {}
    OBVIOUS
  <2> QED
    BY <2>1 DEF MCInit, MirrorInv, Mirrors, ToSet
<1>2. MirrorInv /\ [MCNext]_mcVars => MirrorInv'
  <2> SUFFICES ASSUME MirrorInv, [MCNext]_mcVars PROVE MirrorInv'
    OBVIOUS
  <2>1. CASE Arrive
    BY <2>1, ArriveMirrors
  <2>2. CASE \E n \in Names : Leave(n)
    BY <2>2, LeaveMirrors
  <2>3. CASE Passes
    BY <2>3, WaitedMirrors DEF Passes, MirrorInv
  <2>4. CASE UNCHANGED mcVars
    BY <2>4 DEF mcVars, MirrorInv
  <2> QED
    BY <2>1, <2>2, <2>3, <2>4 DEF MCNext
<1> QED
  BY <1>1, <1>2, PTL DEF MCSpec

\* The moments behind an entry of the plan are those of its candidate.
LEMMA EntryIs ==
    ASSUME MirrorInv
    PROVE  \E order :
              /\ Sorts(queue, order) /\ Schedules(queue, order, Planned)
              /\ DOMAIN Planned = DOMAIN queue
              /\ \A k \in DOMAIN queue :
                    /\ order[k] \in DOMAIN queue
                    /\ FactsOf(Planned[k]) \in exact
                    /\ queue[order[k]] = Seen(FactsOf(Planned[k]), now)
<1>1. queue \in Seq(Waiting) /\ exact \subseteq Moments /\ now \in Nat
      /\ ToSet(queue) = {Seen(c, now) : c \in exact}
  BY DEF MirrorInv, Mirrors
<1>2. PICK order : Sorts(queue, order)
  BY <1>1, OrderedSorts DEF Waiting
<1>3. Schedules(queue, order, Planned)
  BY <1>1, <1>2, PlanSchedules DEF Waiting, Planned
<1>4. DOMAIN Planned = DOMAIN queue
  BY <1>3 DEF Schedules
<1>5. ASSUME NEW k \in DOMAIN queue
      PROVE  /\ order[k] \in DOMAIN queue
             /\ FactsOf(Planned[k]) \in exact
             /\ queue[order[k]] = Seen(FactsOf(Planned[k]), now)
  <2>1. order[k] \in DOMAIN queue /\ Planned[k].event = queue[order[k]].event
    BY <1>2, <1>3 DEF Sorts, Schedules
  <2>2. PICK c \in exact : queue[order[k]] = Seen(c, now)
    BY <1>1, <2>1 DEF ToSet
  <2>3. Planned[k].event = c.event
    BY <1>1, <2>1, <2>2, SeenIs
  <2>4. \A d \in exact : d.event = c.event => d = c
    BY DEF MirrorInv, Mirrors
  <2>5. FactsOf(Planned[k]) = c
    BY <2>3, <2>4 DEF FactsOf
  <2> QED
    BY <2>1, <2>2, <2>5
<1> QED
  BY <1>2, <1>3, <1>4, <1>5

\* Whatever candidates come and go while the clock runs, the plan of the queue is
\* that of DeterministicPlanner.plan: each candidate once, by priority, then by
\* the absolute moment of its earliest start.
THEOREM SortedByMoments == MCSpec => []SortedAsInTheSource
<1>1. ASSUME MirrorInv PROVE SortedAsInTheSource
  <2>1. PICK order :
          /\ Sorts(queue, order) /\ Schedules(queue, order, Planned)
          /\ DOMAIN Planned = DOMAIN queue
          /\ \A k \in DOMAIN queue :
                /\ order[k] \in DOMAIN queue
                /\ FactsOf(Planned[k]) \in exact
                /\ queue[order[k]] = Seen(FactsOf(Planned[k]), now)
    BY <1>1, EntryIs
  <2>2. queue \in Seq(Waiting) /\ exact \subseteq Moments /\ now \in Nat
        /\ ToSet(queue) = {Seen(c, now) : c \in exact}
        /\ \A i, j \in DOMAIN queue : queue[i] = queue[j] => i = j
    BY <1>1 DEF MirrorInv, Mirrors
  <2>3. Len(queue) \in Nat /\ DOMAIN queue = 1 .. Len(queue)
    BY <2>2
  <2>4. \A c \in exact : \E k \in DOMAIN queue : FactsOf(Planned[k]) = c
    <3> SUFFICES ASSUME NEW c \in exact PROVE \E k \in DOMAIN queue : FactsOf(Planned[k]) = c
      OBVIOUS
    <3>1. PICK i \in DOMAIN queue : queue[i] = Seen(c, now)
      BY <2>2 DEF ToSet
    <3>2. PICK k \in DOMAIN queue : order[k] = i
      BY <2>1 DEF Sorts
    <3>3. \A d \in exact : Seen(d, now) = Seen(c, now) => d = c
      BY <1>1, <2>2, SeenIs DEF MirrorInv, Mirrors
    <3> QED
      BY <2>1, <3>1, <3>2, <3>3
  <2>5. \A k, l \in DOMAIN queue : FactsOf(Planned[k]) = FactsOf(Planned[l]) => k = l
    BY <2>1, <2>2 DEF Sorts
  <2>6. Len(Planned) = Len(queue)
    BY <2>1, <2>3 DEF Schedules
  <2>7. Cardinality(exact) = Len(queue)
    <3> DEFINE f == [k \in 1 .. Len(queue) |-> FactsOf(Planned[k])]
    <3>1. f \in [1 .. Len(queue) -> exact]
      BY <2>1, <2>3
    <3>2. \A k, l \in 1 .. Len(queue) : f[k] = f[l] => k = l
      BY <2>3, <2>5
    <3>3. \A c \in exact : \E k \in 1 .. Len(queue) : f[k] = c
      BY <2>3, <2>4
    <3> HIDE DEF f
    <3>4. f \in Bijection(1 .. Len(queue), exact)
      BY <3>1, <3>2, <3>3, Fun_IsBij
    <3>5. ExistsBijection(1 .. Len(queue), exact)
      BY <3>4 DEF ExistsBijection
    <3> QED
      BY <2>3, <3>5, FS_CountingElements
  <2>8. \A k \in DOMAIN queue : /\ Planned[k].event = FactsOf(Planned[k]).event
                                /\ Planned[k].priority = FactsOf(Planned[k]).priority
    <3> SUFFICES ASSUME NEW k \in DOMAIN queue
                 PROVE  /\ Planned[k].event = FactsOf(Planned[k]).event
                        /\ Planned[k].priority = FactsOf(Planned[k]).priority
      OBVIOUS
    <3> DEFINE c == FactsOf(Planned[k])
    <3>1. c \in Moments /\ queue[order[k]] = Seen(c, now)
      BY <2>1, <2>2
    <3>2. /\ Planned[k].event = queue[order[k]].event
          /\ Planned[k].priority = queue[order[k]].priority
      BY <2>1 DEF Schedules
    <3> HIDE DEF c
    <3>3. Planned[k].event = c.event /\ Planned[k].priority = c.priority
      BY <2>2, <3>1, <3>2, SeenIs
    <3> QED
      BY <3>3 DEF c
  <2>9. \A c \in exact : \E k \in DOMAIN Planned :
          Planned[k].event = c.event /\ Planned[k].priority = c.priority
    BY <2>1, <2>4, <2>8
  <2>10. ASSUME NEW i \in DOMAIN queue, NEW j \in DOMAIN queue, i < j
         PROVE  \/ Planned[i].priority > Planned[j].priority
                \/ /\ Planned[i].priority = Planned[j].priority
                   /\ FactsOf(Planned[i]).earliest <= FactsOf(Planned[j]).earliest
    <3>1. Before(queue, order[i], order[j])
      BY <2>1, <2>10 DEF Sorts
    <3>2. order[i] < order[j] => FactsOf(Planned[i]).earliest <= FactsOf(Planned[j]).earliest
      BY <1>1, <2>1 DEF MirrorInv, Mirrors
    <3>3. /\ Planned[i].priority = queue[order[i]].priority
          /\ Planned[j].priority = queue[order[j]].priority
      BY <2>1 DEF Schedules
    <3> QED
      BY <3>1, <3>2, <3>3 DEF Before
  <2> QED
    BY <2>1, <2>6, <2>7, <2>9, <2>10 DEF SortedAsInTheSource
<1> QED
  BY <1>1, PlannerMirrors, PTL

\* The plan never overlaps itself (what SchedulingPlan checks), has nothing in the
\* past or before its earliest start, and leaves no time unused.
THEOREM NoTimeUnused == MCSpec => []FeasibleAndTight
<1>1. ASSUME MirrorInv PROVE FeasibleAndTight
  <2>1. PICK order :
          /\ Sorts(queue, order) /\ Schedules(queue, order, Planned)
          /\ DOMAIN Planned = DOMAIN queue
          /\ \A k \in DOMAIN queue :
                /\ order[k] \in DOMAIN queue
                /\ FactsOf(Planned[k]) \in exact
                /\ queue[order[k]] = Seen(FactsOf(Planned[k]), now)
    BY <1>1, EntryIs
  <2>2. queue \in Seq(Waiting) /\ exact \subseteq Moments /\ now \in Nat
    BY <1>1 DEF MirrorInv, Mirrors
  <2> SUFFICES ASSUME NEW k \in DOMAIN queue
               PROVE  LET allowed == {0, FactsOf(Planned[k]).earliest - now} \cup
                                     {Planned[j].start + Slot : j \in 1..(k - 1)}
                      IN  /\ \A a \in allowed : Planned[k].start >= a
                          /\ Planned[k].start \in allowed
    BY <2>1 DEF FeasibleAndTight
  <2> DEFINE c == FactsOf(Planned[k])
             w == queue[order[k]].wait
  <2>3. c.earliest \in Nat /\ w = IF c.earliest >= now THEN c.earliest - now ELSE 0
    <3>1. c \in Moments
      BY <2>1, <2>2
    <3>2. c.earliest \in Nat
      BY <3>1 DEF Moments
    <3> QED
      BY <2>1, <2>2, <3>1, <3>2, SeenIs
  <2>4. /\ Planned[k].start >= w
        /\ \A j \in 1 .. k - 1 : Planned[k].start >= Planned[j].start + Slot
        /\ \/ Planned[k].start = w
           \/ \E j \in 1 .. k - 1 : Planned[k].start = Planned[j].start + Slot
    BY <2>1 DEF Schedules
  <2>5. Planned[k].start \in Nat
    BY <2>1 DEF Schedules
  <2> HIDE DEF c, w
  <2>6. w \in {0, c.earliest - now} /\ w >= 0 /\ w >= c.earliest - now
    BY <2>2, <2>3
  <2>7. Planned[k].start >= 0 /\ Planned[k].start >= c.earliest - now
    BY <2>2, <2>3, <2>4, <2>5, <2>6
  <2> QED
    BY <2>4, <2>6, <2>7 DEF c
<1> QED
  BY <1>1, PlannerMirrors, PTL
=============================================================================
